---------------------------- MODULE MCResourceStore ----------------------------
(***************************************************************************)
(* Two rows, so that names can clash, and two clients that race.           *)
(***************************************************************************)
EXTENDS ResourceStore, TLC

CONSTANTS n1, n2, c1, c2

\* The clients differ in nothing but their name, and so do the two names.
Interchangeable == Permutations({c1, c2}) \cup Permutations({n1, n2})
================================================================================
