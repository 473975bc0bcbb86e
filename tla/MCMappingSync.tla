--------------------------- MODULE MCMappingSync ---------------------------
(***************************************************************************)
(* Small instances of MappingSync for TLC.  Nodes are 11 and 12, BMCs 1    *)
(* and 2.                                                                  *)
(***************************************************************************)
EXTENDS MappingSync, TLC

\* Both nodes behind BMC 1, so that a page of two entries leaves node 12 out;
\* or node 11 moved behind BMC 2, which no list names itself, and node 12
\* without a parent.
SmallComponents ==
    {1 :> NoParent @@ 11 :> 1 @@ 12 :> 1,
     11 :> 2 @@ 12 :> NoParent}

\* BMC 1 has an address; or another one, and BMC 2 has it as well, so that
\* going back to the first list takes BMC 2's record away.
SmallInterfaces == {1 :> "a", 1 :> "b" @@ 2 :> "b"}

\* Two nodes behind BMC 1.
TwoNodes == {1 :> NoParent @@ 11 :> 1 @@ 12 :> 1}

OneInterface == {1 :> "a"}

=============================================================================
