------------------------- MODULE MCWaitTransition -------------------------
(***************************************************************************)
(* Small instances of WaitTransition for TLC.                              *)
(***************************************************************************)
EXTENDS WaitTransition, TLC

CONSTANT b1

\* Both nodes behind one BMC, or the second one unmapped.
SharedOrMissing == {[n \in Nodes |-> b1],
                    [n \in Nodes |-> IF n = 1 THEN b1 ELSE NoBMC]}

=============================================================================
