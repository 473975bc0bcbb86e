------------------------ MODULE MCTransitionRunner ------------------------
(***************************************************************************)
(* Small instances of TransitionRunner for TLC.                            *)
(***************************************************************************)
EXTENDS TransitionRefinement, TLC

CONSTANT b1

\* Both nodes behind one BMC.
SharedBMC == {[n \in Nodes |-> b1]}

\* Both nodes behind one BMC, or the second one unmapped.
SharedOrMissing == {[n \in Nodes |-> b1],
                    [n \in Nodes |-> IF n = 1 THEN b1 ELSE NoBMC]}

AnyTargets == SUBSET Nodes

WorkerSymmetry == Permutations(Workers)

=============================================================================
