----------------------------- MODULE MCPowerAPI -----------------------------
(***************************************************************************)
(* Small instances of PowerAPI for TLC.                                    *)
(***************************************************************************)
EXTENDS PowerAPI, TLC

CONSTANTS b1, g1, t1

\* All nodes behind one BMC.
SharedBMC == {[n \in Nodes |-> b1]}

\* One request names the group, the others the first node.
FirstNode == [t \in Transitions |-> {{1}}]
OneGroup  == [t \in Transitions |-> IF t = t1 THEN {{g1}} ELSE {{}}]

\* The group holds every node, or does not resolve.
WholeGroup == {[g \in {g1} |-> Nodes], [g \in {g1} |-> Unresolved]}

APISymmetry == Permutations(Workers) \cup Permutations(PowerStates)

=============================================================================
