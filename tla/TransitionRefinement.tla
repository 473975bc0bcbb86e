------------------------ MODULE TransitionRefinement ------------------------
(***************************************************************************)
(* The transition engine implements TransitionLifecycle: the row in the    *)
(* database is what is shown, the outcomes the engine counted are the      *)
(* results.                                                                *)
(***************************************************************************)
EXTENDS TransitionRunner

\* A node of a dry run has no outcome in the engine: it is planned.
ResultOf(t, n) ==
    IF request[t].dry /\ n \in Mapped(request[t].targets, request[t].bmc)
    THEN "planned" ELSE outcomes[t][n]

Lifecycle == INSTANCE TransitionLifecycle WITH
    dry     <- [t \in Transitions |-> request[t].dry],
    targets <- [t \in Transitions |-> request[t].targets],
    result  <- [t \in Transitions |-> [n \in Nodes |-> ResultOf(t, n)]],
    cancel  <- abort,
    shown   <- row

\* The engine implements the abstract lifecycle, with every failure of the
\* database, disconnect, abort and shutdown: a node's result is decided once
\* and for good, the row tells the end exactly when every node is decided
\* and then says what the results amount to, its counters never run ahead of
\* the results, it never says running again after the last node was decided,
\* and only a cancellation taken before that may still be shown after it.
ImplementsLifecycle == Lifecycle!LifecycleSpec

=============================================================================
