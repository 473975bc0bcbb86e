------------------------ MODULE TransitionLifecycle ------------------------
(***************************************************************************)
(* What chamicore-power promises to someone who watches a transition       *)
(* through its row in the database: which nodes it was accepted for, what  *)
(* became of each of them, and what the row may say about it and when.     *)
(* There are no workers, queues, slots, snapshots or failing transactions  *)
(* here.  TransitionRefinement shows that the engine implements this.      *)
(***************************************************************************)
EXTENDS Integers, FiniteSets

CONSTANTS Transitions, Nodes

VARIABLES
    dry,      \* was the transition asked for as a dry run?
    targets,  \* its nodes; none before it is accepted
    result,   \* what became of each node
    cancel,   \* "idle", "persist": asked for and still to be shown, "done"
    shown     \* the row

lifecycleVars == <<dry, targets, result, cancel, shown>>

Results == {"none", "planned", "succeeded", "failed", "canceled"}

Undecided(t) == {n \in targets[t] : result[t][n] = "none"}

\* How many of the nodes in T have a result among S, given the results res.
Count(T, res, S) == Cardinality({n \in T : res[n] \in S})

\* The counters of a row say exactly, or at most, what the results are.
ExactCounts(s, T, res) ==
    /\ s.success = Count(T, res, {"succeeded"})
    /\ s.failure = Count(T, res, {"failed", "canceled"})

ModestCounts(s, T, res) ==
    /\ s.success <= Count(T, res, {"succeeded"})
    /\ s.failure <= Count(T, res, {"failed", "canceled"})

\* The state of a transition all of whose nodes are decided.
FinalState(isDry, T, res) ==
    LET seen == {res[n] : n \in T}
    IN  CASE isDry -> "planned"
          [] ~isDry /\ seen = {"canceled"} -> "canceled"
          [] ~isDry /\ seen = {"succeeded"} -> "completed"
          [] ~isDry /\ seen # {"canceled"} /\ "succeeded" \notin seen -> "failed"
          [] OTHER -> "partial"

\* The row says that the transition is over, and how.
TellsTheEnd(s, isDry, T, res) ==
    /\ \A n \in T : res[n] # "none"
    /\ s.completed
    /\ s.state = FinalState(isDry, T, res)
    /\ ExactCounts(s, T, res)

\* The row says that the transition is not over.
TellsOpen(s, state, T, res) ==
    /\ s.state = state
    /\ ~s.completed
    /\ ModestCounts(s, T, res)

-----------------------------------------------------------------------------

LifecycleInit ==
    /\ dry = [t \in Transitions |-> FALSE]
    /\ targets = [t \in Transitions |-> {}]
    /\ result = [t \in Transitions |-> [n \in Nodes |-> "none"]]
    /\ cancel = [t \in Transitions |-> "idle"]
    /\ \A t \in Transitions : shown[t].state = "absent"

\* Nothing about any other transition changes.
OnlyConcerns(t) ==
    \A u \in Transitions \ {t} :
        /\ dry'[u] = dry[u] /\ targets'[u] = targets[u] /\ result'[u] = result[u]
        /\ cancel'[u] = cancel[u] /\ shown'[u] = shown[u]

\* A request is accepted: nodes without a BMC have failed, those of a dry
\* run are planned, the others are to be decided.  The row says so, or the
\* request is lost with it.
Accept(t) ==
    /\ targets[t] = {}
    /\ targets'[t] # {}
    /\ \A n \in Nodes :
          result'[t][n] \in IF n \notin targets'[t] THEN {"none"}
                            ELSE IF dry'[t] THEN {"planned", "failed"}
                            ELSE {"none", "failed"}
    /\ \/ shown'[t] = shown[t]
       \/ TellsTheEnd(shown'[t], dry'[t], targets'[t], result'[t])
       \/ /\ \E n \in targets'[t] : result'[t][n] = "none"
          /\ TellsOpen(shown'[t], "pending", targets'[t], result'[t])
    /\ cancel'[t] = cancel[t]
    /\ OnlyConcerns(t)

\* One node of a transition that the row knows is decided, for good.
Decide(t) ==
    /\ shown[t].state # "absent"
    /\ \E n \in Undecided(t) :
          \E o \in {"succeeded", "failed", "canceled"} :
              result' = [result EXCEPT ![t][n] = o]
    /\ UNCHANGED <<dry, targets, cancel, shown>>

\* The row says that the transition runs, only while a node is undecided.
ShowRunning(t) ==
    /\ Undecided(t) # {}
    /\ TellsOpen(shown'[t], "running", targets[t], result[t])
    /\ OnlyConcerns(t)
    /\ UNCHANGED <<dry, targets, result, cancel>>

\* A cancellation is taken while a node is undecided, once ...
Cancel(t) ==
    /\ Undecided(t) # {}
    /\ cancel[t] = "idle"
    /\ cancel' = [cancel EXCEPT ![t] = "persist"]
    /\ UNCHANGED <<dry, targets, result, shown>>

\* ... and shown once, or never when the write is lost; it may come after
\* the row has told the end.
ShowCanceled(t) ==
    /\ cancel[t] = "persist"
    /\ cancel' = [cancel EXCEPT ![t] = "done"]
    /\ \/ shown'[t] = shown[t]
       \/ TellsOpen(shown'[t], "canceled", targets[t], result[t])
    /\ OnlyConcerns(t)
    /\ UNCHANGED <<dry, targets, result>>

\* The row tells the end once every node is decided, and never over a row
\* that tells it already.
ShowEnd(t) ==
    /\ ~shown[t].completed
    /\ TellsTheEnd(shown'[t], dry[t], targets[t], result[t])
    /\ OnlyConcerns(t)
    /\ UNCHANGED <<dry, targets, result, cancel>>

LifecycleNext ==
    \E t \in Transitions :
        \/ Accept(t)
        \/ Decide(t)
        \/ ShowRunning(t)
        \/ Cancel(t)
        \/ ShowCanceled(t)
        \/ ShowEnd(t)

LifecycleSpec == LifecycleInit /\ [][LifecycleNext]_lifecycleVars

=============================================================================
