--------------------------- MODULE WaitTransition ---------------------------
(***************************************************************************)
(* The Go client's WaitTransition (pkg/client/client.go) composed with the *)
(* transition engine: a client polls GET /transitions/{id}, which serves   *)
(* the row in the database, until the state it reads is terminal.          *)
(***************************************************************************)
EXTENDS TransitionRunner

VARIABLE waiter   \* per transition: "idle", "polling", "error", or the state returned

waitVars == <<vars, waiter>>

\* Faulty variants: a running transition is taken for a finished one; a
\* partial one is not.
IsTransitionTerminalStateEarly(state) ==
    state \in {"running", "completed", "failed", "partial", "canceled"}

IsTransitionTerminalStateNoPartial(state) ==
    state \in {"completed", "failed", "canceled"}

IsTransitionTerminalState(state) ==
    state \in {"completed", "failed", "partial", "canceled"}

\* A client may wait for any transition whose id its create call returned.
BeginWait(t) ==
    /\ waiter[t] = "idle"
    /\ call[t] = "returned"
    /\ waiter' = [waiter EXCEPT ![t] = "polling"]
    /\ UNCHANGED vars

\* One round of the loop that ends the wait; a round that reads any other
\* state sleeps and changes nothing.
Poll(t) ==
    /\ waiter[t] = "polling"
    /\ IsTransitionTerminalState(row[t].state)
    /\ waiter' = [waiter EXCEPT ![t] = row[t].state]
    /\ UNCHANGED vars

\* A GET that fails, or the end of the caller's context, ends the wait with
\* an error.
WaitFails(t) ==
    /\ waiter[t] = "polling"
    /\ waiter' = [waiter EXCEPT ![t] = "error"]
    /\ UNCHANGED vars

WaitInit == Init /\ waiter = [t \in Transitions |-> "idle"]

WaitNext ==
    \/ Next /\ UNCHANGED waiter
    \/ \E t \in Transitions : BeginWait(t)
    \/ \E t \in Transitions : Poll(t)
    \/ \E t \in Transitions : WaitFails(t)

WaitSpec == WaitInit /\ [][WaitNext]_waitVars

\* The client keeps polling.  No error has to come to its aid.
FairWaitSpec ==
    /\ WaitSpec
    /\ Fairness
    /\ \A t \in Transitions : WF_waitVars(Poll(t))

Answered(t) == waiter[t] \notin {"idle", "polling"}

\* What WaitTransition returned for a transition nobody aborted stays true:
\* the row's state never changes again, and, with the database and the
\* process healthy, it is the verdict of the nodes' outcomes.
AnswerIsFinal ==
    \A t \in Transitions : Answered(t) /\ waiter[t] # "error" /\ abort[t] = "idle" =>
        /\ row[t].state = waiter[t]
        /\ faults = 0 /\ running => waiter[t] = Verdict(t)

\* Every wait for a transition that really runs ends, unless the service is
\* told to stop.  A dry run is planned from the start, which the client does
\* not take for a terminal state: waiting for one ends only with WaitFails.
WaitEnds ==
    \A t \in Transitions :
        waiter[t] = "polling" /\ ~request[t].dry ~> Answered(t) \/ ~running

=============================================================================
