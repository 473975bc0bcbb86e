------------------------------ MODULE PowerAPI ------------------------------
(***************************************************************************)
(* The HTTP API of chamicore-power (internal/server) on top of the         *)
(* transition engine: POST /transitions and /actions/*, GET and DELETE     *)
(* /transitions/{id}, GET /power-status; and the process around it, which  *)
(* may die at any moment and starts again with the tables it left.         *)
(*                                                                         *)
(* Each statement a handler sends to the database is a step.  A request    *)
(* that is refused (scope, body, operation, an unknown id or group, too    *)
(* many nodes) changes nothing and is not a step; neither is the read that *)
(* completes the answer of a POST.                                         *)
(***************************************************************************)
EXTENDS TransitionRunner

CONSTANTS
    NodeSets,      \* per transition: the node sets its request may name
    GroupSets,     \* per transition: the sets of groups its request may name
    Memberships,   \* what SMD may answer about groups when it is asked
    Unresolved,    \* ... its answer for a group it does not know, or no answer
    BulkMaxNodes,  \* cfg.BulkMaxNodes
    PowerStates,   \* the final power states operations lead to
    NoState,       \* SMD was told no power state yet
    NoReader,      \* no GET is in progress
    Readable,      \* transitions some client looks at
    MaxCrashes,    \* bound on deaths of the process
    MaxEvents      \* bound on requests and deaths together

\* resolveGroupMembers: SMD knows the group and answers.
GroupFound(g, members) == members[g] # Unresolved

\* resolveTargets: the nodes, and the members of the groups, without
\* duplicates; one group that does not resolve leaves no target at all.
ResolveTargets(nodes, groups, members) ==
    IF \E g \in groups : ~GroupFound(g, members) THEN {}
    ELSE nodes \cup UNION {members[g] : g \in groups}

ASSUME APIConstants ==
    /\ NodeSets \in [Transitions -> SUBSET SUBSET Nodes]
    /\ \A t \in Transitions, members \in Memberships :
          \A nodes \in NodeSets[t], groups \in GroupSets[t] :
              ResolveTargets(nodes, groups, members) \in TargetSets
    /\ BulkMaxNodes \in Nat \ {0}
    /\ NoState \notin PowerStates
    /\ Readable \subseteq Transitions
    /\ MaxCrashes \in Nat
    /\ MaxEvents \in Nat

VARIABLES
    wanted,   \* the power state each transition's operation leads to
    order,    \* per node: its tasks by updated_at: the pairs of stamps the first
              \* of which is not later; stamps are in rows ("row") or taken by
              \* completeTask and not yet written ("mem")
    smd,      \* the power state of each node in SMD
    reader,   \* a GET /transitions/{id} between its statements
    del,      \* the DELETE /transitions/{id} of each transition
    crashes   \* how often the process has died

apiVars == <<wanted, order, smd, reader, del, crashes>>
allVars == <<vars, apiVars>>

-----------------------------------------------------------------------------
(* POST /transitions and /actions/*.                                       *)

\* The stamps that the order s orders, and s without the stamp x.
Stamps(s) == {p[1] : p \in s}
Without(s, x) == {p \in s : p[1] # x /\ p[2] # x}

\* s with the stamp x, just later than the stamps D; x replaces an earlier x.
Placed(s, x, D) ==
    Without(s, x) \cup ((D \cup {x}) \X {x}) \cup ({x} \X (Stamps(s) \ (D \cup {x})))

\* The stamp x is now the newest of the node.
Newest(s, x) == Placed(s, x, Stamps(s) \ {x})

\* The stamp x was taken at some time before the write that makes it visible:
\* after the earlier x, if there is one, and among the others anywhere.
TakenBefore(s, x) ==
    LET former == {p[1] : p \in {q \in s : q[2] = x}}
        cuts == {D \in SUBSET (Stamps(s) \ {x}) :
                    /\ former \ {x} \subseteq D
                    /\ \A p \in Without(s, x) : p[2] \in D => p[1] \in D}
    IN  {Placed(s, x, D) : D \in cuts}

\* What order may become when the stamps x of the nodes T become visible.
Orders(T, x) ==
    LET next(n) == IF n \in T THEN TakenBefore(order[n], x) ELSE {order[n]}
    IN  {o \in [Nodes -> UNION {next(n) : n \in Nodes}] :
            \A n \in Nodes : o[n] \in next(n)}

\* One more request or death of the process is within the bound.
WithinBound ==
    crashes + Cardinality({t \in Transitions : call[t] # "idle"}) < MaxEvents

\* startTransition up to the creation of the records.
PostTransition(t, nodes, groups, members, state, dry, m, r) ==
    LET targets == ResolveTargets(nodes, groups, members)
    IN  /\ WithinBound
        /\ Cardinality(targets) <= BulkMaxNodes
        /\ StartTransition(t, targets, dry, m, r)
        /\ wanted' = [wanted EXCEPT ![t] = state]
        /\ order' \in IF Commits(r) THEN Orders(targets, <<t, "row">>) ELSE {order}
        /\ UNCHANGED <<smd, reader, del, crashes>>

\* The endpoints: /transitions and /actions/reset take any operation, the
\* other actions their own; the operation decides the final power state.
HandleAction(t) ==
    \E nodes \in NodeSets[t], groups \in GroupSets[t], members \in Memberships,
       state \in PowerStates, dry \in DryRuns, m \in Mappings, r \in Results :
           PostTransition(t, nodes, groups, members, state, dry, m, r)

-----------------------------------------------------------------------------
(* GET /transitions/{id}: loadTransition.                                  *)

\* toTransitionResource: what an answer says of a row and a client relies on.
TransitionResource(t) ==
    [id |-> t, success |-> row[t].success, failure |-> row[t].failure,
     completed |-> row[t].completed]

\* The first statement reads the row ...
GetTransition(t) ==
    /\ t \in Readable
    /\ reader = NoReader
    /\ row[t] # NoRow
    /\ reader' = TransitionResource(t)
    /\ UNCHANGED <<vars, wanted, order, smd, del, crashes>>

\* ... the second one the tasks, and the answer is complete (or it fails,
\* and the answer is 500).
ListTransitionTasks ==
    /\ reader # NoReader
    /\ reader' = NoReader
    /\ UNCHANGED <<vars, wanted, order, smd, del, crashes>>

LoadTransition ==
    \/ \E t \in Transitions : GetTransition(t)
    \/ ListTransitionTasks

-----------------------------------------------------------------------------
(* DELETE /transitions/{id}.                                               *)

\* AbortTransition marks the transition, finds it marked, or finds no entry,
\* which the handler forgives.  A transition between CreateTransition and
\* the registration of its entry has a row, which GET /transitions lists,
\* and no entry: the abort comes too early, does nothing and is answered
\* with 202 as well.  The loadTransition that follows is the one above.
DeleteTransition(t) ==
    /\ t \in Abortable
    /\ row[t] # NoRow
    /\ del[t] # "abort"
    /\ \/ /\ AbortTransition(t)
          /\ del' = [del EXCEPT ![t] = "abort"]
       \/ /\ ~progress[t].live \/ progress[t].aborted
          /\ del' = [del EXCEPT ![t] = IF call[t] = "created"
                                       THEN "early" ELSE "accepted"]
          /\ UNCHANGED vars
    /\ UNCHANGED <<wanted, order, smd, reader, crashes>>

\* Its write; an error is answered with 500, the transition stays marked.
DeletePersist(t, r) ==
    /\ PersistAbort(t, r)
    /\ del' = [del EXCEPT ![t] = IF r = "ok" THEN "accepted" ELSE "idle"]
    /\ UNCHANGED <<wanted, order, smd, reader, crashes>>

-----------------------------------------------------------------------------
(* The engine's steps, with what they stamp and tell SMD.                  *)

\* The stamp completeTask took becomes the stamp of the row ...
Written(s, t) ==
    LET written(x) == IF x = <<t, "mem">> THEN <<t, "row">> ELSE x
    IN  {<<written(p[1]), written(p[2])>> : p \in Without(s, <<t, "row">>)}

\* Faulty variant: the rows keep the order in which they were created.
StampedByCreation(w) == order' = order

\* updated_at is a time the service reads: just before executeTask marks the
\* row running, and when completeTask begins, before the SMD patch and the
\* write.
Stamped(w) ==
    LET t == task[w][1]
        n == task[w][2]
        ending == {"patch", "persistTask"}
        next == CASE pc[w] \notin ending /\ pc'[w] \in ending
                        -> {Newest(order[n], <<t, "mem">>)}
                  [] pc[w] = "begin" /\ taskRow' # taskRow
                        -> TakenBefore(order[n], <<t, "row">>)
                  [] pc[w] = "persistTask" /\ taskRow' # taskRow
                        -> {Written(order[n], t)}
                  [] pc[w] = "persistTask" /\ taskRow' = taskRow
                        -> {Without(order[n], <<t, "mem">>)}
                  [] OTHER -> {order[n]}
    IN  IF task[w] = NoTask THEN order' = order
        ELSE \E s \in next : order' = [order EXCEPT ![n] = s]

\* A patch SMD acknowledges has been applied; one that fails may have been.
PatchComponent(w) ==
    IF pc[w] = "patch"
    THEN \/ smd' = [smd EXCEPT ![task[w][2]] = wanted[task[w][1]]]
         \/ outcome'[w] = "failed" /\ smd' = smd
    ELSE smd' = smd

APIWorkerStep(w) ==
    /\ WorkerStep(w)
    /\ Stamped(w)
    /\ PatchComponent(w)
    /\ UNCHANGED <<wanted, reader, del, crashes>>

\* The process dies, or is told to stop and ends, and is started again:
\* memory is lost, requests end without an answer, the tables stay.  Nothing
\* reads the interrupted transitions back.  (What workers still do between
\* the signal and the end of the process is TransitionRunner's Shutdown.)
Crash ==
    /\ crashes < MaxCrashes
    /\ WithinBound
    /\ crashes' = crashes + 1
    /\ progress' = [t \in Transitions |-> NoProgress]
    /\ ctxDone' = [t \in Transitions |-> FALSE]
    /\ queue' = <<>>
    /\ closed' = FALSE
    /\ limiter' = [b \in BMCs |-> 0]
    /\ running' = TRUE
    /\ call' = [t \in Transitions |-> IF call[t] \in {"created", "check", "send"}
                                      THEN "failed" ELSE call[t]]
    /\ toEnqueue' = [t \in Transitions |-> {}]
    /\ abort' = [t \in Transitions |-> IF abort[t] = "persist" THEN "done" ELSE abort[t]]
    /\ abortSnap' = [t \in Transitions |-> NoRow]
    /\ pc' = [w \in Workers |-> "idle"]
    /\ task' = [w \in Workers |-> NoTask]
    /\ attempt' = [w \in Workers |-> 0]
    /\ outcome' = [w \in Workers |-> "none"]
    /\ snap' = [w \in Workers |-> NoRow]
    /\ holding' = {}
    /\ order' = [n \in Nodes |-> {p \in order[n] : p[1][2] = "row" /\ p[2][2] = "row"}]
    /\ reader' = NoReader
    /\ del' = [t \in Transitions |-> IF del[t] = "abort" THEN "idle" ELSE del[t]]
    /\ UNCHANGED <<storeVars, request, worldVars, wanted, smd>>

-----------------------------------------------------------------------------

APIInit ==
    /\ Init
    /\ wanted = [t \in Transitions |-> NoState]
    /\ order = [n \in Nodes |-> {}]
    /\ smd = [n \in Nodes |-> NoState]
    /\ reader = NoReader
    /\ del = [t \in Transitions |-> "idle"]
    /\ crashes = 0

APINext ==
    \/ \E t \in Transitions : HandleAction(t)
    \/ \E t \in Transitions : CallStep(t) /\ UNCHANGED apiVars
    \/ \E t \in Transitions : EnqueueCanceled(t) /\ UNCHANGED apiVars
    \/ LoadTransition
    \/ \E t \in Transitions : DeleteTransition(t)
    \/ \E t \in Transitions, r \in Results : DeletePersist(t, r)
    \/ \E w \in Workers : APIWorkerStep(w)
    \/ Crash

APISpec == APIInit /\ [][APINext]_allVars

-----------------------------------------------------------------------------
(* Properties.                                                             *)

\* GET /power-status: ListLatestTransitionTasksByNode takes the task of the
\* node, if it has any, whose row has the newest updated_at.
LatestTask(n) ==
    LET rows == {t \in Transitions : <<t, "row">> \in Stamps(order[n])}
    IN  {t \in rows : \A u \in rows : <<<<u, "row">>, <<t, "row">>>> \in order[n]}

\* The answer about a node, of which the newest task is all the service
\* knows: its state, and the power state it verified or, when it verified
\* none, the one its operation leads to, which is the same.  (A node without
\* a mapping is answered as unresolved, one without a task as unknown.)
PowerStatus(n) ==
    {[state |-> taskRow[t][n].state, power |-> wanted[t]] : t \in LatestTask(n)}

\* The nodes of a transition whose task rows have a state among S.
Tasks(t, S) == {n \in request[t].targets : taskRow[t][n].state \in S}

\* An answer of GET /transitions/{id} is consistent although its row and its
\* tasks are read by two statements, and whatever an abort, a disconnect or a
\* crash interrupts: the counters of the row read first never run ahead of
\* the tasks, whenever these are read; and if that row says the transition is
\* over, every task is in a final state and the counters count them exactly.
AnswerIsConsistent ==
    (reader # NoReader /\ faults = 0) =>
        LET succeeded == Cardinality(Tasks(reader.id, {"succeeded"}))
            failed == Cardinality(Tasks(reader.id, {"failed", "canceled"}))
        IN  /\ reader.success <= succeeded
            /\ reader.failure <= failed
            /\ reader.completed =>
                  /\ Tasks(reader.id, TerminalTaskStates) = request[reader.id].targets
                  /\ reader.success = succeeded
                  /\ reader.failure = failed

\* A DELETE that is answered with 202 has stopped the transition, however it
\* raced its workers, and a crash does not revive it: no Redfish action is
\* sent for it any more.  (Not so when the DELETE came before StartTransition
\* had registered its entry: "early".)
AcceptedAbortStops ==
    [][\A t \in Transitions :
          actions'[t] # actions[t] => del[t] # "accepted"]_allVars

\* A worker has told SMD, or may be about to tell it, a state for the node
\* and has yet to write the task.
Telling(n) == \E w \in Workers : /\ pc[w] \in {"patch", "persistTask"}
                                 /\ task[w][2] = n

\* All requests that name the node found it behind the same BMC.
OneBMC(n) ==
    \A t, u \in Transitions :
        n \in request[t].targets \cap request[u].targets
        => request[t].bmc[n] = request[u].bmc[n]

\* With the BMC's actions serialised, power status and SMD agree: when the
\* newest task of a node says that it succeeded and no other task of it is
\* at its end, SMD has the power state that task verified, although tasks of
\* several transitions run on the node and stamp, patch and write in
\* separate steps.  (A mapping sync that moves the node to another BMC
\* between two requests, a database failure or a crash between the patch and
\* the write would break it.)
StatusMatchesSMD ==
    PerBMC = 1 /\ faults = 0 /\ crashes = 0 =>
        \A n \in Nodes : OneBMC(n) /\ ~Telling(n) =>
            \A answer \in PowerStatus(n) :
                answer.state = "succeeded" => smd[n] = answer.power

-----------------------------------------------------------------------------
(* A statement of the repository that the API does not live up to.         *)

\* api/openapi.yaml on DELETE /transitions/{id}: it "requests cancellation for
\* an in-progress transition", and 202 says "Abort accepted".  So a transition
\* whose DELETE was answered with 202 is not in progress, or marked aborted.
AcceptedAbortIsTaken ==
    \A t \in Transitions :
        del[t] \in {"accepted", "early"} => ~progress[t].live \/ progress[t].aborted

=============================================================================
