-------------------------- MODULE TransitionRunner --------------------------
(***************************************************************************)
(* The transition engine of chamicore-power: StartTransition calls persist *)
(* a transition and its per-node tasks and feed a bounded queue; a pool of *)
(* workers takes tasks off the queue, sends Redfish actions under a per-   *)
(* BMC limit with retries, verifies the power state, patches SMD and       *)
(* records the outcome; AbortTransition cancels; a shutdown cancels the    *)
(* context everything runs in.  Code: services/chamicore-power/internal/   *)
(* engine, and the writes of internal/store it calls.                      *)
(*                                                                         *)
(* What is a step.  A block under progressMu is one step, a store call is  *)
(* one step (one database transaction), a call to a BMC or to SMD is one   *)
(* or two.  The snapshot a block under the lock takes for a later          *)
(* UpdateTransition is state of its own (snap, abortSnap): the write may   *)
(* happen long after.                                                      *)
(***************************************************************************)
EXTENDS Integers, Sequences, FiniteSets

CONSTANTS
    Transitions,    \* ids CreateTransition may assign
    Nodes,          \* node ids, numbered in the order sort.Strings gives them
    BMCs,           \* BMC ids
    NoBMC,          \* the node has no usable mapping
    Mappings,       \* what the mapping tables may hold when a request resolves
    Workers,        \* globalConcurrency goroutines
    NoTask,         \* an idle worker's task
    PerBMC,         \* perBMCConcurrency
    RetryAttempts,  \* retryAttempts
    QueueSize,      \* queueSize
    TargetSets,     \* the node sets requests name, duplicates and blanks removed
    DryRuns,        \* values of the dryRun flag that requests carry
    Abortable,      \* transitions some client asks to abort
    MaxStoreFaults, \* bound on failed database transactions
    MayDisconnect,  \* may a request context end while its call enqueues?
    MayShutdown     \* may the process be told to stop?

ASSUME ConstantsAssumption ==
    /\ IsFiniteSet(Nodes) /\ Nodes \subseteq Nat
    /\ IsFiniteSet(Workers)
    /\ NoBMC \notin BMCs
    /\ Mappings \subseteq [Nodes -> BMCs \cup {NoBMC}]
    /\ NoTask \notin Transitions \X Nodes
    /\ PerBMC \in Nat \ {0}
    /\ RetryAttempts \in Nat \ {0}
    /\ QueueSize \in Nat \ {0}
    /\ TargetSets \subseteq SUBSET Nodes
    /\ DryRuns \subseteq BOOLEAN
    /\ Abortable \subseteq Transitions
    /\ MaxStoreFaults \in Nat
    /\ MayDisconnect \in BOOLEAN
    /\ MayShutdown \in BOOLEAN

VARIABLES
    \* PostgreSQL: the tables and the transactional outbox
    row,         \* power.transitions, by transition
    taskRow,     \* power.transition_tasks, by transition and node
    lifecycle,   \* lifecycle events in the outbox, by transition
    taskResults, \* task-result events in the outbox, by transition and node
    faults,      \* how many transactions have failed
    \* memory of the service
    progress,    \* Runner.progress
    ctxDone,     \* has the transition's execution context been cancelled?
    queue,       \* Queue.ch
    closed,      \* Queue.closed
    limiter,     \* Runner.bmcLimiters: slots taken
    running,     \* is the runner's context still alive?
    \* StartTransition calls, and the calls that abort
    call, request, toEnqueue, abort, abortSnap,
    \* worker goroutines
    pc, task, attempt, outcome, snap, holding,
    \* outside the service, and history
    actions,     \* Redfish reset actions sent, by transition and node
    patched,     \* tasks whose SMD patch was acknowledged
    outcomes     \* history: the outcome counted for each task

storeVars  == <<row, taskRow, lifecycle, taskResults, faults>>
engineVars == <<progress, ctxDone, queue, closed, limiter, running>>
callVars   == <<call, request, toEnqueue, abort, abortSnap>>
workerVars == <<pc, task, attempt, outcome, snap, holding>>
worldVars  == <<actions, patched, outcomes>>
vars       == <<storeVars, engineVars, callVars, workerVars, worldVars>>

-----------------------------------------------------------------------------
(* Rows and in-memory records.                                             *)

FinalStates == {"completed", "failed", "partial", "canceled", "planned"}
TransitionStates == {"absent", "pending", "running"} \cup FinalStates

TerminalTaskStates == {"succeeded", "failed", "canceled", "planned"}
TaskStates == {"absent", "pending", "running"} \cup TerminalTaskStates

\* started and completed stand for started_at and completed_at being set.
Rows == [state : TransitionStates, started : BOOLEAN, completed : BOOLEAN,
         success : Nat, failure : Nat]

NoRow == [state |-> "absent", started |-> FALSE, completed |-> FALSE,
          success |-> 0, failure |-> 0]

TaskRows == [state : TaskStates, attempts : Nat]

\* transitionProgress.  Its started flag is set together with StartedAt, so
\* row.started stands for both.
Progress == [live : BOOLEAN, row : Rows, total : Nat, remaining : Int,
             canceled : Nat, aborted : BOOLEAN]

NoProgress == [live |-> FALSE, row |-> NoRow, total |-> 0, remaining |-> 0,
               canceled |-> 0, aborted |-> FALSE]

Requests == [targets : SUBSET Nodes, dry : BOOLEAN,
             bmc : [Nodes -> BMCs \cup {NoBMC}]]

NoRequest == [targets |-> {}, dry |-> FALSE, bmc |-> [n \in Nodes |-> NoBMC]]

CallPCs == {"idle", "created", "check", "send", "returned", "failed", "panicked"}

WorkerPCs == {"idle", "mark", "persistRunning", "begin", "acquire", "execute",
              "inflight", "backoff", "verify", "patch", "persistTask",
              "record", "persistFinal", "exited"}

Outcomes == {"none", "succeeded", "failed", "canceled"}

Busy(w) == pc[w] \notin {"idle", "exited"}

CtxDone(t) == ctxDone[t] \/ ~running

BmcOf(w) == request[task[w][1]].bmc[task[w][2]]

-----------------------------------------------------------------------------
(* The store.  A transaction commits ("ok"), rolls back, or commits while  *)
(* its caller is told of an error: the read back after the commit, or the  *)
(* acknowledgement of the commit itself, is lost ("unacked").  A call made *)
(* with a cancelled context never begins its transaction.                  *)

StoreResults(alive) ==
    IF alive THEN {"ok"} \cup (IF faults < MaxStoreFaults
                               THEN {"rolledback", "unacked"} ELSE {})
             ELSE {"rolledback"}

Commits(r) == r \in {"ok", "unacked"}

CountFault(r) ==
    faults' = IF r # "ok" /\ faults < MaxStoreFaults THEN faults + 1 ELSE faults

\* The lifecycle event a transaction writes to the outbox: a snapshot of the
\* transition.
WriteLifecycleEvent(t, s, r) ==
    lifecycle' = IF Commits(r)
                 THEN [lifecycle EXCEPT ![t] = Append(@, s)] ELSE lifecycle

\* The task-result event, written only for a terminal task.
WriteTaskResultEvent(t, n, s, r) ==
    taskResults' = IF Commits(r) /\ s.state \in TerminalTaskStates
                   THEN [taskResults EXCEPT ![t][n] = Append(@, s)]
                   ELSE taskResults

\* One transaction: overwrite every mutable column with the caller's
\* snapshot and write the lifecycle event that carries it.
UpdateTransition(t, s, r) ==
    /\ row' = IF Commits(r) THEN [row EXCEPT ![t] = s] ELSE row
    /\ WriteLifecycleEvent(t, s, r)
    /\ CountFault(r)
    /\ UNCHANGED <<taskRow, taskResults>>

\* Faulty variant: the event is written outside the transaction.
UpdateTransitionTaskLooseEvent(t, n, s, r) ==
    /\ taskRow' = IF Commits(r) THEN [taskRow EXCEPT ![t][n] = s] ELSE taskRow
    /\ taskResults' = IF s.state \in TerminalTaskStates
                      THEN [taskResults EXCEPT ![t][n] = Append(@, s)]
                      ELSE taskResults
    /\ CountFault(r)
    /\ UNCHANGED <<row, lifecycle>>

\* One transaction: overwrite the task row, and write the task-result event
\* when the new state is terminal.
UpdateTransitionTask(t, n, s, r) ==
    /\ taskRow' = IF Commits(r) THEN [taskRow EXCEPT ![t][n] = s] ELSE taskRow
    /\ WriteTaskResultEvent(t, n, s, r)
    /\ CountFault(r)
    /\ UNCHANGED <<row, lifecycle>>

-----------------------------------------------------------------------------
(* StartTransition.                                                        *)

Unmapped(targets, m) == {n \in targets : m[n] = NoBMC}
Mapped(targets, m)   == targets \ Unmapped(targets, m)

\* The row StartTransition asks CreateTransition to insert.
NewTransition(targets, dry, m) ==
    LET over == dry \/ Mapped(targets, m) = {}
    IN  [state     |-> IF dry THEN "planned"
                       ELSE IF over THEN "failed" ELSE "pending",
         started   |-> FALSE,
         completed |-> over,
         success   |-> 0,
         failure   |-> Cardinality(Unmapped(targets, m))]

NewTaskState(n, targets, dry, m) ==
    CASE n \notin targets -> "absent"
      [] n \in Unmapped(targets, m) -> "failed"
      [] n \in Mapped(targets, m) /\ dry -> "planned"
      [] OTHER -> "pending"

InsertTransition(t, s, r) ==
    row' = IF Commits(r) THEN [row EXCEPT ![t] = s] ELSE row

InsertTransitionTasks(t, tasks, r) ==
    taskRow' = IF Commits(r) THEN [taskRow EXCEPT ![t] = tasks] ELSE taskRow

\* One transaction: the transition, its tasks, one lifecycle event, and one
\* task-result event for every task that is terminal from the start.
CreateTransition(t, targets, dry, m, r) ==
    LET s == NewTransition(targets, dry, m)
        tasks == [n \in Nodes |-> [state    |-> NewTaskState(n, targets, dry, m),
                                   attempts |-> 0]]
    IN  /\ InsertTransition(t, s, r)
        /\ InsertTransitionTasks(t, tasks, r)
        /\ WriteLifecycleEvent(t, s, r)
        /\ taskResults' =
              IF Commits(r)
              THEN [taskResults EXCEPT ![t] =
                      [n \in Nodes |-> IF tasks[n].state \in TerminalTaskStates
                                       THEN <<tasks[n]>> ELSE <<>>]]
              ELSE taskResults
        /\ CountFault(r)

\* The call is accepted only while the runner's context is alive; it
\* resolves the mappings and creates the records.  A call that is refused
\* for its operation or an empty target list changes nothing and is not a
\* step.
StartTransition(t, targets, dry, m, r) ==
    /\ call[t] = "idle"
    /\ running
    /\ targets # {}
    /\ r \in StoreResults(TRUE)
    /\ CreateTransition(t, targets, dry, m, r)
    /\ call' = [call EXCEPT ![t] = IF r = "ok" THEN "created" ELSE "failed"]
    /\ request' = [request EXCEPT ![t] = [targets |-> targets, dry |-> dry, bmc |-> m]]
    /\ outcomes' = [outcomes EXCEPT ![t] =
                      [n \in Nodes |-> IF n \in Unmapped(targets, m)
                                       THEN "failed" ELSE "none"]]
    /\ UNCHANGED <<engineVars, toEnqueue, abort, abortSnap, workerVars,
                   actions, patched>>

\* A dry run, or a request none of whose nodes is mapped, is over as soon as
\* it is created: its row is written a second time and the call returns.
ReturnTerminal(t, r) ==
    /\ call[t] = "created"
    /\ row[t].completed
    /\ r \in StoreResults(TRUE)
    /\ UpdateTransition(t, row[t], r)
    /\ call' = [call EXCEPT ![t] = IF r = "ok" THEN "returned" ELSE "failed"]
    /\ UNCHANGED <<engineVars, request, toEnqueue, abort, abortSnap, workerVars,
                   worldVars>>

\* Faulty variant: the entry counts one task too few.
RegisterProgressShort(t) ==
    /\ call[t] = "created"
    /\ ~row[t].completed
    /\ LET pending == Mapped(request[t].targets, request[t].bmc)
       IN  /\ progress' = [progress EXCEPT ![t] =
                             [live |-> TRUE, row |-> row[t],
                              total |-> Cardinality(pending),
                              remaining |-> Cardinality(pending) - 1,
                              canceled |-> 0, aborted |-> FALSE]]
           /\ toEnqueue' = [toEnqueue EXCEPT ![t] = pending]
    /\ call' = [call EXCEPT ![t] = "check"]
    /\ UNCHANGED <<storeVars, ctxDone, queue, closed, limiter, running,
                   request, abort, abortSnap, workerVars, worldVars>>

\* Any other transition gets an execution context and a progress entry.
RegisterProgress(t) ==
    /\ call[t] = "created"
    /\ ~row[t].completed
    /\ LET pending == Mapped(request[t].targets, request[t].bmc)
       IN  /\ progress' = [progress EXCEPT ![t] =
                             [live |-> TRUE, row |-> row[t],
                              total |-> Cardinality(pending),
                              remaining |-> Cardinality(pending),
                              canceled |-> 0, aborted |-> FALSE]]
           /\ toEnqueue' = [toEnqueue EXCEPT ![t] = pending]
    /\ call' = [call EXCEPT ![t] = "check"]
    /\ UNCHANGED <<storeVars, ctxDone, queue, closed, limiter, running,
                   request, abort, abortSnap, workerVars, worldVars>>

\* enqueue reads the closed flag under the queue's lock ...
EnqueueCheck(t) ==
    /\ call[t] = "check"
    /\ call' = [call EXCEPT ![t] = IF closed THEN "failed" ELSE "send"]
    /\ ctxDone' = [ctxDone EXCEPT ![t] = @ \/ closed]
    /\ UNCHANGED <<storeVars, progress, queue, closed, limiter, running, request,
                   toEnqueue, abort, abortSnap, workerVars, worldVars>>

\* Faulty variant: the channel has no capacity limit.
EnqueueSendUnbounded(t) ==
    /\ call[t] = "send"
    /\ ~closed
    /\ \E n \in toEnqueue[t] :
          /\ \A k \in toEnqueue[t] : n <= k
          /\ queue' = Append(queue, <<t, n>>)
          /\ toEnqueue' = [toEnqueue EXCEPT ![t] = @ \ {n}]
          /\ call' = [call EXCEPT ![t] = IF toEnqueue[t] = {n}
                                         THEN "returned" ELSE "check"]
    /\ UNCHANGED <<storeVars, progress, ctxDone, closed, limiter, running,
                   request, abort, abortSnap, workerVars, worldVars>>

\* ... and sends without it, blocking while the channel is full.
EnqueueSend(t) ==
    /\ call[t] = "send"
    /\ ~closed
    /\ Len(queue) < QueueSize
    /\ \E n \in toEnqueue[t] :
          /\ \A k \in toEnqueue[t] : n <= k
          /\ queue' = Append(queue, <<t, n>>)
          /\ toEnqueue' = [toEnqueue EXCEPT ![t] = @ \ {n}]
          /\ call' = [call EXCEPT ![t] = IF toEnqueue[t] = {n}
                                         THEN "returned" ELSE "check"]
    /\ UNCHANGED <<storeVars, progress, ctxDone, closed, limiter, running,
                   request, abort, abortSnap, workerVars, worldVars>>

\* The request context ends first: the execution context is cancelled and
\* the call fails; the progress entry stays, counting tasks never queued.
EnqueueCanceled(t) ==
    /\ MayDisconnect
    /\ call[t] = "send"
    /\ call' = [call EXCEPT ![t] = "failed"]
    /\ ctxDone' = [ctxDone EXCEPT ![t] = TRUE]
    /\ UNCHANGED <<storeVars, progress, queue, closed, limiter, running, request,
                   toEnqueue, abort, abortSnap, workerVars, worldVars>>

\* The channel was closed between the check and the send: the goroutine of
\* the request panics (net/http recovers it).
EnqueuePanic(t) ==
    /\ call[t] = "send"
    /\ closed
    /\ call' = [call EXCEPT ![t] = "panicked"]
    /\ UNCHANGED <<storeVars, engineVars, request, toEnqueue, abort, abortSnap,
                   workerVars, worldVars>>

-----------------------------------------------------------------------------
(* AbortTransition.  Calls that find no entry, or one already aborted,     *)
(* change nothing and are not steps.                                       *)

\* Faulty variant: the execution context is not cancelled.
AbortTransitionNoCancel(t) ==
    /\ t \in Abortable
    /\ progress[t].live
    /\ ~progress[t].aborted
    /\ LET canceled == [progress[t].row EXCEPT !.state = "canceled"]
       IN  /\ progress' = [progress EXCEPT ![t] =
                             [progress[t] EXCEPT !.aborted = TRUE, !.row = canceled]]
           /\ abortSnap' = [abortSnap EXCEPT ![t] = canceled]
    /\ abort' = [abort EXCEPT ![t] = "persist"]
    /\ UNCHANGED <<storeVars, ctxDone, queue, closed, limiter, running, call,
                   request, toEnqueue, workerVars, worldVars>>

AbortTransition(t) ==
    /\ t \in Abortable
    /\ progress[t].live
    /\ ~progress[t].aborted
    /\ LET canceled == [progress[t].row EXCEPT !.state = "canceled"]
       IN  /\ progress' = [progress EXCEPT ![t] =
                             [progress[t] EXCEPT !.aborted = TRUE, !.row = canceled]]
           /\ abortSnap' = [abortSnap EXCEPT ![t] = canceled]
    /\ ctxDone' = [ctxDone EXCEPT ![t] = TRUE]
    /\ abort' = [abort EXCEPT ![t] = "persist"]
    /\ UNCHANGED <<storeVars, queue, closed, limiter, running, call, request,
                   toEnqueue, workerVars, worldVars>>

\* The write of the snapshot, with the aborting request's own context.
PersistAbort(t, r) ==
    /\ abort[t] = "persist"
    /\ r \in StoreResults(TRUE)
    /\ UpdateTransition(t, abortSnap[t], r)
    /\ abort' = [abort EXCEPT ![t] = "done"]
    /\ abortSnap' = [abortSnap EXCEPT ![t] = NoRow]
    /\ UNCHANGED <<engineVars, call, request, toEnqueue, workerVars, worldVars>>

-----------------------------------------------------------------------------
(* Shutdown: main cancels the runner's context, and a goroutine of Start   *)
(* then closes the queue.                                                  *)

Shutdown ==
    /\ MayShutdown
    /\ running
    /\ running' = FALSE
    /\ UNCHANGED <<storeVars, progress, ctxDone, queue, closed, limiter,
                   callVars, workerVars, worldVars>>

CloseQueue ==
    /\ ~running
    /\ ~closed
    /\ closed' = TRUE
    /\ UNCHANGED <<storeVars, progress, ctxDone, queue, limiter, running,
                   callVars, workerVars, worldVars>>

-----------------------------------------------------------------------------
(* Workers.                                                                *)

\* The worker drops its task and, if it holds one, gives its BMC slot back.
Retire(w) ==
    /\ pc' = [pc EXCEPT ![w] = "idle"]
    /\ task' = [task EXCEPT ![w] = NoTask]
    /\ attempt' = [attempt EXCEPT ![w] = 0]
    /\ outcome' = [outcome EXCEPT ![w] = "none"]
    /\ snap' = [snap EXCEPT ![w] = NoRow]
    /\ holding' = holding \ {w}
    /\ limiter' = IF w \in holding
                  THEN [limiter EXCEPT ![BmcOf(w)] = @ - 1] ELSE limiter

\* The task has its result: completeTask begins.
Complete(w, o) ==
    /\ pc' = [pc EXCEPT ![w] = "persistTask"]
    /\ outcome' = [outcome EXCEPT ![w] = o]

\* Faulty variant: the item stays in the queue.
DequeuePeek(w) ==
    /\ pc[w] = "idle"
    /\ queue # <<>>
    /\ pc' = [pc EXCEPT ![w] = "mark"]
    /\ task' = [task EXCEPT ![w] = Head(queue)]
    /\ UNCHANGED <<storeVars, engineVars, callVars, attempt, outcome, snap,
                   holding, worldVars>>

Dequeue(w) ==
    /\ pc[w] = "idle"
    /\ queue # <<>>
    /\ pc' = [pc EXCEPT ![w] = "mark"]
    /\ task' = [task EXCEPT ![w] = Head(queue)]
    /\ queue' = Tail(queue)
    /\ UNCHANGED <<storeVars, progress, ctxDone, closed, limiter, running,
                   callVars, attempt, outcome, snap, holding, worldVars>>

\* Faulty variant: the error of dequeue is not recognised and the loop goes
\* round again.
WorkerExitSpins(w) ==
    /\ pc[w] = "idle"
    /\ ~running
    /\ UNCHANGED vars

\* The context's end, or a closed and drained queue, ends the goroutine.
WorkerExit(w) ==
    /\ pc[w] = "idle"
    /\ ~running
    /\ pc' = [pc EXCEPT ![w] = "exited"]
    /\ UNCHANGED <<storeVars, engineVars, callVars, task, attempt, outcome, snap,
                   holding, worldVars>>

\* Under progressMu: the first task of a transition that is not aborted
\* marks it running and takes the snapshot to persist.
MarkTransitionRunning(w) ==
    LET t == task[w][1]
        p == progress[t]
        first == p.live /\ ~p.aborted /\ ~p.row.started
        started == [p.row EXCEPT !.state = "running", !.started = TRUE]
    IN  /\ pc[w] = "mark"
        /\ \/ /\ ~p.live
              /\ Retire(w)
              /\ UNCHANGED progress
           \/ /\ p.live /\ ~first
              /\ pc' = [pc EXCEPT ![w] = "begin"]
              /\ UNCHANGED <<progress, task, attempt, outcome, snap, holding, limiter>>
           \/ /\ first
              /\ progress' = [progress EXCEPT ![t] = [p EXCEPT !.row = started]]
              /\ snap' = [snap EXCEPT ![w] = started]
              /\ pc' = [pc EXCEPT ![w] = "persistRunning"]
              /\ UNCHANGED <<task, attempt, outcome, holding, limiter>>
        /\ UNCHANGED <<storeVars, ctxDone, queue, closed, running, callVars,
                       worldVars>>

\* Its write.  When it fails the worker abandons the task: nothing records
\* an outcome for it.
PersistRunning(w, r) ==
    /\ pc[w] = "persistRunning"
    /\ r \in StoreResults(running)
    /\ UpdateTransition(task[w][1], snap[w], r)
    /\ \/ /\ r = "ok"
          /\ pc' = [pc EXCEPT ![w] = "begin"]
          /\ snap' = [snap EXCEPT ![w] = NoRow]
          /\ UNCHANGED <<task, attempt, outcome, holding, limiter>>
       \/ /\ r # "ok"
          /\ Retire(w)
    /\ UNCHANGED <<progress, ctxDone, queue, closed, running, callVars, worldVars>>

\* A cancelled execution context ends the task before it starts ...
CancelBeforeStart(w) ==
    /\ pc[w] = "begin"
    /\ CtxDone(task[w][1])
    /\ Complete(w, "canceled")
    /\ UNCHANGED <<storeVars, engineVars, callVars, task, attempt, snap, holding,
                   worldVars>>

\* ... otherwise its row becomes running; a failure to write it is ignored.
BeginTask(w, r) ==
    /\ pc[w] = "begin"
    /\ ~CtxDone(task[w][1])
    /\ r \in StoreResults(running)
    /\ UpdateTransitionTask(task[w][1], task[w][2],
                            [state |-> "running", attempts |-> 0], r)
    /\ pc' = [pc EXCEPT ![w] = "acquire"]
    /\ UNCHANGED <<engineVars, callVars, task, attempt, outcome, snap, holding,
                   worldVars>>

\* Faulty variant: a cancelled wait takes a slot that nobody gives back.
AcquireBMCLimiterLeak(w) ==
    /\ pc[w] = "acquire"
    /\ limiter[BmcOf(w)] < PerBMC
    /\ limiter' = [limiter EXCEPT ![BmcOf(w)] = @ + 1]
    /\ \/ /\ holding' = holding \cup {w}
          /\ pc' = [pc EXCEPT ![w] = "execute"]
          /\ UNCHANGED outcome
       \/ /\ CtxDone(task[w][1])
          /\ Complete(w, "canceled")
          /\ UNCHANGED holding
    /\ UNCHANGED <<storeVars, progress, ctxDone, queue, closed, running, callVars,
                   task, attempt, snap, worldVars>>

AcquireBMCLimiter(w) ==
    /\ pc[w] = "acquire"
    /\ \/ /\ limiter[BmcOf(w)] < PerBMC
          /\ limiter' = [limiter EXCEPT ![BmcOf(w)] = @ + 1]
          /\ holding' = holding \cup {w}
          /\ pc' = [pc EXCEPT ![w] = "execute"]
          /\ UNCHANGED outcome
       \/ /\ CtxDone(task[w][1])
          /\ Complete(w, "canceled")
          /\ UNCHANGED <<limiter, holding>>
    /\ UNCHANGED <<storeVars, progress, ctxDone, queue, closed, running, callVars,
                   task, attempt, snap, worldVars>>

\* Faulty variant: one attempt too many.
AttemptFailedOneMore(w, k, class) ==
    \/ /\ class = "retryable" /\ k <= RetryAttempts
       /\ pc' = [pc EXCEPT ![w] = "backoff"]
       /\ UNCHANGED outcome
    \/ /\ class = "retryable" => k > RetryAttempts
       /\ Complete(w, IF class = "context" THEN "canceled" ELSE "failed")

\* What executeWithRetry does with the error of attempt number k: "context"
\* is a cancellation or the transition deadline, which may fire at any time.
AttemptFailed(w, k, class) ==
    \/ /\ class = "retryable" /\ k < RetryAttempts
       /\ pc' = [pc EXCEPT ![w] = "backoff"]
       /\ UNCHANGED outcome
    \/ /\ class = "retryable" => k = RetryAttempts
       /\ Complete(w, IF class = "context" THEN "canceled" ELSE "failed")

ErrorClasses == {"retryable", "permanent", "context"}

\* ExecutePowerAction fails before the reset is sent (endpoint, credential,
\* system path, a context already done) ...
ExecuteRefused(w, class) ==
    /\ pc[w] = "execute"
    /\ attempt' = [attempt EXCEPT ![w] = @ + 1]
    /\ AttemptFailed(w, attempt[w] + 1, class)
    /\ UNCHANGED <<storeVars, engineVars, callVars, task, snap, holding, worldVars>>

\* ... or sends it, which an HTTP client does only with a live context ...
ExecuteSend(w) ==
    LET t == task[w][1]
        n == task[w][2]
    IN  /\ pc[w] = "execute"
        /\ ~CtxDone(t)
        /\ attempt' = [attempt EXCEPT ![w] = @ + 1]
        /\ actions' = [actions EXCEPT ![t][n] = @ + 1]
        /\ pc' = [pc EXCEPT ![w] = "inflight"]
        /\ UNCHANGED <<storeVars, engineVars, callVars, task, outcome, snap, holding,
                       patched, outcomes>>

\* ... and gets an answer, or an error.
ExecuteAnswer(w) ==
    /\ pc[w] = "inflight"
    /\ \/ /\ pc' = [pc EXCEPT ![w] = "verify"]
          /\ UNCHANGED outcome
       \/ \E class \in ErrorClasses : AttemptFailed(w, attempt[w], class)
    /\ UNCHANGED <<storeVars, engineVars, callVars, task, attempt, snap, holding,
                   worldVars>>

\* The backoff timer fires, or the execution context (its deadline included)
\* ends the sleep.
Backoff(w) ==
    /\ pc[w] = "backoff"
    /\ \/ /\ pc' = [pc EXCEPT ![w] = "execute"]
          /\ UNCHANGED outcome
       \/ Complete(w, "canceled")
    /\ UNCHANGED <<storeVars, engineVars, callVars, task, attempt, snap, holding,
                   worldVars>>

\* Verify polls until the expected state is read, a read fails, or its
\* window closes: a read that fails once the window or the context is over
\* reports the context's error, the end of the window between two reads
\* reports a verification timeout.
Verify(w) ==
    /\ pc[w] = "verify"
    /\ \/ /\ pc' = [pc EXCEPT ![w] = "patch"]
          /\ UNCHANGED outcome
       \/ \E o \in {"failed", "canceled"} : Complete(w, o)
    /\ UNCHANGED <<storeVars, engineVars, callVars, task, attempt, snap, holding,
                   worldVars>>

\* Faulty variant: a failed patch is only logged.
UpdateNodePowerStateLax(w) ==
    /\ pc[w] = "patch"
    /\ \/ running /\ patched' = patched \cup {task[w]}
       \/ UNCHANGED patched
    /\ Complete(w, "succeeded")
    /\ UNCHANGED <<storeVars, engineVars, callVars, task, attempt, snap, holding,
                   actions, outcomes>>

\* completeTask patches the SMD component of a verified task; a failed patch
\* fails the task.  A cancelled runner context fails the patch.
UpdateNodePowerState(w) ==
    /\ pc[w] = "patch"
    /\ \/ /\ running
          /\ patched' = patched \cup {task[w]}
          /\ Complete(w, "succeeded")
       \/ /\ Complete(w, "failed")
          /\ UNCHANGED patched
    /\ UNCHANGED <<storeVars, engineVars, callVars, task, attempt, snap, holding,
                   actions, outcomes>>

\* completeTask writes the terminal task row and ignores a failure to.
PersistTask(w, r) ==
    /\ pc[w] = "persistTask"
    /\ r \in StoreResults(running)
    /\ UpdateTransitionTask(task[w][1], task[w][2],
                            [state |-> outcome[w], attempts |-> attempt[w]], r)
    /\ pc' = [pc EXCEPT ![w] = "record"]
    /\ UNCHANGED <<engineVars, callVars, task, attempt, outcome, snap, holding,
                   worldVars>>

\* Faulty variant: nodes without a mapping are forgotten.
FinalTransitionStateLax(p) ==
    IF p.total > 0 /\ p.canceled = p.total /\ p.row.success = 0 THEN "canceled"
    ELSE IF p.row.failure = 0 THEN "completed"
    ELSE IF p.row.success = 0 THEN "failed" ELSE "partial"

\* finalTransitionState.
FinalTransitionState(p) ==
    CASE /\ p.total > 0
         /\ p.canceled = p.total
         /\ p.row.success = 0
         /\ p.row.failure = p.canceled -> "canceled"
      [] OTHER -> IF p.row.failure = 0 THEN "completed"
                  ELSE IF p.row.success = 0 THEN "failed" ELSE "partial"

\* Adds one to a counter if the condition holds.
Tick(k, condition) == IF condition THEN k + 1 ELSE k

\* Faulty variants: a cancellation is not a failure; a cancellation leaves
\* the number of remaining tasks alone.
CountedCancelApart(p, o) ==
    [p EXCEPT !.row.success = Tick(@, o = "succeeded"),
              !.row.failure = Tick(@, o = "failed"),
              !.canceled    = Tick(@, o = "canceled"),
              !.remaining   = @ - 1]

CountedCancelRemains(p, o) ==
    [p EXCEPT !.row.success = Tick(@, o = "succeeded"),
              !.row.failure = Tick(@, o # "succeeded"),
              !.canceled    = Tick(@, o = "canceled"),
              !.remaining   = IF o = "canceled" THEN @ ELSE @ - 1]

\* The counters after one more outcome.
CountedRow(s, o) ==
    [state |-> s.state, started |-> s.started, completed |-> s.completed,
     success |-> Tick(s.success, o = "succeeded"),
     failure |-> Tick(s.failure, o # "succeeded")]

Counted(p, o) ==
    [live |-> p.live, row |-> CountedRow(p.row, o), total |-> p.total,
     remaining |-> p.remaining - 1, canceled |-> Tick(p.canceled, o = "canceled"),
     aborted |-> p.aborted]

\* Under progressMu: count the outcome; the last one decides the final
\* state, cancels the execution context and deletes the entry.
RecordTaskOutcome(w) ==
    LET t == task[w][1]
        n == task[w][2]
        p == Counted(progress[t], outcome[w])
        final == [p.row EXCEPT !.state = FinalTransitionState(p), !.completed = TRUE]
    IN  /\ pc[w] = "record"
        /\ \/ /\ ~progress[t].live
              /\ Retire(w)
              /\ UNCHANGED <<progress, ctxDone, outcomes>>
           \/ /\ progress[t].live
              /\ p.remaining > 0
              /\ progress' = [progress EXCEPT ![t] = p]
              /\ outcomes' = [outcomes EXCEPT ![t][n] = outcome[w]]
              /\ Retire(w)
              /\ UNCHANGED ctxDone
           \/ /\ progress[t].live
              /\ p.remaining <= 0
              /\ progress' = [progress EXCEPT ![t] = NoProgress]
              /\ outcomes' = [outcomes EXCEPT ![t][n] = outcome[w]]
              /\ ctxDone' = [ctxDone EXCEPT ![t] = TRUE]
              /\ snap' = [snap EXCEPT ![w] = final]
              /\ pc' = [pc EXCEPT ![w] = "persistFinal"]
              /\ UNCHANGED <<task, attempt, outcome, holding, limiter>>
        /\ UNCHANGED <<storeVars, queue, closed, running, callVars, actions, patched>>

\* The write of the final row; a failure to is ignored.
PersistFinal(w, r) ==
    /\ pc[w] = "persistFinal"
    /\ r \in StoreResults(running)
    /\ UpdateTransition(task[w][1], snap[w], r)
    /\ Retire(w)
    /\ UNCHANGED <<progress, ctxDone, queue, closed, running, callVars, worldVars>>

-----------------------------------------------------------------------------
(* The specification.                                                      *)

Init ==
    /\ row = [t \in Transitions |-> NoRow]
    /\ taskRow = [t \in Transitions |-> [n \in Nodes |->
                    [state |-> "absent", attempts |-> 0]]]
    /\ lifecycle = [t \in Transitions |-> <<>>]
    /\ taskResults = [t \in Transitions |-> [n \in Nodes |-> <<>>]]
    /\ faults = 0
    /\ progress = [t \in Transitions |-> NoProgress]
    /\ ctxDone = [t \in Transitions |-> FALSE]
    /\ queue = <<>>
    /\ closed = FALSE
    /\ limiter = [b \in BMCs |-> 0]
    /\ running = TRUE
    /\ call = [t \in Transitions |-> "idle"]
    /\ request = [t \in Transitions |-> NoRequest]
    /\ toEnqueue = [t \in Transitions |-> {}]
    /\ abort = [t \in Transitions |-> "idle"]
    /\ abortSnap = [t \in Transitions |-> NoRow]
    /\ pc = [w \in Workers |-> "idle"]
    /\ task = [w \in Workers |-> NoTask]
    /\ attempt = [w \in Workers |-> 0]
    /\ outcome = [w \in Workers |-> "none"]
    /\ snap = [w \in Workers |-> NoRow]
    /\ holding = {}
    /\ actions = [t \in Transitions |-> [n \in Nodes |-> 0]]
    /\ patched = {}
    /\ outcomes = [t \in Transitions |-> [n \in Nodes |-> "none"]]

Results == {"ok", "rolledback", "unacked"}

\* One step of a StartTransition call that has begun.
CallStep(t) ==
    \/ \E r \in Results : ReturnTerminal(t, r)
    \/ RegisterProgress(t)
    \/ EnqueueCheck(t)
    \/ EnqueueSend(t)
    \/ EnqueuePanic(t)

WorkerStep(w) ==
    \/ Dequeue(w)
    \/ WorkerExit(w)
    \/ MarkTransitionRunning(w)
    \/ \E r \in Results : PersistRunning(w, r)
    \/ CancelBeforeStart(w)
    \/ \E r \in Results : BeginTask(w, r)
    \/ AcquireBMCLimiter(w)
    \/ \E class \in ErrorClasses : ExecuteRefused(w, class)
    \/ ExecuteSend(w)
    \/ ExecuteAnswer(w)
    \/ Backoff(w)
    \/ Verify(w)
    \/ UpdateNodePowerState(w)
    \/ \E r \in Results : PersistTask(w, r)
    \/ RecordTaskOutcome(w)
    \/ \E r \in Results : PersistFinal(w, r)

\* Nothing is under way: no call has begun without ending, no worker has a
\* task, and the queue is empty or nobody is left to serve it.
Quiet ==
    /\ \A t \in Transitions : /\ call[t] \notin {"created", "check", "send"}
                              /\ abort[t] # "persist"
    /\ \A w \in Workers : ~Busy(w)
    /\ queue = <<>> \/ ~running

\* The service waits for requests.  (The step exists so that a state in
\* which work is left and nobody can do it is a deadlock to TLC.)
Wait == Quiet /\ UNCHANGED vars

Next ==
    \/ \E t \in Transitions, targets \in TargetSets, dry \in DryRuns,
          m \in Mappings, r \in Results : StartTransition(t, targets, dry, m, r)
    \/ \E t \in Transitions : CallStep(t)
    \/ \E t \in Transitions : EnqueueCanceled(t)
    \/ \E t \in Transitions : AbortTransition(t)
    \/ \E t \in Transitions, r \in Results : PersistAbort(t, r)
    \/ Shutdown
    \/ CloseQueue
    \/ \E w \in Workers : WorkerStep(w)
    \/ Wait

Spec == Init /\ [][Next]_vars

\* Goroutines that can run do: the Go scheduler and the HTTP server run the
\* calls and the workers, network calls and verification end by their
\* deadlines.  Requests, aborts, disconnects and shutdowns may never come.
Fairness ==
    /\ \A t \in Transitions : WF_vars(CallStep(t))
    /\ \A t \in Transitions : WF_vars(\E r \in Results : PersistAbort(t, r))
    /\ \A w \in Workers : WF_vars(WorkerStep(w))
    /\ WF_vars(CloseQueue)

FairSpec == Spec /\ Fairness

-----------------------------------------------------------------------------
(* Properties.                                                             *)

StoreTypeOK ==
    /\ row \in [Transitions -> Rows]
    /\ taskRow \in [Transitions -> [Nodes -> TaskRows]]
    /\ lifecycle \in [Transitions -> Seq(Rows)]
    /\ taskResults \in [Transitions -> [Nodes -> Seq(TaskRows)]]
    /\ faults \in 0 .. MaxStoreFaults

EngineTypeOK ==
    /\ progress \in [Transitions -> Progress]
    /\ queue \in Seq(Transitions \X Nodes)
    /\ Len(queue) <= QueueSize
    /\ limiter \in [BMCs -> Int]

FlagsTypeOK ==
    /\ ctxDone \in [Transitions -> BOOLEAN]
    /\ closed \in BOOLEAN
    /\ running \in BOOLEAN

CallTypeOK ==
    /\ call \in [Transitions -> CallPCs]
    /\ request \in [Transitions -> Requests]
    /\ toEnqueue \in [Transitions -> SUBSET Nodes]
    /\ abort \in [Transitions -> {"idle", "persist", "done"}]
    /\ abortSnap \in [Transitions -> Rows]

WorkerTypeOK ==
    /\ pc \in [Workers -> WorkerPCs]
    /\ task \in [Workers -> (Transitions \X Nodes) \cup {NoTask}]
    /\ attempt \in [Workers -> Nat]
    /\ outcome \in [Workers -> Outcomes]
    /\ snap \in [Workers -> Rows]
    /\ holding \in SUBSET Workers

WorldTypeOK ==
    /\ actions \in [Transitions -> [Nodes -> Nat]]
    /\ patched \in SUBSET (Transitions \X Nodes)
    /\ outcomes \in [Transitions -> [Nodes -> Outcomes]]

\* Every variable holds values of its kind, and the task queue never holds
\* more than its channel's capacity.
TypeOK ==
    /\ StoreTypeOK
    /\ EngineTypeOK
    /\ FlagsTypeOK
    /\ CallTypeOK
    /\ WorkerTypeOK
    /\ WorldTypeOK

\* Workers between taking their slot in acquireBMCLimiter and the end of
\* their BMC traffic.
TalkingTo(b) ==
    {w \in Workers : /\ pc[w] \in {"execute", "inflight", "backoff", "verify", "patch"}
                     /\ BmcOf(w) = b}

Holders(b) == {w \in holding : BmcOf(w) = b}

\* Per-BMC serialisation: no BMC ever has more than perBMCConcurrency tasks
\* between their first action and their SMD patch, whatever transitions the
\* tasks belong to and however they end; and the limiter's channel holds one
\* token per such task: no path through executeTask leaks or doubles a slot.
BMCLimit ==
    \A b \in BMCs : /\ Cardinality(TalkingTo(b)) <= PerBMC
                     /\ TalkingTo(b) \subseteq Holders(b)
                     /\ limiter[b] = Cardinality(Holders(b))

Queued(t, n) == \E i \in DOMAIN queue : queue[i] = <<t, n>>
Held(t, n)   == \E w \in Workers : task[w] = <<t, n>>

\* A pending task is in one place at most: waiting in its StartTransition
\* call, once in the queue, or with one worker.  No two workers ever run the
\* same node of the same transition.
TaskInOnePlace ==
    /\ \A i, j \in DOMAIN queue : queue[i] = queue[j] => i = j
    /\ \A v, w \in Workers : task[v] = task[w] /\ task[v] # NoTask => v = w
    /\ \A t \in Transitions, n \in Nodes :
          /\ ~(Queued(t, n) /\ Held(t, n))
          /\ n \in toEnqueue[t] => ~Queued(t, n) /\ ~Held(t, n)

\* A task that is still to be counted belongs to a transition that still has
\* its progress entry: neither markTransitionRunning nor recordTaskOutcome
\* ever finds the entry gone and loses the task, and no outcome is counted
\* twice.
OutstandingTaskIsLive ==
    \A t \in Transitions, n \in Nodes :
        (\/ n \in toEnqueue[t]
         \/ Queued(t, n)
         \/ \E w \in Workers : task[w] = <<t, n>> /\ pc[w] # "persistFinal")
        => progress[t].live /\ outcomes[t][n] = "none"

WithOutcome(t, S) == {n \in request[t].targets : outcomes[t][n] \in S}

\* The counters of a transition in flight are exactly the outcomes reported
\* so far: success, failure (cancellations and unmapped nodes included),
\* cancellations, and how many tasks are still to be reported.  Lost tasks
\* (a failed "running" write, a failed enqueue) stay counted as remaining.
ProgressCountsOutcomes ==
    \A t \in Transitions : progress[t].live =>
        /\ progress[t].row.success = Cardinality(WithOutcome(t, {"succeeded"}))
        /\ progress[t].row.failure = Cardinality(WithOutcome(t, {"failed", "canceled"}))
        /\ progress[t].canceled = Cardinality(WithOutcome(t, {"canceled"}))
        /\ progress[t].remaining = Cardinality(WithOutcome(t, {"none"}))
        /\ progress[t].remaining > 0

\* What the outcomes of a transition's nodes amount to.
Verdict(t) ==
    LET seen == {outcomes[t][n] : n \in request[t].targets}
    IN  CASE seen = {"canceled"} -> "canceled"
          [] seen = {"succeeded"} -> "completed"
          [] seen # {"canceled"} /\ "succeeded" \notin seen -> "failed"
          [] OTHER -> "partial"

\* No write to the transition's row is under way or to come.
Settled(t) ==
    /\ call[t] = "returned"
    /\ ~progress[t].live
    /\ abort[t] # "persist"
    /\ \A w \in Workers : Busy(w) => task[w][1] # t

\* Once a transition that was really run has settled, with the database and
\* the process healthy, GET shows the truth: every task row carries the
\* outcome of its node, and the transition row its verdict, its counts and a
\* completion time.  Of a transition that was aborted only the state is
\* certain, and it may be the abort's "canceled" instead of the verdict.
SettledRowIsVerdict ==
    \A t \in Transitions :
        Settled(t) /\ ~request[t].dry /\ faults = 0 /\ running =>
            /\ \A n \in request[t].targets : taskRow[t][n].state = outcomes[t][n]
            /\ row[t].state \in {Verdict(t)} \cup
                  (IF abort[t] = "idle" THEN {} ELSE {"canceled"})
            /\ abort[t] = "idle" =>
                  /\ row[t].completed
                  /\ row[t].success = Cardinality(WithOutcome(t, {"succeeded"}))
                  /\ row[t].failure = Cardinality(WithOutcome(t, {"failed", "canceled"}))

\* The outbox tells exactly what the tables hold, even when transactions
\* fail: the last lifecycle event of a transition carries its row, and a
\* task has one task-result event, carrying its row, once that row is
\* terminal, and none before.
OutboxFollowsRows ==
    \A t \in Transitions :
        /\ IF row[t] = NoRow THEN lifecycle[t] = <<>>
           ELSE lifecycle[t] # <<>> /\ lifecycle[t][Len(lifecycle[t])] = row[t]
        /\ \A n \in Nodes :
              taskResults[t][n] = IF taskRow[t][n].state \in TerminalTaskStates
                                  THEN <<taskRow[t][n]>> ELSE <<>>

\* Redfish actions are bounded: none for a dry run or an unmapped node, at
\* most retryAttempts for one task over its whole life, and the attempt
\* count the API shows for a finished task covers every action sent.
ActionsBounded ==
    \A t \in Transitions, n \in Nodes :
        /\ actions[t][n] <= RetryAttempts
        /\ actions[t][n] > 0 => /\ n \in Mapped(request[t].targets, request[t].bmc)
                                /\ ~request[t].dry
        /\ taskRow[t][n].state \in TerminalTaskStates
              => actions[t][n] <= taskRow[t][n].attempts

\* A node reported as succeeded was sent at least one action and had its SMD
\* component patched, whatever failed or was cancelled around it.
SuccessMeansPatched ==
    \A t \in Transitions, n \in Nodes :
        "succeeded" \in {taskRow[t][n].state, outcomes[t][n]} =>
            <<t, n>> \in patched /\ actions[t][n] > 0

\* A completed row is rewritten only by the late write of an abort: the
\* "running" write of a slow worker never overwrites the final row, and no
\* second final row is ever written.
OnlyAbortRewritesFinalRow ==
    [][\A t \in Transitions :
          row[t].completed /\ row'[t] # row[t] =>
              abort[t] = "persist" /\ row'[t] = abortSnap[t]]_vars

\* AbortTransition stops the traffic: from the moment it has marked the
\* transition, no further Redfish action is sent for any of its nodes, be
\* the task queued, waiting for its BMC, or backing off.
NoActionAfterAbort ==
    [][\A t \in Transitions :
          actions'[t] # actions[t] => abort[t] = "idle"]_vars

\* Every transition whose StartTransition call returned reaches a final
\* state in the database for good, unless the process is told to stop (and
\* as long as the database and the clients stay): nobody waits for a slot or
\* a queue place for ever, aborted or not.
EveryTransitionSettles ==
    \A t \in Transitions :
        call[t] = "returned" ~> ([](row[t].state \in FinalStates) \/ ~running)

\* Cancelling the runner's context ends every worker, whatever it was doing.
ShutdownEndsWorkers ==
    ~running ~> \A w \in Workers : pc[w] = "exited"

-----------------------------------------------------------------------------
(* A statement of the repository that the engine does not live up to.      *)

\* TestRunner_AbortTransition_CancelsTasks: after an abort that cancels all
\* tasks the stored transition is canceled and counts each as a failure.
AbortedCountsSettle ==
    \A t \in Transitions :
        Settled(t) /\ abort[t] = "done" /\ faults = 0 /\ running
        /\ Verdict(t) = "canceled" =>
            row[t].state = "canceled"
            /\ row[t].failure = Cardinality(request[t].targets)

=============================================================================
