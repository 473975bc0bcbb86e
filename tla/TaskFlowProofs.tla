--------------------------- MODULE TaskFlowProofs ---------------------------
(***************************************************************************)
(* Where a task is, and how it is counted, for any number of transitions,  *)
(* nodes, workers and faults: a pending task is in one place, a task that  *)
(* is in some place belongs to a transition with a progress entry, and the *)
(* entry counts exactly the outcomes reported.                             *)
(*                                                                         *)
(* The three properties need each other.  The last outcome deletes the     *)
(* entry; that no other task is left then follows from the count, the      *)
(* count is right because every outcome is reported once, and that follows *)
(* from a task being in one place only.  FlowInv is their conjunction with *)
(* what a call has done before it registers its entry.                     *)
(***************************************************************************)
EXTENDS TransitionRunnerProofs

\* The call has registered a progress entry, or has ended without one.
Begun(t) == call[t] \notin {"idle", "created"}

\* A worker that has no work has no task, and one that has belongs to a call
\* that has begun.
WorkersBegun ==
    \A w \in Workers : /\ Busy(w) => Begun(task[w][1])
                       /\ ~Busy(w) => task[w] = NoTask

\* Of an outcome that is still to be counted.
ToCount(t, n) ==
    /\ progress[t].live
    /\ outcomes[t][n] = "none"
    /\ n \in Mapped(request[t].targets, request[t].bmc)

\* Every task that waits in its call, is queued or is run is to be counted.
TasksToCount ==
    /\ \A t \in Transitions : \A n \in toEnqueue[t] : ToCount(t, n)
    /\ \A i \in DOMAIN queue : ToCount(queue[i][1], queue[i][2])
    /\ \A w \in Workers : Busy(w) /\ pc[w] # "persistFinal"
                            => ToCount(task[w][1], task[w][2])

\* Before it registers its entry a call has no task anywhere, and its row
\* and its outcomes are those it was created with.
CallsNotBegun ==
    \A t \in Transitions :
        /\ ~Begun(t) =>
              /\ ~progress[t].live
              /\ abort[t] = "idle"
              /\ outcomes[t] = [n \in Nodes |->
                    IF n \in Unmapped(request[t].targets, request[t].bmc)
                    THEN "failed" ELSE "none"]
        /\ call[t] = "created" =>
              row[t] = NewTransition(request[t].targets, request[t].dry, request[t].bmc)

\* A node without a mapping has failed from the start, and the entry knows
\* how many tasks the transition has.
EntriesOfMapped ==
    \A t \in Transitions :
        /\ \A n \in Unmapped(request[t].targets, request[t].bmc) :
              outcomes[t][n] = "failed"
        /\ progress[t].live =>
              /\ ~request[t].dry
              /\ progress[t].total = Cardinality(Mapped(request[t].targets, request[t].bmc))

FlowInv ==
    /\ WorkersBegun
    /\ TaskInOnePlace
    /\ TasksToCount
    /\ CallsNotBegun
    /\ EntriesOfMapped
    /\ ProgressCountsOutcomes

-----------------------------------------------------------------------------
(* The kinds of steps.  Most steps move no task from one place to another  *)
(* and count nothing.                                                      *)

\* Between the write that marks the transition running and the count of the
\* outcome.
Working == {"begin", "acquire", "execute", "inflight", "backoff", "verify",
            "patch", "persistTask", "record"}

\* No task moves, no row or snapshot of a transition is written, no outcome
\* is counted: workers go on with the tasks they have, calls find the queue
\* closed, the process is told to stop.
Unmoved ==
    /\ UNCHANGED <<row, progress, queue, request, toEnqueue, abort, abortSnap,
                   task, snap, outcomes>>
    /\ \A t \in Transitions :
          \/ call'[t] = call[t]
          \/ call[t] \in {"check", "send"} /\ call'[t] \in {"send", "failed", "panicked"}
    /\ \A w \in Workers :
          \/ pc'[w] = pc[w]
          \/ pc[w] \in Working /\ pc'[w] \in Working
          \/ pc[w] = "idle" /\ pc'[w] = "exited"

\* The steps of a call or of the process that move no task.
LEMMA CallUnmoved ==
    ASSUME TypeInv, NEW t \in Transitions,
           EnqueueCheck(t) \/ EnqueueCanceled(t) \/ EnqueuePanic(t)
    PROVE  Unmoved
BY DEF TypeInv, TypeOK, CallTypeOK, Unmoved, EnqueueCheck, EnqueueCanceled, EnqueuePanic,
       storeVars, engineVars, workerVars, worldVars

LEMMA ProcessUnmoved ==
    ASSUME TypeInv, Shutdown \/ CloseQueue \/ Wait \/ UNCHANGED vars
    PROVE  Unmoved
BY DEF Unmoved, Shutdown, CloseQueue, Wait, vars, storeVars, engineVars, callVars,
       workerVars, worldVars

\* The steps in which a worker goes on with its task.
LEMMA WorkerUnmoved ==
    ASSUME TypeInv, NEW w \in Workers,
           \/ WorkerExit(w) \/ CancelBeforeStart(w) \/ AcquireBMCLimiter(w)
           \/ ExecuteSend(w) \/ ExecuteAnswer(w) \/ Backoff(w) \/ Verify(w)
           \/ UpdateNodePowerState(w)
           \/ \E class \in ErrorClasses : ExecuteRefused(w, class)
           \/ \E r \in Results : BeginTask(w, r) \/ PersistTask(w, r)
    PROVE  Unmoved
<1> USE DEF TypeInv, TypeOK, WorkerTypeOK
<1>1. UNCHANGED <<row, progress, queue, request, toEnqueue, abort, abortSnap,
                  task, snap, outcomes, call>>
  BY DEF WorkerExit, CancelBeforeStart, AcquireBMCLimiter, ExecuteSend, ExecuteAnswer,
         Backoff, Verify, UpdateNodePowerState, ExecuteRefused, BeginTask, PersistTask,
         UpdateTransitionTask, storeVars, engineVars, callVars, workerVars, worldVars
<1>2. \/ pc[w] = "idle" /\ pc' = [pc EXCEPT ![w] = "exited"]
      \/ pc[w] \in Working /\ \E x \in Working : pc' = [pc EXCEPT ![w] = x]
  BY DEF WorkerExit, CancelBeforeStart, AcquireBMCLimiter, ExecuteSend, ExecuteAnswer,
         Backoff, Verify, UpdateNodePowerState, ExecuteRefused, BeginTask, PersistTask,
         AttemptFailed, Complete, Working
<1> QED
  BY <1>1, <1>2 DEF Unmoved

\* Every step is of one of twelve kinds.
LEMMA StepKinds ==
    ASSUME TypeInv, [Next]_vars
    PROVE  \/ \E t \in Transitions, targets \in TargetSets, dry \in DryRuns,
                 m \in Mappings, r \in Results : StartTransition(t, targets, dry, m, r)
           \/ \E t \in Transitions :
                 \/ RegisterProgress(t) \/ EnqueueSend(t) \/ AbortTransition(t)
                 \/ \E r \in Results : ReturnTerminal(t, r) \/ PersistAbort(t, r)
           \/ \E w \in Workers :
                 \/ Dequeue(w) \/ MarkTransitionRunning(w) \/ RecordTaskOutcome(w)
                 \/ \E r \in Results : PersistRunning(w, r) \/ PersistFinal(w, r)
           \/ Unmoved
<1>1. CASE \E t \in Transitions : CallStep(t)
  BY <1>1, CallUnmoved DEF CallStep
<1>2. CASE \E w \in Workers : WorkerStep(w)
  <2> PICK w \in Workers : WorkerStep(w)
    BY <1>2
  <2> QED
    BY WorkerUnmoved DEF WorkerStep
<1>3. CASE \E t \in Transitions : EnqueueCanceled(t)
  BY <1>3, CallUnmoved
<1>4. CASE Shutdown \/ CloseQueue \/ Wait \/ UNCHANGED vars
  BY <1>4, ProcessUnmoved
<1> QED
  BY <1>1, <1>2, <1>3, <1>4 DEF Next

-----------------------------------------------------------------------------
(* Counting.                                                               *)

LEMMA WithOutcomeFinite ==
    ASSUME TypeInv, NEW t \in Transitions, NEW S
    PROVE  /\ WithOutcome(t, S) \subseteq request[t].targets
           /\ IsFiniteSet(WithOutcome(t, S))
           /\ Cardinality(WithOutcome(t, S)) \in Nat
<1>1. request[t].targets \subseteq Nodes
  BY DEF TypeInv, TypeOK, CallTypeOK, Requests
<1>2. WithOutcome(t, S) \subseteq Nodes
  BY <1>1 DEF WithOutcome
<1> QED
  BY <1>2, ConstantsAssumption, FS_Subset, FS_CardinalityType DEF WithOutcome

\* One more outcome is reported: the set it belongs to grows by one, the
\* nodes without one become one fewer, and nothing else changes.
LEMMA OneMoreOutcome ==
    ASSUME TypeInv, NEW t \in Transitions, NEW n \in request[t].targets,
           outcomes[t][n] = "none", NEW o \in Outcomes \ {"none"},
           outcomes' = [outcomes EXCEPT ![t][n] = o], UNCHANGED request
    PROVE  /\ \A u \in Transitions \ {t} : \A S :
                 WithOutcome(u, S)' = WithOutcome(u, S)
           /\ Cardinality(WithOutcome(t, {"none"})')
                 = Cardinality(WithOutcome(t, {"none"})) - 1
           /\ \A S : "none" \notin S =>
                 Cardinality(WithOutcome(t, S)')
                   = Tick(Cardinality(WithOutcome(t, S)), o \in S)
<1>a. n \in Nodes /\ outcomes \in [Transitions -> [Nodes -> Outcomes]]
      /\ request[t].targets \subseteq Nodes
  BY DEF TypeInv, TypeOK, CallTypeOK, Requests, WorldTypeOK
<1>b. /\ \A u \in Transitions \ {t} : outcomes'[u] = outcomes[u]
      /\ outcomes'[t][n] = o
      /\ \A k \in Nodes \ {n} : outcomes'[t][k] = outcomes[t][k]
  BY <1>a
<1>1. ASSUME NEW u \in Transitions \ {t}, NEW S
      PROVE  WithOutcome(u, S)' = WithOutcome(u, S)
  BY <1>1, <1>b DEF WithOutcome
<1>2. Cardinality(WithOutcome(t, {"none"})') = Cardinality(WithOutcome(t, {"none"})) - 1
  <2>1. n \in WithOutcome(t, {"none"})
    BY DEF WithOutcome
  <2>2. WithOutcome(t, {"none"})' = WithOutcome(t, {"none"}) \ {n}
    BY <1>a, <1>b DEF WithOutcome
  <2> QED
    BY <2>1, <2>2, WithOutcomeFinite, FS_RemoveElement
<1>3. ASSUME NEW S, "none" \notin S
      PROVE  Cardinality(WithOutcome(t, S)') = Tick(Cardinality(WithOutcome(t, S)), o \in S)
  <2>1. n \notin WithOutcome(t, S)
    BY <1>3 DEF WithOutcome
  <2>2. CASE o \in S
    <3>1. WithOutcome(t, S)' = WithOutcome(t, S) \cup {n}
      BY <1>a, <1>b, <2>2 DEF WithOutcome
    <3> QED
      BY <2>1, <2>2, <3>1, WithOutcomeFinite, FS_AddElement DEF Tick
  <2>3. CASE o \notin S
    <3>1. WithOutcome(t, S)' = WithOutcome(t, S)
      BY <1>a, <1>b, <1>3, <2>3 DEF WithOutcome
    <3> QED
      BY <2>3, <3>1 DEF Tick
  <2> QED
    BY <2>2, <2>3
<1> QED
  BY <1>1, <1>2, <1>3

\* A step that counts nothing for the transitions that have an entry.
LEMMA NothingCounted ==
    ASSUME ProgressCountsOutcomes,
           \A t \in Transitions : progress'[t].live =>
               /\ progress[t].live
               /\ progress'[t].row.success = progress[t].row.success
               /\ progress'[t].row.failure = progress[t].row.failure
               /\ progress'[t].canceled = progress[t].canceled
               /\ progress'[t].remaining = progress[t].remaining
               /\ request'[t] = request[t]
               /\ outcomes'[t] = outcomes[t]
    PROVE  ProgressCountsOutcomes'
<1> SUFFICES ASSUME NEW t \in Transitions, progress'[t].live
             PROVE  /\ progress'[t].row.success = Cardinality(WithOutcome(t, {"succeeded"})')
                    /\ progress'[t].row.failure = Cardinality(WithOutcome(t, {"failed", "canceled"})')
                    /\ progress'[t].canceled = Cardinality(WithOutcome(t, {"canceled"})')
                    /\ progress'[t].remaining = Cardinality(WithOutcome(t, {"none"})')
                    /\ progress'[t].remaining > 0
  BY Zenon DEF ProgressCountsOutcomes
<1>1. \A S : WithOutcome(t, S)' = WithOutcome(t, S)
  BY DEF WithOutcome
<1> QED
  BY <1>1 DEF ProgressCountsOutcomes

-----------------------------------------------------------------------------
(* The steps that move or count a task.                                    *)

LEMMA InitFlowInv == Init => FlowInv
<1> SUFFICES ASSUME Init PROVE FlowInv
  OBVIOUS
<1> USE DEF Init
<1>1. WorkersBegun /\ TasksToCount
  BY DEF WorkersBegun, TasksToCount, Busy
<1>2. TaskInOnePlace
  BY DEF TaskInOnePlace, Queued, Held
<1>3. CallsNotBegun
  BY DEF CallsNotBegun, Begun, NoProgress, NoRequest, Unmapped
<1>4. EntriesOfMapped /\ ProgressCountsOutcomes
  BY DEF EntriesOfMapped, ProgressCountsOutcomes, NoProgress, NoRequest, Unmapped
<1> QED
  BY <1>1, <1>2, <1>3, <1>4 DEF FlowInv

LEMMA UnmovedFlowInv ==
    ASSUME TypeInv, FlowInv, Unmoved
    PROVE  FlowInv'
<1> USE DEF FlowInv, Unmoved
<1>a. \A t \in Transitions : Begun(t)' <=> Begun(t)
  BY DEF Begun
<1>b. \A w \in Workers : /\ Busy(w)' <=> Busy(w)
                         /\ pc'[w] = "persistFinal" <=> pc[w] = "persistFinal"
  BY DEF Busy, Working
<1>c. \A w \in Workers : Busy(w) => task[w][1] \in Transitions
  BY BusyTask DEF TypeInv
<1>1. WorkersBegun'
  BY <1>a, <1>b, <1>c DEF WorkersBegun
<1>2. TaskInOnePlace'
  BY DEF TaskInOnePlace, Queued, Held
<1>3. TasksToCount'
  BY <1>b DEF TasksToCount, ToCount
<1>4. CallsNotBegun'
  BY <1>a DEF CallsNotBegun
<1>5. EntriesOfMapped'
  BY DEF EntriesOfMapped
<1>6. ProgressCountsOutcomes'
  BY NothingCounted
<1> QED
  BY <1>1, <1>2, <1>3, <1>4, <1>5, <1>6

\* No task of the transition is anywhere before its call has begun.
LEMMA NoTaskBeforeBegun ==
    ASSUME TypeInv, FlowInv, NEW t \in Transitions, ~Begun(t)
    PROVE  /\ toEnqueue[t] = {}
           /\ \A i \in DOMAIN queue : queue[i][1] # t
           /\ \A w \in Workers : Busy(w) => task[w][1] # t
<1>1. ~progress[t].live
  BY DEF FlowInv, CallsNotBegun
<1>2. toEnqueue[t] = {} /\ \A i \in DOMAIN queue : queue[i][1] # t
  BY <1>1 DEF FlowInv, TasksToCount, ToCount
<1>3. \A w \in Workers : Busy(w) => task[w][1] # t
  BY DEF FlowInv, WorkersBegun
<1> QED
  BY <1>2, <1>3

LEMMA StartTransitionFlowInv ==
    ASSUME TypeInv, FlowInv, NEW t \in Transitions, NEW targets \in TargetSets,
           NEW dry \in DryRuns, NEW m \in Mappings, NEW r \in Results,
           StartTransition(t, targets, dry, m, r)
    PROVE  FlowInv'
<1> USE DEF FlowInv
<1> DEFINE fresh == [n \in Nodes |-> IF n \in Unmapped(targets, m) THEN "failed" ELSE "none"]
<1>a. /\ call[t] = "idle" /\ call'[t] \in {"created", "failed"}
      /\ call'[t] = "created" => r = "ok"
      /\ request'[t] = [targets |-> targets, dry |-> dry, bmc |-> m]
      /\ outcomes'[t] = fresh
      /\ row'[t] = NewTransition(targets, dry, m) \/ r # "ok"
      /\ \A u \in Transitions \ {t} :
            /\ call'[u] = call[u] /\ request'[u] = request[u]
            /\ outcomes'[u] = outcomes[u] /\ row'[u] = row[u]
      /\ UNCHANGED <<progress, queue, toEnqueue, abort, pc, task>>
  BY DEF StartTransition, CreateTransition, InsertTransition, Commits, engineVars, workerVars,
         TypeInv, TypeOK, CallTypeOK, WorldTypeOK, StoreTypeOK
<1>b. ~Begun(t) /\ ~progress[t].live /\ abort[t] = "idle"
  BY <1>a DEF Begun, CallsNotBegun
<1>c. \A u \in Transitions : Begun(u) => u # t /\ Begun(u)'
  BY <1>a DEF Begun
<1>d. Unmapped(targets, m) \subseteq Nodes
  BY ConstantsAssumption DEF Unmapped
<1>e. \A w \in Workers : Busy(w) => task[w][1] \in Transitions
  BY BusyTask DEF TypeInv
<1> HIDE DEF fresh
<1>1. WorkersBegun'
  BY <1>a, <1>c, <1>e DEF WorkersBegun, Busy
<1>2. TaskInOnePlace'
  BY <1>a DEF TaskInOnePlace, Queued, Held
<1>3. TasksToCount'
  <2>1. ASSUME NEW u \in Transitions, NEW n \in Nodes, ToCount(u, n) PROVE ToCount(u, n)'
    BY <1>a, <1>b, <2>1 DEF ToCount
  <2>2. \A i \in DOMAIN queue : queue[i][1] \in Transitions /\ queue[i][2] \in Nodes
    BY DEF TypeInv, TypeOK, EngineTypeOK
  <2>3. \A w \in Workers : Busy(w) => task[w][1] \in Transitions /\ task[w][2] \in Nodes
    BY BusyTask DEF TypeInv
  <2>4. \A u \in Transitions : toEnqueue[u] \subseteq Nodes
    BY DEF TypeInv, TypeOK, CallTypeOK
  <2> QED
    BY <1>a, <2>1, <2>2, <2>3, <2>4 DEF TasksToCount, Busy
<1>4. CallsNotBegun'
  BY <1>a, <1>b DEF CallsNotBegun, Begun, fresh
<1>5. EntriesOfMapped'
  BY <1>a, <1>b, <1>d DEF EntriesOfMapped, fresh
<1>6. ProgressCountsOutcomes'
  BY <1>a, <1>b, NothingCounted
<1> QED
  BY <1>1, <1>2, <1>3, <1>4, <1>5, <1>6

\* A write of a transition's row touches no other transition.
LEMMA UpdateTransitionRow ==
    ASSUME TypeInv, NEW t \in Transitions, NEW s, NEW r, UpdateTransition(t, s, r)
    PROVE  /\ \A u \in Transitions \ {t} : row'[u] = row[u]
           /\ row'[t] = IF Commits(r) THEN s ELSE row[t]
BY DEF UpdateTransition, TypeInv, TypeOK, StoreTypeOK

\* The writes of rows move no task; all but the one of a call that is over
\* when it is created come after the call has begun.
LEMMA ReturnTerminalFlowInv ==
    ASSUME TypeInv, FlowInv, NEW t \in Transitions, NEW r \in Results, ReturnTerminal(t, r)
    PROVE  FlowInv'
<1> USE DEF FlowInv
<1>a. /\ call[t] = "created" /\ call'[t] \in {"returned", "failed"}
      /\ \A u \in Transitions \ {t} : call'[u] = call[u] /\ row'[u] = row[u]
      /\ UNCHANGED <<progress, queue, request, toEnqueue, abort, pc, task, outcomes>>
  BY UpdateTransitionRow
     DEF ReturnTerminal, engineVars, workerVars, worldVars, TypeInv, TypeOK, CallTypeOK
<1>b. \A u \in Transitions : Begun(u) => Begun(u)'
  BY <1>a DEF Begun
<1>c. \A w \in Workers : Busy(w) => task[w][1] \in Transitions
  BY BusyTask DEF TypeInv
<1>1. WorkersBegun'
  BY <1>a, <1>b, <1>c DEF WorkersBegun, Busy
<1>2. TaskInOnePlace'
  BY <1>a DEF TaskInOnePlace, Queued, Held
<1>3. TasksToCount'
  BY <1>a DEF TasksToCount, ToCount, Busy
<1>4. CallsNotBegun'
  BY <1>a DEF CallsNotBegun, Begun
<1>5. EntriesOfMapped'
  BY <1>a DEF EntriesOfMapped
<1>6. ProgressCountsOutcomes'
  BY <1>a, NothingCounted
<1> QED
  BY <1>1, <1>2, <1>3, <1>4, <1>5, <1>6

\* What the row of a new transition says.
LEMMA NewTransitionFields ==
    ASSUME NEW targets, NEW dry, NEW m
    PROVE  /\ NewTransition(targets, dry, m).success = 0
           /\ NewTransition(targets, dry, m).failure = Cardinality(Unmapped(targets, m))
           /\ ~NewTransition(targets, dry, m).completed => ~dry /\ Mapped(targets, m) # {}
<1>1. NewTransition(targets, dry, m).completed = (dry \/ Mapped(targets, m) = {})
  BY DEF NewTransition
<1>2. ~NewTransition(targets, dry, m).completed => ~dry /\ Mapped(targets, m) # {}
  BY <1>1, Zenon
<1> QED
  BY <1>2 DEF NewTransition

\* The entry of a transition that is not over when it is created counts its
\* nodes without a mapping as failures and the others as remaining.
LEMMA RegisterProgressFlowInv ==
    ASSUME TypeInv, FlowInv, NEW t \in Transitions, RegisterProgress(t)
    PROVE  FlowInv'
<1> USE DEF FlowInv
<1> DEFINE all == request[t].targets
           pending == Mapped(all, request[t].bmc)
           missing == Unmapped(all, request[t].bmc)
<1>a. /\ call[t] = "created" /\ call'[t] = "check"
      /\ ~row[t].completed
      /\ progress' = [progress EXCEPT ![t] = progress'[t]]
      /\ progress'[t] = [live |-> TRUE, row |-> row[t], total |-> Cardinality(pending),
                         remaining |-> Cardinality(pending), canceled |-> 0,
                         aborted |-> FALSE]
      /\ toEnqueue'[t] = pending
      /\ \A u \in Transitions \ {t} : /\ call'[u] = call[u] /\ progress'[u] = progress[u]
                                      /\ toEnqueue'[u] = toEnqueue[u]
      /\ UNCHANGED <<row, queue, request, abort, pc, task, outcomes>>
  BY DEF RegisterProgress, storeVars, workerVars, worldVars,
         TypeInv, TypeOK, CallTypeOK, EngineTypeOK
<1>b. /\ ~Begun(t)
      /\ outcomes[t] = [n \in Nodes |-> IF n \in missing THEN "failed" ELSE "none"]
      /\ row[t] = NewTransition(all, request[t].dry, request[t].bmc)
  BY <1>a DEF Begun, CallsNotBegun
<1>c. all \subseteq Nodes /\ pending = all \ missing /\ missing \subseteq all
  BY DEF TypeInv, TypeOK, CallTypeOK, Requests, Mapped, Unmapped
<1>d. ~request[t].dry /\ pending # {} /\ row[t].success = 0
      /\ row[t].failure = Cardinality(missing)
  BY <1>a, <1>b, NewTransitionFields
<1>e. \A u \in Transitions : Begun(u) => u # t /\ Begun(u)'
  BY <1>a DEF Begun
<1>f. \A w \in Workers : Busy(w) => task[w][1] \in Transitions /\ task[w][2] \in Nodes
  BY BusyTask DEF TypeInv
<1>g. \A i \in DOMAIN queue : queue[i] \in Transitions \X Nodes
  BY DEF TypeInv, TypeOK, EngineTypeOK
<1> HIDE DEF all, pending, missing
<1>1. WorkersBegun'
  BY <1>a, <1>e, <1>f DEF WorkersBegun, Busy
<1>2. TaskInOnePlace'
  <2>1. \A n \in Nodes : ~Queued(t, n) /\ ~Held(t, n)
    <3>1. \A n \in Nodes : ~Queued(t, n)
      BY <1>b, NoTaskBeforeBegun DEF Queued
    <3>2. \A n \in Nodes : ~Held(t, n)
      <4> SUFFICES ASSUME NEW n \in Nodes, NEW w \in Workers, task[w] = <<t, n>> PROVE FALSE
        BY DEF Held
      <4>1. Busy(w)
        <5>1. <<t, n>> # NoTask
          BY ConstantsAssumption
        <5> QED
          BY <5>1 DEF WorkersBegun, Busy
      <4> QED
        BY <1>b, <4>1, NoTaskBeforeBegun
    <3> QED
      BY <3>1, <3>2
  <2> QED
    BY <1>a, <2>1 DEF TaskInOnePlace, Queued, Held
<1>3. TasksToCount'
  <2>1. \A n \in pending : ToCount(t, n)'
    BY <1>a, <1>b, <1>c DEF ToCount, pending, all
  <2>2. ASSUME NEW u \in Transitions \ {t}, NEW n \in Nodes, ToCount(u, n) PROVE ToCount(u, n)'
    BY <1>a, <2>2 DEF ToCount
  <2>3. \A i \in DOMAIN queue : queue[i][1] # t
    BY <1>b, NoTaskBeforeBegun
  <2>4. \A w \in Workers : Busy(w) => task[w][1] # t
    BY <1>b, NoTaskBeforeBegun
  <2>5. \A u \in Transitions \ {t} : toEnqueue[u] \subseteq Nodes
    BY DEF TypeInv, TypeOK, CallTypeOK
  <2>6. \A u \in Transitions : \A n \in toEnqueue'[u] : ToCount(u, n)'
    BY <1>a, <2>1, <2>2, <2>5 DEF TasksToCount
  <2>7. \A i \in DOMAIN queue : ToCount(queue[i][1], queue[i][2])'
    BY <1>a, <1>g, <2>2, <2>3 DEF TasksToCount
  <2>8. \A w \in Workers : Busy(w) /\ pc[w] # "persistFinal" => ToCount(task[w][1], task[w][2])'
    BY <1>a, <1>f, <2>2, <2>4 DEF TasksToCount
  <2> QED
    BY <1>a, <2>6, <2>7, <2>8 DEF TasksToCount, Busy, ToCount
<1>4. CallsNotBegun'
  BY <1>a DEF CallsNotBegun, Begun
<1>5. EntriesOfMapped'
  BY <1>a, <1>d DEF EntriesOfMapped, pending, all
<1>6. ProgressCountsOutcomes'
  <2>1. /\ WithOutcome(t, {"succeeded"})' = {} /\ WithOutcome(t, {"canceled"})' = {}
        /\ WithOutcome(t, {"failed", "canceled"})' = missing
        /\ WithOutcome(t, {"none"})' = pending
    BY <1>a, <1>b, <1>c DEF WithOutcome, all
  <2>2. Cardinality(pending) \in Nat /\ Cardinality(pending) > 0
    <3>1. IsFiniteSet(pending)
      BY <1>c, ConstantsAssumption, FS_Subset
    <3> QED
      BY <1>d, <3>1, FS_CardinalityType, FS_EmptySet
  <2>3. /\ progress'[t].row.success = Cardinality(WithOutcome(t, {"succeeded"})')
        /\ progress'[t].row.failure = Cardinality(WithOutcome(t, {"failed", "canceled"})')
        /\ progress'[t].canceled = Cardinality(WithOutcome(t, {"canceled"})')
        /\ progress'[t].remaining = Cardinality(WithOutcome(t, {"none"})')
        /\ progress'[t].remaining > 0
    <3>1. Cardinality(WithOutcome(t, {"succeeded"})') = 0 /\ Cardinality(WithOutcome(t, {"canceled"})') = 0
      BY <2>1, FS_EmptySet
    <3>2. progress'[t].row = row[t] /\ progress'[t].canceled = 0
          /\ progress'[t].remaining = Cardinality(pending)
      BY <1>a
    <3> QED
      BY <1>d, <2>1, <2>2, <3>1, <3>2
  <2>4. ASSUME NEW u \in Transitions \ {t} PROVE \A S : WithOutcome(u, S)' = WithOutcome(u, S)
    BY <1>a DEF WithOutcome
  <2>5. \A u \in Transitions \ {t} : progress'[u].live =>
          /\ progress'[u].row.success = Cardinality(WithOutcome(u, {"succeeded"})')
          /\ progress'[u].row.failure = Cardinality(WithOutcome(u, {"failed", "canceled"})')
          /\ progress'[u].canceled = Cardinality(WithOutcome(u, {"canceled"})')
          /\ progress'[u].remaining = Cardinality(WithOutcome(u, {"none"})')
          /\ progress'[u].remaining > 0
    BY <1>a, <2>4 DEF ProgressCountsOutcomes
  <2> QED
    BY <2>3, <2>5 DEF ProgressCountsOutcomes
<1> QED
  BY <1>1, <1>2, <1>3, <1>4, <1>5, <1>6

\* A send moves the first task that waits in its call to the end of the
\* queue.
LEMMA EnqueueSendFlowInv ==
    ASSUME TypeInv, FlowInv, NEW t \in Transitions, EnqueueSend(t)
    PROVE  FlowInv'
<1> USE DEF FlowInv
<1>0. PICK n \in toEnqueue[t] :
        /\ queue' = Append(queue, <<t, n>>)
        /\ toEnqueue' = [toEnqueue EXCEPT ![t] = @ \ {n}]
        /\ call' = [call EXCEPT ![t] = IF toEnqueue[t] = {n} THEN "returned" ELSE "check"]
  BY DEF EnqueueSend
<1>a. /\ call[t] = "send" /\ call'[t] \in {"returned", "check"}
      /\ toEnqueue'[t] = toEnqueue[t] \ {n}
      /\ \A u \in Transitions \ {t} : call'[u] = call[u] /\ toEnqueue'[u] = toEnqueue[u]
      /\ UNCHANGED <<row, progress, request, abort, pc, task, outcomes>>
  BY <1>0 DEF EnqueueSend, storeVars, workerVars, worldVars, TypeInv, TypeOK, CallTypeOK
<1>b. n \in Nodes /\ queue \in Seq(Transitions \X Nodes)
  BY DEF TypeInv, TypeOK, CallTypeOK, EngineTypeOK
<1>c. /\ DOMAIN queue' = DOMAIN queue \cup {Len(queue) + 1}
      /\ Len(queue) + 1 \notin DOMAIN queue
      /\ \A i \in DOMAIN queue : queue'[i] = queue[i]
      /\ queue'[Len(queue) + 1] = <<t, n>>
  BY <1>0, <1>b
<1>d. \A u \in Transitions : Begun(u)' <=> Begun(u)
  BY <1>a DEF Begun
<1>e. \A w \in Workers : Busy(w) => task[w][1] \in Transitions
  BY BusyTask DEF TypeInv
<1>1. WorkersBegun'
  BY <1>a, <1>d, <1>e DEF WorkersBegun, Busy
<1>2. TaskInOnePlace'
  <2>1. ~Queued(t, n) /\ ~Held(t, n)
    BY <1>b DEF TaskInOnePlace
  <2>2. \A u \in Transitions, k \in Nodes :
          Queued(u, k)' <=> Queued(u, k) \/ <<u, k>> = <<t, n>>
    BY <1>c DEF Queued
  <2>3. \A u \in Transitions, k \in Nodes : Held(u, k)' <=> Held(u, k)
    BY <1>a DEF Held
  <2>4. \A i, j \in DOMAIN queue' : queue'[i] = queue'[j] => i = j
    BY <1>c, <2>1 DEF TaskInOnePlace, Queued
  <2>5. \A u \in Transitions, k \in Nodes :
          /\ ~(Queued(u, k)' /\ Held(u, k)')
          /\ k \in toEnqueue'[u] => ~Queued(u, k)' /\ ~Held(u, k)'
    BY <1>a, <2>1, <2>2, <2>3 DEF TaskInOnePlace
  <2> QED
    BY <1>a, <2>4, <2>5 DEF TaskInOnePlace
<1>3. TasksToCount'
  BY <1>a, <1>b, <1>c DEF TasksToCount, ToCount, Busy
<1>4. CallsNotBegun'
  BY <1>a, <1>d DEF CallsNotBegun
<1>5. EntriesOfMapped'
  BY <1>a DEF EntriesOfMapped
<1>6. ProgressCountsOutcomes'
  BY <1>a, NothingCounted
<1> QED
  BY <1>1, <1>2, <1>3, <1>4, <1>5, <1>6

\* An abort marks the entry and counts nothing; its write comes after the
\* call has begun.
LEMMA AbortFlowInv ==
    ASSUME TypeInv, FlowInv, NEW t \in Transitions, NEW r \in Results,
           AbortTransition(t) \/ PersistAbort(t, r)
    PROVE  FlowInv'
<1> USE DEF FlowInv
<1>a. /\ Begun(t)
      /\ \A u \in Transitions \ {t} :
            row'[u] = row[u] /\ progress'[u] = progress[u] /\ abort'[u] = abort[u]
      /\ /\ progress'[t].live = progress[t].live
         /\ progress'[t].total = progress[t].total
         /\ progress'[t].remaining = progress[t].remaining
         /\ progress'[t].canceled = progress[t].canceled
         /\ progress'[t].row.success = progress[t].row.success
         /\ progress'[t].row.failure = progress[t].row.failure
      /\ UNCHANGED <<call, queue, request, toEnqueue, pc, task, outcomes>>
  <2>1. CASE AbortTransition(t)
    <3> DEFINE p == progress[t]
               canceled == [p.row EXCEPT !.state = "canceled"]
    <3>1. p \in Progress /\ p.row \in Rows
      BY DEF TypeInv, TypeOK, EngineTypeOK, Progress
    <3>2. /\ progress' = [progress EXCEPT ![t] = [p EXCEPT !.aborted = TRUE, !.row = canceled]]
          /\ abort' = [abort EXCEPT ![t] = "persist"]
          /\ p.live
          /\ UNCHANGED <<row, call, queue, request, toEnqueue, pc, task, outcomes>>
      BY <2>1 DEF AbortTransition, storeVars, workerVars, worldVars
    <3>3. canceled.success = p.row.success /\ canceled.failure = p.row.failure
      BY <3>1 DEF Rows
    <3> HIDE DEF canceled
    <3>4. progress'[t] = [p EXCEPT !.aborted = TRUE, !.row = canceled]
      BY <3>2 DEF TypeInv, TypeOK, EngineTypeOK
    <3>5. /\ progress'[t].row = canceled /\ progress'[t].live = p.live
          /\ progress'[t].total = p.total /\ progress'[t].remaining = p.remaining
          /\ progress'[t].canceled = p.canceled
      BY <3>1, <3>4 DEF Progress
    <3>6. Begun(t)
      BY <3>2 DEF CallsNotBegun
    <3> QED
      BY <3>2, <3>3, <3>5, <3>6 DEF TypeInv, TypeOK, EngineTypeOK, CallTypeOK
  <2>2. CASE PersistAbort(t, r)
    BY <2>2, UpdateTransitionRow
       DEF PersistAbort, engineVars, workerVars, worldVars, CallsNotBegun,
           TypeInv, TypeOK, CallTypeOK
  <2> QED
    BY <2>1, <2>2
<1>1. WorkersBegun'
  BY <1>a DEF WorkersBegun, Busy, Begun
<1>2. TaskInOnePlace'
  BY <1>a DEF TaskInOnePlace, Queued, Held
<1>3. TasksToCount'
  <2>1. ASSUME NEW u \in Transitions, NEW k \in Nodes, ToCount(u, k) PROVE ToCount(u, k)'
    BY <1>a, <2>1 DEF ToCount
  <2>2. \A w \in Workers : Busy(w) => task[w][1] \in Transitions /\ task[w][2] \in Nodes
    BY BusyTask DEF TypeInv
  <2>3. \A i \in DOMAIN queue : queue[i] \in Transitions \X Nodes
    BY DEF TypeInv, TypeOK, EngineTypeOK
  <2>4. \A u \in Transitions : toEnqueue[u] \subseteq Nodes
    BY DEF TypeInv, TypeOK, CallTypeOK
  <2> QED
    BY <1>a, <2>1, <2>2, <2>3, <2>4 DEF TasksToCount, Busy
<1>4. CallsNotBegun'
  BY <1>a DEF CallsNotBegun, Begun
<1>5. EntriesOfMapped'
  BY <1>a DEF EntriesOfMapped
<1>6. ProgressCountsOutcomes'
  BY <1>a, NothingCounted
<1> QED
  BY <1>1, <1>2, <1>3, <1>4, <1>5, <1>6

\* A receive moves the first task of the queue to an idle worker.
LEMMA DequeueFlowInv ==
    ASSUME TypeInv, FlowInv, NEW w \in Workers, Dequeue(w)
    PROVE  FlowInv'
<1> USE DEF FlowInv
<1>a. /\ pc[w] = "idle" /\ pc'[w] = "mark" /\ task'[w] = Head(queue) /\ queue' = Tail(queue)
      /\ \A v \in Workers \ {w} : pc'[v] = pc[v] /\ task'[v] = task[v]
      /\ UNCHANGED <<row, progress, call, request, toEnqueue, abort, outcomes>>
  BY DEF Dequeue, storeVars, callVars, worldVars, TypeInv, TypeOK, WorkerTypeOK
<1>b. queue # <<>> /\ queue \in Seq(Transitions \X Nodes)
  BY DEF Dequeue, TypeInv, TypeOK, EngineTypeOK
<1>c. /\ 1 \in DOMAIN queue /\ task'[w] = queue[1]
      /\ \A i \in DOMAIN queue' : i + 1 \in DOMAIN queue /\ i + 1 # 1 /\ queue'[i] = queue[i + 1]
      /\ \A i, j \in DOMAIN queue' : i + 1 = j + 1 => i = j
      /\ queue[1] \in Transitions \X Nodes
  BY <1>a, <1>b
<1>d. /\ progress[queue[1][1]].live
      /\ ~Busy(w)
      /\ \A v \in Workers \ {w} : Busy(v)' <=> Busy(v)
  BY <1>a, <1>c DEF TasksToCount, ToCount, Busy
<1>e. Begun(queue[1][1])
  BY <1>c, <1>d DEF CallsNotBegun
<1>1. WorkersBegun'
  BY <1>a, <1>c, <1>d, <1>e DEF WorkersBegun, Begun, Busy
<1>2. TaskInOnePlace'
  <2> USE DEF TaskInOnePlace
  <2>1. queue[1] # NoTask
    BY <1>c, ConstantsAssumption
  <2>2. \A v \in Workers : task[v] # queue[1]
    BY <1>c DEF Queued, Held
  <2>3. \A i, j \in DOMAIN queue' : queue'[i] = queue'[j] => i = j
    BY <1>c
  <2>4. \A v, u \in Workers : task'[v] = task'[u] /\ task'[v] # NoTask => v = u
    BY <1>a, <1>c, <2>2
  <2>5. ASSUME NEW u \in Transitions, NEW n \in Nodes
        PROVE  /\ ~(Queued(u, n)' /\ Held(u, n)')
               /\ n \in toEnqueue'[u] => ~Queued(u, n)' /\ ~Held(u, n)'
    <3>1. Queued(u, n)' => Queued(u, n) /\ queue[1] # <<u, n>>
      BY <1>c DEF Queued
    <3>2. Held(u, n)' => Held(u, n) \/ queue[1] = <<u, n>>
      BY <1>a, <1>c DEF Held
    <3>3. queue[1] = <<u, n>> => Queued(u, n)
      BY <1>c DEF Queued
    <3> QED
      BY <1>a, <3>1, <3>2, <3>3
  <2> QED
    BY <2>3, <2>4, <2>5
<1>3. TasksToCount'
  BY <1>a, <1>c, <1>d DEF TasksToCount, ToCount, Busy
<1>4. CallsNotBegun' /\ EntriesOfMapped'
  BY <1>a DEF CallsNotBegun, Begun, EntriesOfMapped
<1>5. ProgressCountsOutcomes'
  BY <1>a, NothingCounted
<1> QED
  BY <1>1, <1>2, <1>3, <1>4, <1>5

\* A worker goes on with its task, or drops it.
KeepsOrDrops(w) ==
    /\ Busy(w)
    /\ \A v \in Workers \ {w} : pc'[v] = pc[v] /\ task'[v] = task[v]
    /\ \/ task'[w] = task[w] /\ Busy(w)'
       \/ task'[w] = NoTask /\ pc'[w] = "idle"
    /\ UNCHANGED <<queue, toEnqueue, call, request, abort>>

LEMMA RetireDrops ==
    ASSUME TypeInv, NEW w \in Workers, Retire(w)
    PROVE  /\ task'[w] = NoTask /\ pc'[w] = "idle"
           /\ \A v \in Workers \ {w} : pc'[v] = pc[v] /\ task'[v] = task[v] /\ snap'[v] = snap[v]
BY DEF Retire, TypeInv, TypeOK, WorkerTypeOK

LEMMA KeepsOrDropsPlaces ==
    ASSUME TypeInv, FlowInv, NEW w \in Workers, KeepsOrDrops(w)
    PROVE  WorkersBegun' /\ TaskInOnePlace'
<1> USE DEF FlowInv, KeepsOrDrops
<1>1. WorkersBegun'
  BY DEF WorkersBegun, Begun, Busy
<1>2. TaskInOnePlace'
  <2> USE DEF TaskInOnePlace
  <2>1. \A v \in Workers : task'[v] = task[v] \/ task'[v] = NoTask
    OBVIOUS
  <2>2. \A v, u \in Workers : task'[v] = task'[u] /\ task'[v] # NoTask => v = u
    BY <2>1
  <2>3. \A t \in Transitions, n \in Nodes : <<t, n>> # NoTask
    BY ConstantsAssumption
  <2>4. \A t \in Transitions, n \in Nodes : Held(t, n)' => Held(t, n)
    BY <2>1, <2>3 DEF Held
  <2>5. \A t \in Transitions, n \in Nodes : Queued(t, n)' <=> Queued(t, n)
    BY DEF Queued
  <2> QED
    BY <2>2, <2>4, <2>5
<1> QED
  BY <1>1, <1>2

\* The first task of a transition marks its entry running and counts
\* nothing.
LEMMA MarkTransitionRunningFlowInv ==
    ASSUME TypeInv, FlowInv, NEW w \in Workers, MarkTransitionRunning(w)
    PROVE  FlowInv'
<1> USE DEF FlowInv
<1> DEFINE t == task[w][1]
           p == progress[t]
           started == [p.row EXCEPT !.state = "running", !.started = TRUE]
<1>a. pc[w] = "mark" /\ Busy(w) /\ UNCHANGED <<row, call, queue, request, toEnqueue, abort, outcomes>>
  BY DEF MarkTransitionRunning, Busy, storeVars, callVars, worldVars
<1>b. t \in Transitions /\ p \in Progress /\ p.row \in Rows
  BY <1>a, BusyTask DEF TypeInv, TypeOK, EngineTypeOK, Progress
<1>c. \/ Retire(w) /\ UNCHANGED progress
      \/ UNCHANGED <<progress, task>> /\ pc' = [pc EXCEPT ![w] = "begin"]
      \/ /\ progress' = [progress EXCEPT ![t] = [p EXCEPT !.row = started]]
         /\ pc' = [pc EXCEPT ![w] = "persistRunning"]
         /\ UNCHANGED task
  BY Zenon DEF MarkTransitionRunning
<1>d. started.success = p.row.success /\ started.failure = p.row.failure
  BY <1>b DEF Rows
<1> HIDE DEF started
<1>e. /\ \A u \in Transitions \ {t} : progress'[u] = progress[u]
      /\ progress'[t].live = p.live /\ progress'[t].total = p.total
      /\ progress'[t].remaining = p.remaining /\ progress'[t].canceled = p.canceled
      /\ progress'[t].row.success = p.row.success /\ progress'[t].row.failure = p.row.failure
  <2> DEFINE marked == [p EXCEPT !.row = started]
  <2>1. /\ marked.live = p.live /\ marked.total = p.total /\ marked.remaining = p.remaining
        /\ marked.canceled = p.canceled /\ marked.row = started
    BY <1>b DEF Progress
  <2>2. UNCHANGED progress \/ progress' = [progress EXCEPT ![t] = marked]
    BY <1>c
  <2> HIDE DEF marked
  <2> QED
    BY <1>b, <1>d, <2>1, <2>2 DEF TypeInv, TypeOK, EngineTypeOK
<1>f. KeepsOrDrops(w)
  BY <1>a, <1>c, RetireDrops DEF KeepsOrDrops, Busy, TypeInv, TypeOK, WorkerTypeOK
<1> HIDE DEF t, p
<1>1. WorkersBegun' /\ TaskInOnePlace'
  BY <1>f, KeepsOrDropsPlaces
<1>2. TasksToCount'
  <2>1. ASSUME NEW u \in Transitions, NEW n, ToCount(u, n) PROVE ToCount(u, n)'
    BY <1>a, <1>e, <2>1 DEF ToCount, p
  <2>2. \A v \in Workers : Busy(v)' /\ pc'[v] # "persistFinal" =>
          Busy(v) /\ pc[v] # "persistFinal" /\ task'[v] = task[v]
    BY <1>a, <1>f DEF KeepsOrDrops, Busy
  <2>3. \A i \in DOMAIN queue : queue[i] \in Transitions \X Nodes
    BY DEF TypeInv, TypeOK, EngineTypeOK
  <2>4. \A v \in Workers : Busy(v) => task[v][1] \in Transitions
    BY BusyTask DEF TypeInv
  <2>5. \A v \in Workers : Busy(v)' /\ pc'[v] # "persistFinal" => ToCount(task[v][1], task[v][2])'
    BY <2>1, <2>2, <2>4 DEF TasksToCount, ToCount
  <2> QED
    BY <1>a, <2>1, <2>2, <2>3, <2>5 DEF TasksToCount, ToCount
<1>3. CallsNotBegun'
  BY <1>a, <1>e DEF CallsNotBegun, Begun, p
<1>4. EntriesOfMapped'
  BY <1>a, <1>e DEF EntriesOfMapped, p
<1>5. ProgressCountsOutcomes'
  BY <1>a, <1>e, NothingCounted DEF p
<1> QED
  BY <1>1, <1>2, <1>3, <1>4, <1>5

\* The writes of a worker come after its call has begun; a failed one drops
\* the task, which stays counted as remaining.
LEMMA PersistFlowInv ==
    ASSUME TypeInv, FlowInv, NEW w \in Workers, NEW r \in Results,
           PersistRunning(w, r) \/ PersistFinal(w, r)
    PROVE  FlowInv'
<1> USE DEF FlowInv
<1> DEFINE t == task[w][1]
<1>a. /\ pc[w] \in {"persistRunning", "persistFinal"} /\ Busy(w)
      /\ UNCHANGED <<progress, call, queue, request, toEnqueue, abort, outcomes>>
      /\ UpdateTransition(t, snap[w], r)
      /\ \/ Retire(w)
         \/ UNCHANGED task /\ pc' = [pc EXCEPT ![w] = "begin"] /\ pc[w] = "persistRunning"
  BY DEF PersistRunning, PersistFinal, Busy, callVars, worldVars
<1>b. t \in Transitions /\ Begun(t)
  BY <1>a, BusyTask DEF TypeInv, WorkersBegun
<1>c. \A u \in Transitions \ {t} : row'[u] = row[u]
  BY <1>a, <1>b, UpdateTransitionRow
<1>d. KeepsOrDrops(w)
  BY <1>a, RetireDrops DEF KeepsOrDrops, Busy, TypeInv, TypeOK, WorkerTypeOK
<1>1. WorkersBegun' /\ TaskInOnePlace'
  BY <1>d, KeepsOrDropsPlaces
<1>2. TasksToCount'
  <2>1. \A v \in Workers : Busy(v)' /\ pc'[v] # "persistFinal" =>
          Busy(v) /\ pc[v] # "persistFinal" /\ task'[v] = task[v]
    BY <1>a, <1>d, RetireDrops DEF KeepsOrDrops, Busy
  <2> QED
    BY <1>a, <2>1 DEF TasksToCount, ToCount
<1>3. CallsNotBegun'
  BY <1>a, <1>b, <1>c DEF CallsNotBegun, Begun
<1>4. EntriesOfMapped'
  BY <1>a DEF EntriesOfMapped
<1>5. ProgressCountsOutcomes'
  BY <1>a, NothingCounted
<1> QED
  BY <1>1, <1>2, <1>3, <1>4, <1>5

\* The row of a transition whose last outcome has been counted.
FinalRow(p) == [p.row EXCEPT !.state = FinalTransitionState(p), !.completed = TRUE]

\* What recordTaskOutcome finds and does: the entry of a task it is to
\* count.  The task is the last one exactly when no other node is without an
\* outcome.
Records(w, t, n, o) ==
    /\ pc[w] = "record" /\ Busy(w) /\ task[w] = <<t, n>>
    /\ t \in Transitions /\ n \in Nodes /\ ToCount(t, n) /\ n \in request[t].targets
    /\ o \in Outcomes \ {"none"}
    /\ outcomes' = [outcomes EXCEPT ![t][n] = o]
    /\ UNCHANGED <<row, call, queue, request, toEnqueue, abort, abortSnap>>
    /\ \/ /\ progress[t].remaining > 1
          /\ progress' = [progress EXCEPT ![t] = Counted(progress[t], o)]
          /\ Retire(w)
       \/ /\ progress[t].remaining = 1
          /\ WithOutcome(t, {"none"}) = {n}
          /\ progress' = [progress EXCEPT ![t] = NoProgress]
          /\ pc' = [pc EXCEPT ![w] = "persistFinal"]
          /\ snap' = [snap EXCEPT ![w] = FinalRow(Counted(progress[t], o))]
          /\ UNCHANGED task

LEMMA RecordTaskOutcomeRecords ==
    ASSUME NEW w \in Workers, TypeInv, FlowInv, RecordTaskOutcome(w)
    PROVE  Records(w, task[w][1], task[w][2], outcome[w])
<1> DEFINE t == task[w][1]
           n == task[w][2]
           o == outcome[w]
<1>0. t = task[w][1] /\ n = task[w][2] /\ o = outcome[w]
  OBVIOUS
<1> SUFFICES Records(w, t, n, o)
  BY <1>0
<1> HIDE DEF t, n, o
<1> USE DEF FlowInv
<1>1. /\ pc[w] = "record" /\ Busy(w)
      /\ UNCHANGED <<row, call, queue, request, toEnqueue, abort, abortSnap>>
  BY DEF RecordTaskOutcome, Busy, storeVars, callVars
<1>2. task[w] = <<t, n>> /\ t \in Transitions /\ n \in Nodes
  BY <1>0, <1>1, BusyTask DEF TypeInv
<1>3. ToCount(t, n)
  BY <1>0, <1>1 DEF TasksToCount
<1>4. n \in request[t].targets
  BY <1>3 DEF ToCount, Mapped
<1>5. o \in Outcomes \ {"none"}
  BY <1>0, <1>1 DEF TypeInv, TypeOK, WorkerTypeOK, WorkerShape
<1>6. progress[t].live /\ Counted(progress[t], o).remaining = progress[t].remaining - 1
  BY <1>3 DEF ToCount, Counted
<1>7. progress[t].remaining \in Int /\ progress[t].remaining > 0
  BY <1>2, <1>6 DEF TypeInv, TypeOK, EngineTypeOK, Progress, ProgressCountsOutcomes
<1>8. \/ /\ Counted(progress[t], o).remaining > 0
         /\ progress' = [progress EXCEPT ![t] = Counted(progress[t], o)]
         /\ outcomes' = [outcomes EXCEPT ![t][n] = o]
         /\ Retire(w)
      \/ /\ Counted(progress[t], o).remaining <= 0
         /\ progress' = [progress EXCEPT ![t] = NoProgress]
         /\ outcomes' = [outcomes EXCEPT ![t][n] = o]
         /\ pc' = [pc EXCEPT ![w] = "persistFinal"]
         /\ snap' = [snap EXCEPT ![w] = FinalRow(Counted(progress[t], o))]
         /\ UNCHANGED task
  BY <1>0, <1>6, Zenon DEF RecordTaskOutcome, FinalRow
<1>9. progress[t].remaining = 1 => WithOutcome(t, {"none"}) = {n}
  <2>1. n \in WithOutcome(t, {"none"})
    BY <1>3, <1>4 DEF ToCount, WithOutcome
  <2>2. progress[t].remaining = Cardinality(WithOutcome(t, {"none"}))
    BY <1>2, <1>6 DEF ProgressCountsOutcomes
  <2>3. SUFFICES ASSUME progress[t].remaining = 1
                 PROVE  WithOutcome(t, {"none"}) \ {n} = {}
    BY <2>1
  <2>4. IsFiniteSet(WithOutcome(t, {"none"}))
    BY <1>2, WithOutcomeFinite
  <2> HIDE DEF FlowInv
  <2>5. Cardinality(WithOutcome(t, {"none"}) \ {n}) = 0 /\ IsFiniteSet(WithOutcome(t, {"none"}) \ {n})
    <3> DEFINE S == WithOutcome(t, {"none"})
    <3>1. n \in S /\ IsFiniteSet(S) /\ Cardinality(S) = 1
      BY <2>1, <2>2, <2>3, <2>4
    <3> HIDE DEF S
    <3>2. IsFiniteSet(S \ {n}) /\ Cardinality(S \ {n}) = Cardinality(S) - 1
      BY <3>1, FS_RemoveElement
    <3>3. IsFiniteSet(S \ {n}) /\ Cardinality(S \ {n}) = 0
      BY <3>1, <3>2
    <3> QED
      BY <3>3 DEF S
  <2> QED
    BY <2>5, FS_EmptySet
<1> HIDE DEF FlowInv
<1>10. CASE progress[t].remaining > 1
  <2>1. ~(Counted(progress[t], o).remaining <= 0)
    BY <1>6, <1>7, <1>10
  <2> QED
    BY <1>1, <1>2, <1>3, <1>4, <1>5, <1>8, <1>10, <2>1 DEF Records
<1>11. CASE progress[t].remaining = 1
  <2>1. ~(Counted(progress[t], o).remaining > 0)
    BY <1>6, <1>11
  <2> QED
    BY <1>1, <1>2, <1>3, <1>4, <1>5, <1>8, <1>9, <1>11, <2>1 DEF Records
<1> QED
  BY <1>7, <1>10, <1>11

\* The only step that counts: the entry moves with the outcome, and the last
\* outcome deletes it when no other task is anywhere.
LEMMA RecordTaskOutcomeFlowInv ==
    ASSUME TypeInv, FlowInv, NEW w \in Workers, RecordTaskOutcome(w)
    PROVE  FlowInv'
<1>r. PICK t, n, o : Records(w, t, n, o)
  BY RecordTaskOutcomeRecords
<1> DEFINE p == progress[t]
<1>0. p = progress[t]
  OBVIOUS
<1> HIDE DEF p
<1>a. /\ pc[w] = "record" /\ Busy(w) /\ task[w] = <<t, n>>
      /\ t \in Transitions /\ n \in Nodes /\ ToCount(t, n) /\ n \in request[t].targets
      /\ o \in Outcomes \ {"none"}
      /\ outcomes' = [outcomes EXCEPT ![t][n] = o]
      /\ UNCHANGED <<row, call, queue, request, toEnqueue, abort>>
  BY <1>r DEF Records
<1>b. \/ progress' = [progress EXCEPT ![t] = Counted(p, o)] /\ Retire(w) /\ p.remaining > 1
      \/ /\ progress' = [progress EXCEPT ![t] = NoProgress]
         /\ pc' = [pc EXCEPT ![w] = "persistFinal"] /\ UNCHANGED task
         /\ WithOutcome(t, {"none"}) = {n}
  BY <1>0, <1>r DEF Records
<1>c. /\ \A u \in Transitions \ {t} : outcomes'[u] = outcomes[u]
      /\ outcomes'[t][n] = o
      /\ \A k \in Nodes \ {n} : outcomes'[t][k] = outcomes[t][k]
      /\ outcomes[t][n] = "none" /\ p.live
  BY <1>0, <1>a DEF TypeInv, TypeOK, WorldTypeOK, ToCount
<1>d. \A u \in Transitions \ {t} : progress'[u] = progress[u]
  BY <1>a, <1>b DEF TypeInv, TypeOK, EngineTypeOK
<1>e. Begun(t) /\ (call[t] # "idle" /\ call[t] # "created")
  BY <1>a DEF FlowInv, WorkersBegun, Begun
<1>f. KeepsOrDrops(w)
  BY <1>a, <1>b, RetireDrops DEF KeepsOrDrops, Busy, TypeInv, TypeOK, WorkerTypeOK
<1>g. \/ /\ progress'[t].live = p.live /\ progress'[t].total = p.total
         /\ progress'[t].remaining = p.remaining - 1 /\ p.remaining > 1
         /\ progress'[t].canceled = Tick(p.canceled, o = "canceled")
         /\ progress'[t].row.success = Tick(p.row.success, o = "succeeded")
         /\ progress'[t].row.failure = Tick(p.row.failure, o # "succeeded")
      \/ ~progress'[t].live /\ WithOutcome(t, {"none"}) = {n}
  <2>1. /\ Counted(p, o).live = p.live /\ Counted(p, o).total = p.total
        /\ Counted(p, o).remaining = p.remaining - 1
        /\ Counted(p, o).canceled = Tick(p.canceled, o = "canceled")
        /\ Counted(p, o).row.success = Tick(p.row.success, o = "succeeded")
        /\ Counted(p, o).row.failure = Tick(p.row.failure, o # "succeeded")
    BY DEF Counted, CountedRow
  <2>2. \/ progress'[t] = Counted(p, o) /\ p.remaining > 1
        \/ progress'[t] = NoProgress /\ WithOutcome(t, {"none"}) = {n}
    <3>1. progress \in [Transitions -> Progress]
      BY DEF TypeInv, TypeOK, EngineTypeOK
    <3>2. \A x : progress' = [progress EXCEPT ![t] = x] => progress'[t] = x
      <4>1. t \in Transitions
        BY <1>a
      <4> QED
        BY <3>1, <4>1, Zenon
    <3>3. CASE progress' = [progress EXCEPT ![t] = Counted(p, o)] /\ p.remaining > 1
      BY <3>2, <3>3, Zenon
    <3>4. CASE progress' = [progress EXCEPT ![t] = NoProgress] /\ WithOutcome(t, {"none"}) = {n}
      BY <3>2, <3>4, Zenon
    <3> QED
      BY <1>b, <3>3, <3>4
  <2>3. ~NoProgress.live
    BY DEF NoProgress
  <2> QED
    BY <2>1, <2>2, <2>3
<1>1. WorkersBegun' /\ TaskInOnePlace'
  BY <1>f, KeepsOrDropsPlaces
<1>2. TasksToCount'
  <2>1. ASSUME NEW u \in Transitions, NEW k \in Nodes, ToCount(u, k), <<u, k>> # <<t, n>>
        PROVE  ToCount(u, k)'
    <3>1. CASE u # t
      BY <1>a, <1>c, <1>d, <2>1, <3>1 DEF ToCount
    <3>2. CASE u = t
      <4>1. k # n /\ outcomes[t][k] = "none" /\ k \in Mapped(request[t].targets, request[t].bmc)
        BY <2>1, <3>2 DEF ToCount
      <4>2. k \in WithOutcome(t, {"none"})
        BY <4>1 DEF WithOutcome, Mapped
      <4>3. progress'[t].live
        BY <1>c, <1>g, <4>1, <4>2
      <4> QED
        BY <1>a, <1>c, <3>2, <4>1, <4>3 DEF ToCount
    <3> QED
      BY <3>1, <3>2
  <2>2. ASSUME NEW u \in Transitions, NEW k \in toEnqueue[u] PROVE ToCount(u, k)'
    <3>1. k \in Nodes
      BY DEF TypeInv, TypeOK, CallTypeOK
    <3>2. <<u, k>> # <<t, n>>
      BY <1>a, <3>1 DEF FlowInv, TaskInOnePlace, Held
    <3> QED
      BY <2>1, <3>1, <3>2 DEF FlowInv, TasksToCount
  <2>3. ASSUME NEW i \in DOMAIN queue, NEW u, u = queue[i][1], NEW k, k = queue[i][2]
        PROVE  ToCount(u, k)'
    <3>1. queue[i] = <<u, k>> /\ u \in Transitions /\ k \in Nodes
      BY <2>3 DEF TypeInv, TypeOK, EngineTypeOK
    <3>2. <<u, k>> # <<t, n>>
      BY <1>a, <3>1 DEF FlowInv, TaskInOnePlace, Held, Queued
    <3> QED
      BY <2>1, <2>3, <3>1, <3>2 DEF FlowInv, TasksToCount
  <2>4. ASSUME NEW v \in Workers, Busy(v)', pc'[v] # "persistFinal",
               NEW u, u = task'[v][1], NEW k, k = task'[v][2]
        PROVE  ToCount(u, k)'
    <3>1. v # w
      BY <1>a, <1>b, <2>4, RetireDrops DEF Busy, TypeInv, TypeOK, WorkerTypeOK
    <3>2. Busy(v) /\ pc[v] # "persistFinal" /\ task'[v] = task[v]
      BY <1>f, <2>4, <3>1 DEF KeepsOrDrops, Busy
    <3>3. task[v] = <<u, k>> /\ u \in Transitions /\ k \in Nodes
      BY <2>4, <3>2, BusyTask DEF TypeInv
    <3>4. task[v] # NoTask
      BY <3>3, ConstantsAssumption
    <3>5. <<u, k>> # <<t, n>>
      BY <1>a, <3>1, <3>3, <3>4 DEF FlowInv, TaskInOnePlace
    <3> QED
      BY <2>1, <2>4, <3>2, <3>3, <3>5 DEF FlowInv, TasksToCount
  <2> QED
    BY <1>a, <2>2, <2>3, <2>4, Zenon DEF TasksToCount
<1>3. CallsNotBegun'
  BY <1>a, <1>c, <1>d, <1>e DEF FlowInv, CallsNotBegun, Begun
<1>4. EntriesOfMapped'
  <2>1. n \notin Unmapped(request[t].targets, request[t].bmc)
    BY <1>a DEF ToCount, Mapped
  <2>2. \A u \in Transitions : Unmapped(request[u].targets, request[u].bmc) \subseteq Nodes
    BY DEF TypeInv, TypeOK, CallTypeOK, Requests, Unmapped
  <2> QED
    <3>1. \A u \in Transitions : \A k \in Unmapped(request[u].targets, request[u].bmc) :
            outcomes'[u][k] = "failed"
      BY <1>c, <2>1, <2>2 DEF FlowInv, EntriesOfMapped
    <3>2. \A u \in Transitions : progress'[u].live =>
            progress[u].live /\ progress'[u].total = progress[u].total
      BY <1>0, <1>d, <1>g
    <3> QED
      BY <1>a, <3>1, <3>2 DEF FlowInv, EntriesOfMapped
<1>5. ProgressCountsOutcomes'
  <2>1. /\ \A u \in Transitions \ {t} : \A S : WithOutcome(u, S)' = WithOutcome(u, S)
        /\ Cardinality(WithOutcome(t, {"none"})') = Cardinality(WithOutcome(t, {"none"})) - 1
        /\ \A S : "none" \notin S =>
             Cardinality(WithOutcome(t, S)') = Tick(Cardinality(WithOutcome(t, S)), o \in S)
    <3>1. t \in Transitions /\ n \in request[t].targets /\ outcomes[t][n] = "none"
          /\ o \in Outcomes \ {"none"} /\ outcomes' = [outcomes EXCEPT ![t][n] = o]
          /\ UNCHANGED request
      BY <1>a, <1>c
    <3> QED
      BY <3>1, OneMoreOutcome, Zenon
  <2>2. /\ Cardinality(WithOutcome(t, {"succeeded"})')
             = Tick(Cardinality(WithOutcome(t, {"succeeded"})), o \in {"succeeded"})
        /\ Cardinality(WithOutcome(t, {"failed", "canceled"})')
             = Tick(Cardinality(WithOutcome(t, {"failed", "canceled"})), o \in {"failed", "canceled"})
        /\ Cardinality(WithOutcome(t, {"canceled"})')
             = Tick(Cardinality(WithOutcome(t, {"canceled"})), o \in {"canceled"})
    BY <2>1
  <2>3. o \in {"failed", "canceled"} <=> o # "succeeded"
    BY <1>a DEF Outcomes
  <2>4. /\ p.row.success = Cardinality(WithOutcome(t, {"succeeded"}))
        /\ p.row.failure = Cardinality(WithOutcome(t, {"failed", "canceled"}))
        /\ p.canceled = Cardinality(WithOutcome(t, {"canceled"}))
        /\ p.remaining = Cardinality(WithOutcome(t, {"none"}))
        /\ p.remaining \in Int
    BY <1>0, <1>a, <1>c, WithOutcomeFinite DEF FlowInv, ProgressCountsOutcomes
  <2>5. ASSUME NEW u \in Transitions \ {t}, progress'[u].live
        PROVE  /\ progress'[u].row.success = Cardinality(WithOutcome(u, {"succeeded"})')
               /\ progress'[u].row.failure = Cardinality(WithOutcome(u, {"failed", "canceled"})')
               /\ progress'[u].canceled = Cardinality(WithOutcome(u, {"canceled"})')
               /\ progress'[u].remaining = Cardinality(WithOutcome(u, {"none"})')
               /\ progress'[u].remaining > 0
    BY <1>d, <2>1, <2>5 DEF FlowInv, ProgressCountsOutcomes
  <2>6. ASSUME progress'[t].live
        PROVE  /\ progress'[t].row.success = Cardinality(WithOutcome(t, {"succeeded"})')
               /\ progress'[t].row.failure = Cardinality(WithOutcome(t, {"failed", "canceled"})')
               /\ progress'[t].canceled = Cardinality(WithOutcome(t, {"canceled"})')
               /\ progress'[t].remaining = Cardinality(WithOutcome(t, {"none"})')
               /\ progress'[t].remaining > 0
    BY <1>g, <2>1, <2>2, <2>3, <2>4, <2>6 DEF Tick
  <2> QED
    BY <2>5, <2>6, Zenon DEF ProgressCountsOutcomes
<1> QED
  BY <1>1, <1>2, <1>3, <1>4, <1>5 DEF FlowInv

-----------------------------------------------------------------------------
(* The theorems.                                                           *)

LEMMA NextFlowInv ==
    ASSUME TypeInv, FlowInv, [Next]_vars
    PROVE  FlowInv'
<1>1. CASE \E t \in Transitions, targets \in TargetSets, dry \in DryRuns,
              m \in Mappings, r \in Results : StartTransition(t, targets, dry, m, r)
  BY <1>1, StartTransitionFlowInv
<1>2. ASSUME NEW t \in Transitions,
             \/ RegisterProgress(t) \/ EnqueueSend(t) \/ AbortTransition(t)
             \/ \E r \in Results : ReturnTerminal(t, r) \/ PersistAbort(t, r)
      PROVE  FlowInv'
  BY <1>2, RegisterProgressFlowInv, EnqueueSendFlowInv, AbortFlowInv, ReturnTerminalFlowInv
     DEF Results
<1>3. ASSUME NEW w \in Workers,
             \/ Dequeue(w) \/ MarkTransitionRunning(w) \/ RecordTaskOutcome(w)
             \/ \E r \in Results : PersistRunning(w, r) \/ PersistFinal(w, r)
      PROVE  FlowInv'
  BY <1>3, DequeueFlowInv, MarkTransitionRunningFlowInv, RecordTaskOutcomeFlowInv, PersistFlowInv
<1> QED
  BY <1>1, <1>2, <1>3, StepKinds, UnmovedFlowInv

\* FlowInv holds in every state the engine reaches.
LEMMA FlowInvariant == Spec => [](TypeInv /\ FlowInv)
<1>1. Init => TypeInv /\ FlowInv
  BY InitTypeInv, InitFlowInv
<1>2. TypeInv /\ FlowInv /\ [Next]_vars => TypeInv' /\ FlowInv'
  BY NextTypeInv, NextFlowInv
<1> QED
  BY <1>1, <1>2, PTL DEF Spec

\* No task is ever in two places: however calls, workers, aborts, disconnects
\* and failed writes interleave, a node of a transition waits in its
\* StartTransition call, or is in the queue once, or is with one worker, so
\* that no two workers ever act on it.
THEOREM TasksAreInOnePlace == Spec => []TaskInOnePlace
<1>1. FlowInv => TaskInOnePlace
  BY DEF FlowInv
<1> QED
  BY <1>1, FlowInvariant, PTL

\* A task that is still to be counted has its progress entry: neither
\* markTransitionRunning nor recordTaskOutcome finds it gone.
THEOREM OutstandingTasksAreLive == Spec => []OutstandingTaskIsLive
<1>1. TypeInv /\ FlowInv => OutstandingTaskIsLive
  <2> SUFFICES ASSUME TypeInv, FlowInv, NEW t \in Transitions, NEW n \in Nodes,
                      \/ n \in toEnqueue[t]
                      \/ Queued(t, n)
                      \/ \E w \in Workers : task[w] = <<t, n>> /\ pc[w] # "persistFinal"
               PROVE  progress[t].live /\ outcomes[t][n] = "none"
    BY DEF OutstandingTaskIsLive
  <2>1. <<t, n>> # NoTask
    BY ConstantsAssumption
  <2>2. \A w \in Workers : task[w] = <<t, n>> => Busy(w)
    BY <2>1 DEF FlowInv, WorkersBegun
  <2>3. ToCount(t, n)
    <3>1. CASE n \in toEnqueue[t]
      BY <3>1 DEF FlowInv, TasksToCount
    <3>2. CASE Queued(t, n)
      BY <3>2 DEF FlowInv, TasksToCount, Queued
    <3>3. CASE \E w \in Workers : task[w] = <<t, n>> /\ pc[w] # "persistFinal"
      BY <2>2, <3>3 DEF FlowInv, TasksToCount
    <3> QED
      BY <3>1, <3>2, <3>3
  <2> QED
    BY <2>3 DEF ToCount
<1> QED
  BY <1>1, FlowInvariant, PTL

\* The counters of a transition in flight are exactly the outcomes reported
\* so far, whatever writes failed and whichever worker reported last.
THEOREM ProgressIsExact == Spec => []ProgressCountsOutcomes
<1>1. FlowInv => ProgressCountsOutcomes
  BY DEF FlowInv
<1> QED
  BY <1>1, FlowInvariant, PTL

=============================================================================
