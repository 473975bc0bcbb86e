----------------------- MODULE TransitionRunnerProofs -----------------------
(***************************************************************************)
(* Theorems about the transition engine, for any number of transitions,    *)
(* nodes, BMCs, workers, retries and database faults: type correctness,    *)
(* and per-BMC serialisation.                                              *)
(***************************************************************************)
EXTENDS TransitionRunner, TLAPS, FiniteSetTheorems

-----------------------------------------------------------------------------
(* Type correctness.                                                       *)

\* What TypeOK needs to be inductive: a worker that is busy has a task, and
\* one that is completing has an outcome.
WorkerShape ==
    \A w \in Workers :
        /\ Busy(w) => task[w] \in Transitions \X Nodes
        /\ pc[w] \in {"persistTask", "record"} => outcome[w] # "none"

TypeInv == TypeOK /\ WorkerShape

LEMMA InitTypeInv == Init => TypeInv
<1> SUFFICES ASSUME Init PROVE TypeInv
  OBVIOUS
<1> USE ConstantsAssumption
<1>1. NoRow \in Rows
  BY DEF NoRow, Rows, TransitionStates
<1>2. NoProgress \in Progress
  BY <1>1 DEF NoProgress, Progress
<1>3. NoRequest \in Requests
  BY DEF NoRequest, Requests
<1>4. [state |-> "absent", attempts |-> 0] \in TaskRows
  BY DEF TaskRows, TaskStates
<1>5. TypeOK
  <2>1. StoreTypeOK
    BY <1>1, <1>4 DEF Init, StoreTypeOK
  <2>2. EngineTypeOK
    BY <1>2 DEF Init, EngineTypeOK
  <2>3. CallTypeOK
    BY <1>1, <1>3 DEF Init, CallTypeOK, CallPCs
  <2>4. WorkerTypeOK
    BY <1>1 DEF Init, WorkerTypeOK, WorkerPCs, Outcomes
  <2>5. WorldTypeOK
    BY DEF Init, WorldTypeOK, Outcomes
  <2>6. FlagsTypeOK
    BY Zenon DEF Init, FlagsTypeOK
  <2> QED
    BY <2>1, <2>2, <2>3, <2>4, <2>5, <2>6 DEF TypeOK
<1>6. WorkerShape
  BY DEF Init, WorkerShape, Busy
<1> QED
  BY <1>5, <1>6 DEF TypeInv

LEMMA NoRowType == NoRow \in Rows
BY DEF NoRow, Rows, TransitionStates

LEMMA NoProgressType == NoProgress \in Progress
BY NoRowType DEF NoProgress, Progress

LEMMA CountFaultType ==
    ASSUME faults \in 0 .. MaxStoreFaults, NEW r, CountFault(r)
    PROVE  faults' \in 0 .. MaxStoreFaults
BY ConstantsAssumption DEF CountFault

LEMMA UpdateTransitionType ==
    ASSUME StoreTypeOK, NEW t \in Transitions, NEW s \in Rows, NEW r,
           UpdateTransition(t, s, r)
    PROVE  StoreTypeOK'
<1>1. faults' \in 0 .. MaxStoreFaults
  BY CountFaultType DEF StoreTypeOK, UpdateTransition
<1>2. Append(lifecycle[t], s) \in Seq(Rows)
  BY DEF StoreTypeOK
<1> QED
  BY <1>1, <1>2 DEF StoreTypeOK, UpdateTransition, WriteLifecycleEvent

LEMMA UpdateTransitionTaskType ==
    ASSUME StoreTypeOK, NEW t \in Transitions, NEW n \in Nodes, NEW s \in TaskRows,
           NEW r, UpdateTransitionTask(t, n, s, r)
    PROVE  StoreTypeOK'
<1>1. faults' \in 0 .. MaxStoreFaults
  BY CountFaultType DEF StoreTypeOK, UpdateTransitionTask
<1>2. Append(taskResults[t][n], s) \in Seq(TaskRows)
  BY DEF StoreTypeOK
<1> QED
  BY <1>1, <1>2 DEF StoreTypeOK, UpdateTransitionTask, WriteTaskResultEvent

LEMMA MappedFinite ==
    ASSUME NEW targets \in SUBSET Nodes, NEW m
    PROVE  /\ IsFiniteSet(Mapped(targets, m))
           /\ IsFiniteSet(Unmapped(targets, m))
           /\ Cardinality(Mapped(targets, m)) \in Nat
           /\ Cardinality(Unmapped(targets, m)) \in Nat
<1>1. Mapped(targets, m) \subseteq Nodes /\ Unmapped(targets, m) \subseteq Nodes
  BY DEF Mapped, Unmapped
<1> QED
  BY <1>1, ConstantsAssumption, FS_Subset, FS_CardinalityType

LEMMA CreateTransitionType ==
    ASSUME StoreTypeOK, NEW t \in Transitions, NEW targets \in SUBSET Nodes, NEW dry, NEW m, NEW r,
           CreateTransition(t, targets, dry, m, r)
    PROVE  StoreTypeOK'
<1> DEFINE s == NewTransition(targets, dry, m)
<1> DEFINE tasks == [n \in Nodes |-> [state    |-> NewTaskState(n, targets, dry, m),
                                      attempts |-> 0]]
<1>1. s \in Rows
  BY MappedFinite DEF NewTransition, Rows, TransitionStates, FinalStates
<1>2. tasks \in [Nodes -> TaskRows]
  BY DEF NewTaskState, TaskRows, TaskStates, TerminalTaskStates
<1>3. faults' \in 0 .. MaxStoreFaults
  BY CountFaultType DEF StoreTypeOK, CreateTransition
<1>4. Append(lifecycle[t], s) \in Seq(Rows)
  BY <1>1 DEF StoreTypeOK
<1>5. [n \in Nodes |-> IF tasks[n].state \in TerminalTaskStates
                       THEN <<tasks[n]>> ELSE <<>>] \in [Nodes -> Seq(TaskRows)]
  BY <1>2
<1> HIDE DEF s, tasks
<1> QED
  BY <1>1, <1>2, <1>3, <1>4, <1>5
  DEF StoreTypeOK, CreateTransition, InsertTransition, InsertTransitionTasks,
      WriteLifecycleEvent, s, tasks

LEMMA CountedType ==
    ASSUME NEW p \in Progress, NEW o
    PROVE  /\ Counted(p, o) \in Progress
           /\ [Counted(p, o).row EXCEPT !.state = FinalTransitionState(Counted(p, o)),
                                        !.completed = TRUE] \in Rows
<1>1. CountedRow(p.row, o) \in Rows
  BY DEF Tick, CountedRow, Progress, Rows
<1>2. Counted(p, o) \in Progress
  BY <1>1 DEF Counted, Tick, Progress
<1>3. FinalTransitionState(Counted(p, o)) \in TransitionStates
  BY DEF FinalTransitionState, TransitionStates, FinalStates
<1> QED
  BY <1>2, <1>3 DEF Progress, Rows

LEMMA CanceledRowType ==
    ASSUME NEW p \in Progress
    PROVE  [p.row EXCEPT !.state = "canceled"] \in Rows
BY DEF Progress, Rows, TransitionStates, FinalStates

LEMMA StartedRowType ==
    ASSUME NEW p \in Progress
    PROVE  [p.row EXCEPT !.state = "running", !.started = TRUE] \in Rows
BY DEF Progress, Rows, TransitionStates

LEMMA RewrittenProgressType ==
    ASSUME NEW p \in Progress, NEW s \in Rows
    PROVE  /\ [p EXCEPT !.row = s] \in Progress
           /\ [p EXCEPT !.aborted = TRUE, !.row = s] \in Progress
BY DEF Progress

\* A busy worker's task, taken apart.
LEMMA BusyTask ==
    ASSUME WorkerShape, NEW w \in Workers, Busy(w)
    PROVE  /\ task[w] = <<task[w][1], task[w][2]>>
           /\ task[w][1] \in Transitions
           /\ task[w][2] \in Nodes
BY DEF WorkerShape

LEMMA QueueAfterSend ==
    ASSUME EngineTypeOK, Len(queue) < QueueSize, NEW t \in Transitions, NEW n \in Nodes
    PROVE  /\ Append(queue, <<t, n>>) \in Seq(Transitions \X Nodes)
           /\ Len(Append(queue, <<t, n>>)) <= QueueSize
BY ConstantsAssumption DEF EngineTypeOK

LEMMA QueueAfterReceive ==
    ASSUME EngineTypeOK, queue # <<>>
    PROVE  /\ Head(queue) \in Transitions \X Nodes
           /\ Tail(queue) \in Seq(Transitions \X Nodes)
           /\ Len(Tail(queue)) <= QueueSize
BY ConstantsAssumption DEF EngineTypeOK

LEMMA RetireType ==
    ASSUME EngineTypeOK, WorkerTypeOK, NEW w \in Workers, Retire(w)
    PROVE  /\ WorkerTypeOK'
           /\ limiter' \in [BMCs -> Int]
<1>1. WorkerTypeOK'
  BY NoRowType DEF Retire, WorkerTypeOK, WorkerPCs, Outcomes
<1>2. limiter' \in [BMCs -> Int]
  <2>1. CASE w \in holding
    <3> DEFINE b == BmcOf(w)
    <3>1. limiter' = [limiter EXCEPT ![b] = limiter[b] - 1]
      BY <2>1 DEF Retire
    <3> HIDE DEF b
    <3>2. CASE b \in BMCs
      BY <3>1, <3>2 DEF EngineTypeOK
    <3>3. CASE b \notin BMCs
      BY <3>1, <3>3 DEF EngineTypeOK
    <3> QED
      BY <3>2, <3>3
  <2>2. CASE w \notin holding
    BY <2>2 DEF Retire, EngineTypeOK
  <2> QED
    BY <2>1, <2>2
<1> QED
  BY <1>1, <1>2

LEMMA StartTransitionTypeInv ==
    ASSUME TypeInv, NEW t \in Transitions, NEW targets \in TargetSets, NEW dry \in DryRuns,
             NEW m \in Mappings, NEW r \in Results,
           StartTransition(t, targets, dry, m, r)
    PROVE  TypeInv'
<1> USE DEF TypeInv, TypeOK
<1>1. StoreTypeOK'
  BY CreateTransitionType, ConstantsAssumption DEF StartTransition
<1>2. CallTypeOK'
  BY ConstantsAssumption DEF StartTransition, CallTypeOK, CallPCs, Requests
<1>3. WorldTypeOK'
  BY DEF StartTransition, WorldTypeOK, Outcomes
<1>4. EngineTypeOK' /\ FlagsTypeOK' /\ WorkerTypeOK' /\ WorkerShape'
  BY DEF StartTransition, EngineTypeOK, FlagsTypeOK, WorkerTypeOK, WorkerShape, engineVars, workerVars, Busy
<1> QED
  BY <1>1, <1>2, <1>3, <1>4

LEMMA ReturnTerminalTypeInv ==
    ASSUME TypeInv, NEW t \in Transitions, NEW r \in Results,
           ReturnTerminal(t, r)
    PROVE  TypeInv'
<1> USE DEF TypeInv, TypeOK
<1>1. StoreTypeOK'
  BY UpdateTransitionType DEF ReturnTerminal, StoreTypeOK
<1>2. CallTypeOK'
  BY DEF ReturnTerminal, CallTypeOK, CallPCs
<1>3. EngineTypeOK' /\ FlagsTypeOK' /\ WorkerTypeOK' /\ WorldTypeOK' /\ WorkerShape'
  BY DEF ReturnTerminal, EngineTypeOK, FlagsTypeOK, WorkerTypeOK, WorldTypeOK, WorkerShape, engineVars, workerVars, worldVars, Busy
<1> QED
  BY <1>1, <1>2, <1>3

LEMMA RegisterProgressTypeInv ==
    ASSUME TypeInv, NEW t \in Transitions,
           RegisterProgress(t)
    PROVE  TypeInv'
<1> USE DEF TypeInv, TypeOK
<1>1. EngineTypeOK'
  BY MappedFinite DEF RegisterProgress, EngineTypeOK, Progress, CallTypeOK, Requests, StoreTypeOK
<1>2. CallTypeOK'
  BY DEF RegisterProgress, CallTypeOK, CallPCs, Mapped, Requests
<1>3. StoreTypeOK' /\ FlagsTypeOK' /\ WorkerTypeOK' /\ WorldTypeOK' /\ WorkerShape'
  BY DEF RegisterProgress, StoreTypeOK, FlagsTypeOK, WorkerTypeOK, WorldTypeOK, WorkerShape, engineVars, storeVars, workerVars, worldVars, Busy
<1> QED
  BY <1>1, <1>2, <1>3

LEMMA EnqueueCheckTypeInv ==
    ASSUME TypeInv, NEW t \in Transitions,
           EnqueueCheck(t)
    PROVE  TypeInv'
<1> USE DEF TypeInv, TypeOK
<1>1. FlagsTypeOK'
  BY Zenon DEF EnqueueCheck, FlagsTypeOK
<1>2. CallTypeOK'
  BY DEF EnqueueCheck, CallTypeOK, CallPCs
<1>3. StoreTypeOK' /\ EngineTypeOK' /\ WorkerTypeOK' /\ WorldTypeOK' /\ WorkerShape'
  BY DEF EnqueueCheck, StoreTypeOK, EngineTypeOK, WorkerTypeOK, WorldTypeOK, WorkerShape, engineVars, storeVars, workerVars, worldVars, Busy
<1> QED
  BY <1>1, <1>2, <1>3

LEMMA EnqueueSendTypeInv ==
    ASSUME TypeInv, NEW t \in Transitions,
           EnqueueSend(t)
    PROVE  TypeInv'
<1> USE DEF TypeInv, TypeOK
<1>1. EngineTypeOK'
  BY QueueAfterSend DEF EnqueueSend, EngineTypeOK, CallTypeOK
<1>2. CallTypeOK'
  BY DEF EnqueueSend, CallTypeOK, CallPCs
<1>3. StoreTypeOK' /\ FlagsTypeOK' /\ WorkerTypeOK' /\ WorldTypeOK' /\ WorkerShape'
  BY DEF EnqueueSend, StoreTypeOK, FlagsTypeOK, WorkerTypeOK, WorldTypeOK, WorkerShape, engineVars, storeVars, workerVars, worldVars, Busy
<1> QED
  BY <1>1, <1>2, <1>3

LEMMA EnqueuePanicTypeInv ==
    ASSUME TypeInv, NEW t \in Transitions,
           EnqueuePanic(t)
    PROVE  TypeInv'
<1> USE DEF TypeInv, TypeOK
<1>1. CallTypeOK'
  BY DEF EnqueuePanic, CallTypeOK, CallPCs
<1>2. StoreTypeOK' /\ EngineTypeOK' /\ FlagsTypeOK' /\ WorkerTypeOK' /\ WorldTypeOK' /\ WorkerShape'
  BY DEF EnqueuePanic, StoreTypeOK, EngineTypeOK, FlagsTypeOK, WorkerTypeOK, WorldTypeOK, WorkerShape, engineVars, storeVars, workerVars, worldVars, Busy
<1> QED
  BY <1>1, <1>2

LEMMA EnqueueCanceledTypeInv ==
    ASSUME TypeInv, NEW t \in Transitions,
           EnqueueCanceled(t)
    PROVE  TypeInv'
<1> USE DEF TypeInv, TypeOK
<1>1. FlagsTypeOK'
  BY Zenon DEF EnqueueCanceled, FlagsTypeOK
<1>2. CallTypeOK'
  BY DEF EnqueueCanceled, CallTypeOK, CallPCs
<1>3. StoreTypeOK' /\ EngineTypeOK' /\ WorkerTypeOK' /\ WorldTypeOK' /\ WorkerShape'
  BY DEF EnqueueCanceled, StoreTypeOK, EngineTypeOK, WorkerTypeOK, WorldTypeOK, WorkerShape, engineVars, storeVars, workerVars, worldVars, Busy
<1> QED
  BY <1>1, <1>2, <1>3

LEMMA AbortTransitionTypeInv ==
    ASSUME TypeInv, NEW t \in Transitions,
           AbortTransition(t)
    PROVE  TypeInv'
<1> USE DEF TypeInv, TypeOK
<1>1. EngineTypeOK'
  BY CanceledRowType, RewrittenProgressType DEF AbortTransition, EngineTypeOK
<1>2. FlagsTypeOK'
  BY Zenon DEF AbortTransition, FlagsTypeOK
<1>3. CallTypeOK'
  BY CanceledRowType DEF AbortTransition, CallTypeOK, EngineTypeOK
<1>4. StoreTypeOK' /\ WorkerTypeOK' /\ WorldTypeOK' /\ WorkerShape'
  BY DEF AbortTransition, StoreTypeOK, WorkerTypeOK, WorldTypeOK, WorkerShape, storeVars, workerVars, worldVars, Busy
<1> QED
  BY <1>1, <1>2, <1>3, <1>4

LEMMA PersistAbortTypeInv ==
    ASSUME TypeInv, NEW t \in Transitions, NEW r \in Results,
           PersistAbort(t, r)
    PROVE  TypeInv'
<1> USE DEF TypeInv, TypeOK
<1>1. StoreTypeOK'
  BY UpdateTransitionType DEF PersistAbort, StoreTypeOK, CallTypeOK
<1>2. CallTypeOK'
  BY NoRowType DEF PersistAbort, CallTypeOK, CallPCs
<1>3. EngineTypeOK' /\ FlagsTypeOK' /\ WorkerTypeOK' /\ WorldTypeOK' /\ WorkerShape'
  BY DEF PersistAbort, EngineTypeOK, FlagsTypeOK, WorkerTypeOK, WorldTypeOK, WorkerShape, engineVars, workerVars, worldVars, Busy
<1> QED
  BY <1>1, <1>2, <1>3

LEMMA ShutdownTypeInv ==
    ASSUME TypeInv, Shutdown
    PROVE  TypeInv'
<1> USE DEF TypeInv, TypeOK
<1>1. FlagsTypeOK'
  BY Zenon DEF Shutdown, FlagsTypeOK
<1>2. StoreTypeOK' /\ EngineTypeOK' /\ CallTypeOK' /\ WorkerTypeOK' /\ WorldTypeOK' /\ WorkerShape'
  BY DEF Shutdown, StoreTypeOK, EngineTypeOK, CallTypeOK, WorkerTypeOK, WorldTypeOK, WorkerShape, callVars, engineVars, storeVars, workerVars, worldVars, Busy
<1> QED
  BY <1>1, <1>2

LEMMA CloseQueueTypeInv ==
    ASSUME TypeInv, CloseQueue
    PROVE  TypeInv'
<1> USE DEF TypeInv, TypeOK
<1>1. FlagsTypeOK'
  BY Zenon DEF CloseQueue, FlagsTypeOK
<1>2. StoreTypeOK' /\ EngineTypeOK' /\ CallTypeOK' /\ WorkerTypeOK' /\ WorldTypeOK' /\ WorkerShape'
  BY DEF CloseQueue, StoreTypeOK, EngineTypeOK, CallTypeOK, WorkerTypeOK, WorldTypeOK, WorkerShape, callVars, engineVars, storeVars, workerVars, worldVars, Busy
<1> QED
  BY <1>1, <1>2

LEMMA DequeueTypeInv ==
    ASSUME TypeInv, NEW w \in Workers,
           Dequeue(w)
    PROVE  TypeInv'
<1> USE DEF TypeInv, TypeOK
<1>1. EngineTypeOK'
  BY QueueAfterReceive DEF Dequeue, EngineTypeOK
<1>2. WorkerTypeOK'
  BY DEF Dequeue, WorkerTypeOK, WorkerPCs, Outcomes, Complete, EngineTypeOK
<1>3. WorkerShape'
  BY DEF Dequeue, WorkerShape, Busy, WorkerTypeOK, Complete, WorkerPCs, Outcomes, EngineTypeOK
<1>4. StoreTypeOK' /\ FlagsTypeOK' /\ CallTypeOK' /\ WorldTypeOK'
  BY DEF Dequeue, StoreTypeOK, FlagsTypeOK, CallTypeOK, WorldTypeOK, callVars, engineVars, storeVars, worldVars
<1> QED
  BY <1>1, <1>2, <1>3, <1>4

LEMMA WorkerExitTypeInv ==
    ASSUME TypeInv, NEW w \in Workers,
           WorkerExit(w)
    PROVE  TypeInv'
<1> USE DEF TypeInv, TypeOK
<1>1. WorkerTypeOK'
  BY DEF WorkerExit, WorkerTypeOK, WorkerPCs, Outcomes, Complete
<1>2. WorkerShape'
  BY DEF WorkerExit, WorkerShape, Busy, WorkerTypeOK, Complete, WorkerPCs, Outcomes
<1>3. StoreTypeOK' /\ EngineTypeOK' /\ FlagsTypeOK' /\ CallTypeOK' /\ WorldTypeOK'
  BY DEF WorkerExit, StoreTypeOK, EngineTypeOK, FlagsTypeOK, CallTypeOK, WorldTypeOK, callVars, engineVars, storeVars, worldVars
<1> QED
  BY <1>1, <1>2, <1>3

LEMMA MarkTransitionRunningTypeInv ==
    ASSUME TypeInv, NEW w \in Workers,
           MarkTransitionRunning(w)
    PROVE  TypeInv'
<1> USE DEF TypeInv, TypeOK
<1> DEFINE p == progress[task[w][1]]
<1> DEFINE started == [p.row EXCEPT !.state = "running", !.started = TRUE]
<1> DEFINE marked == [p EXCEPT !.row = started]
<1>a. task[w][1] \in Transitions /\ p \in Progress
  BY BusyTask DEF MarkTransitionRunning, Busy, EngineTypeOK
<1>b. started \in Rows
  BY <1>a, StartedRowType
<1>c. marked \in Progress
  BY <1>a, <1>b, RewrittenProgressType
<1>d. \/ Retire(w) /\ UNCHANGED progress
      \/ UNCHANGED <<progress, task, attempt, outcome, snap, holding, limiter>>
         /\ pc' = [pc EXCEPT ![w] = "begin"]
      \/ /\ progress' = [progress EXCEPT ![task[w][1]] = marked]
         /\ snap' = [snap EXCEPT ![w] = started]
         /\ pc' = [pc EXCEPT ![w] = "persistRunning"]
         /\ UNCHANGED <<task, attempt, outcome, holding, limiter>>
  BY Zenon DEF MarkTransitionRunning
<1> HIDE DEF started, marked
<1>1. EngineTypeOK'
  <2>1. progress' \in [Transitions -> Progress]
    BY <1>a, <1>c, <1>d DEF EngineTypeOK
  <2>2. limiter' \in [BMCs -> Int]
    BY <1>d, RetireType DEF EngineTypeOK
  <2>3. UNCHANGED queue
    BY DEF MarkTransitionRunning
  <2> QED
    BY <2>1, <2>2, <2>3 DEF EngineTypeOK
<1>2. WorkerTypeOK'
  BY <1>b, <1>d, RetireType DEF WorkerTypeOK, WorkerPCs
<1>3. WorkerShape'
  BY DEF MarkTransitionRunning, WorkerShape, Busy, WorkerTypeOK, Complete, WorkerPCs, Outcomes, Retire
<1>4. StoreTypeOK' /\ FlagsTypeOK' /\ CallTypeOK' /\ WorldTypeOK'
  BY DEF MarkTransitionRunning, StoreTypeOK, FlagsTypeOK, CallTypeOK, WorldTypeOK, callVars, engineVars, storeVars, worldVars
<1> QED
  BY <1>1, <1>2, <1>3, <1>4

LEMMA PersistRunningTypeInv ==
    ASSUME TypeInv, NEW w \in Workers, NEW r \in Results,
           PersistRunning(w, r)
    PROVE  TypeInv'
<1> USE DEF TypeInv, TypeOK
<1>1. StoreTypeOK'
  BY UpdateTransitionType DEF PersistRunning, StoreTypeOK, WorkerShape, Busy, WorkerTypeOK
<1>2. EngineTypeOK'
  BY DEF PersistRunning, EngineTypeOK, Retire
<1>3. WorkerTypeOK'
  BY NoRowType DEF PersistRunning, WorkerTypeOK, WorkerPCs, Outcomes, Complete, Retire
<1>4. WorkerShape'
  BY DEF PersistRunning, WorkerShape, Busy, WorkerTypeOK, Complete, WorkerPCs, Outcomes, Retire
<1>5. FlagsTypeOK' /\ CallTypeOK' /\ WorldTypeOK'
  BY DEF PersistRunning, FlagsTypeOK, CallTypeOK, WorldTypeOK, callVars, engineVars, worldVars
<1> QED
  BY <1>1, <1>2, <1>3, <1>4, <1>5

LEMMA CancelBeforeStartTypeInv ==
    ASSUME TypeInv, NEW w \in Workers,
           CancelBeforeStart(w)
    PROVE  TypeInv'
<1> USE DEF TypeInv, TypeOK
<1>1. WorkerTypeOK'
  BY DEF CancelBeforeStart, WorkerTypeOK, WorkerPCs, Outcomes, Complete
<1>2. WorkerShape'
  BY DEF CancelBeforeStart, WorkerShape, Busy, WorkerTypeOK, Complete, WorkerPCs, Outcomes
<1>3. StoreTypeOK' /\ EngineTypeOK' /\ FlagsTypeOK' /\ CallTypeOK' /\ WorldTypeOK'
  BY DEF CancelBeforeStart, StoreTypeOK, EngineTypeOK, FlagsTypeOK, CallTypeOK, WorldTypeOK, callVars, engineVars, storeVars, worldVars
<1> QED
  BY <1>1, <1>2, <1>3

LEMMA BeginTaskTypeInv ==
    ASSUME TypeInv, NEW w \in Workers, NEW r \in Results,
           BeginTask(w, r)
    PROVE  TypeInv'
<1> USE DEF TypeInv, TypeOK
<1>1. StoreTypeOK'
  BY UpdateTransitionTaskType DEF BeginTask, StoreTypeOK, WorkerShape, Busy, WorkerTypeOK, TaskRows, TaskStates, TerminalTaskStates, Outcomes
<1>2. WorkerTypeOK'
  BY DEF BeginTask, WorkerTypeOK, WorkerPCs, Outcomes, Complete
<1>3. WorkerShape'
  BY DEF BeginTask, WorkerShape, Busy, WorkerTypeOK, Complete, WorkerPCs, Outcomes
<1>4. EngineTypeOK' /\ FlagsTypeOK' /\ CallTypeOK' /\ WorldTypeOK'
  BY DEF BeginTask, EngineTypeOK, FlagsTypeOK, CallTypeOK, WorldTypeOK, callVars, engineVars, worldVars
<1> QED
  BY <1>1, <1>2, <1>3, <1>4

LEMMA AcquireBMCLimiterTypeInv ==
    ASSUME TypeInv, NEW w \in Workers,
           AcquireBMCLimiter(w)
    PROVE  TypeInv'
<1> USE DEF TypeInv, TypeOK
<1>1. EngineTypeOK'
  BY DEF AcquireBMCLimiter, EngineTypeOK, engineVars
<1>2. WorkerTypeOK'
  BY DEF AcquireBMCLimiter, WorkerTypeOK, WorkerPCs, Outcomes, Complete
<1>3. WorkerShape'
  BY DEF AcquireBMCLimiter, WorkerShape, Busy, WorkerTypeOK, Complete, WorkerPCs, Outcomes
<1>4. StoreTypeOK' /\ FlagsTypeOK' /\ CallTypeOK' /\ WorldTypeOK'
  BY DEF AcquireBMCLimiter, StoreTypeOK, FlagsTypeOK, CallTypeOK, WorldTypeOK, callVars, engineVars, storeVars, worldVars
<1> QED
  BY <1>1, <1>2, <1>3, <1>4

LEMMA ExecuteRefusedTypeInv ==
    ASSUME TypeInv, NEW w \in Workers, NEW class \in ErrorClasses,
           ExecuteRefused(w, class)
    PROVE  TypeInv'
<1> USE DEF TypeInv, TypeOK
<1>1. WorkerTypeOK'
  BY DEF ExecuteRefused, WorkerTypeOK, WorkerPCs, Outcomes, Complete, AttemptFailed
<1>2. WorkerShape'
  BY DEF ExecuteRefused, WorkerShape, Busy, WorkerTypeOK, Complete, WorkerPCs, Outcomes, AttemptFailed
<1>3. StoreTypeOK' /\ EngineTypeOK' /\ FlagsTypeOK' /\ CallTypeOK' /\ WorldTypeOK'
  BY DEF ExecuteRefused, StoreTypeOK, EngineTypeOK, FlagsTypeOK, CallTypeOK, WorldTypeOK, callVars, engineVars, storeVars, worldVars
<1> QED
  BY <1>1, <1>2, <1>3

LEMMA ExecuteSendTypeInv ==
    ASSUME TypeInv, NEW w \in Workers,
           ExecuteSend(w)
    PROVE  TypeInv'
<1> USE DEF TypeInv, TypeOK
<1>1. WorkerTypeOK'
  BY DEF ExecuteSend, WorkerTypeOK, WorkerPCs, Outcomes, Complete
<1>2. WorldTypeOK'
  BY DEF ExecuteSend, WorldTypeOK, WorkerTypeOK, WorkerShape, Busy
<1>3. WorkerShape'
  BY DEF ExecuteSend, WorkerShape, Busy, WorkerTypeOK, Complete, WorkerPCs, Outcomes
<1>4. StoreTypeOK' /\ EngineTypeOK' /\ FlagsTypeOK' /\ CallTypeOK'
  BY DEF ExecuteSend, StoreTypeOK, EngineTypeOK, FlagsTypeOK, CallTypeOK, callVars, engineVars, storeVars
<1> QED
  BY <1>1, <1>2, <1>3, <1>4

LEMMA ExecuteAnswerTypeInv ==
    ASSUME TypeInv, NEW w \in Workers,
           ExecuteAnswer(w)
    PROVE  TypeInv'
<1> USE DEF TypeInv, TypeOK
<1>1. WorkerTypeOK'
  BY DEF ExecuteAnswer, WorkerTypeOK, WorkerPCs, Outcomes, Complete, AttemptFailed
<1>2. WorkerShape'
  BY DEF ExecuteAnswer, WorkerShape, Busy, WorkerTypeOK, Complete, WorkerPCs, Outcomes, AttemptFailed
<1>3. StoreTypeOK' /\ EngineTypeOK' /\ FlagsTypeOK' /\ CallTypeOK' /\ WorldTypeOK'
  BY DEF ExecuteAnswer, StoreTypeOK, EngineTypeOK, FlagsTypeOK, CallTypeOK, WorldTypeOK, callVars, engineVars, storeVars, worldVars
<1> QED
  BY <1>1, <1>2, <1>3

LEMMA BackoffTypeInv ==
    ASSUME TypeInv, NEW w \in Workers,
           Backoff(w)
    PROVE  TypeInv'
<1> USE DEF TypeInv, TypeOK
<1>1. WorkerTypeOK'
  BY DEF Backoff, WorkerTypeOK, WorkerPCs, Outcomes, Complete
<1>2. WorkerShape'
  BY DEF Backoff, WorkerShape, Busy, WorkerTypeOK, Complete, WorkerPCs, Outcomes
<1>3. StoreTypeOK' /\ EngineTypeOK' /\ FlagsTypeOK' /\ CallTypeOK' /\ WorldTypeOK'
  BY DEF Backoff, StoreTypeOK, EngineTypeOK, FlagsTypeOK, CallTypeOK, WorldTypeOK, callVars, engineVars, storeVars, worldVars
<1> QED
  BY <1>1, <1>2, <1>3

LEMMA VerifyTypeInv ==
    ASSUME TypeInv, NEW w \in Workers,
           Verify(w)
    PROVE  TypeInv'
<1> USE DEF TypeInv, TypeOK
<1>1. WorkerTypeOK'
  BY DEF Verify, WorkerTypeOK, WorkerPCs, Outcomes, Complete
<1>2. WorkerShape'
  BY DEF Verify, WorkerShape, Busy, WorkerTypeOK, Complete, WorkerPCs, Outcomes
<1>3. StoreTypeOK' /\ EngineTypeOK' /\ FlagsTypeOK' /\ CallTypeOK' /\ WorldTypeOK'
  BY DEF Verify, StoreTypeOK, EngineTypeOK, FlagsTypeOK, CallTypeOK, WorldTypeOK, callVars, engineVars, storeVars, worldVars
<1> QED
  BY <1>1, <1>2, <1>3

LEMMA UpdateNodePowerStateTypeInv ==
    ASSUME TypeInv, NEW w \in Workers,
           UpdateNodePowerState(w)
    PROVE  TypeInv'
<1> USE DEF TypeInv, TypeOK
<1>1. WorkerTypeOK'
  BY DEF UpdateNodePowerState, WorkerTypeOK, WorkerPCs, Outcomes, Complete
<1>2. WorldTypeOK'
  BY DEF UpdateNodePowerState, WorldTypeOK, WorkerTypeOK, WorkerShape, Busy
<1>3. WorkerShape'
  BY DEF UpdateNodePowerState, WorkerShape, Busy, WorkerTypeOK, Complete, WorkerPCs, Outcomes
<1>4. StoreTypeOK' /\ EngineTypeOK' /\ FlagsTypeOK' /\ CallTypeOK'
  BY DEF UpdateNodePowerState, StoreTypeOK, EngineTypeOK, FlagsTypeOK, CallTypeOK, callVars, engineVars, storeVars
<1> QED
  BY <1>1, <1>2, <1>3, <1>4

LEMMA PersistTaskTypeInv ==
    ASSUME TypeInv, NEW w \in Workers, NEW r \in Results,
           PersistTask(w, r)
    PROVE  TypeInv'
<1> USE DEF TypeInv, TypeOK
<1>1. StoreTypeOK'
  BY UpdateTransitionTaskType DEF PersistTask, StoreTypeOK, WorkerShape, Busy, WorkerTypeOK, TaskRows, TaskStates, TerminalTaskStates, Outcomes
<1>2. WorkerTypeOK'
  BY DEF PersistTask, WorkerTypeOK, WorkerPCs, Outcomes, Complete
<1>3. WorkerShape'
  BY DEF PersistTask, WorkerShape, Busy, WorkerTypeOK, Complete, WorkerPCs, Outcomes
<1>4. EngineTypeOK' /\ FlagsTypeOK' /\ CallTypeOK' /\ WorldTypeOK'
  BY DEF PersistTask, EngineTypeOK, FlagsTypeOK, CallTypeOK, WorldTypeOK, callVars, engineVars, worldVars
<1> QED
  BY <1>1, <1>2, <1>3, <1>4

LEMMA RecordTaskOutcomeTypeInv ==
    ASSUME TypeInv, NEW w \in Workers,
           RecordTaskOutcome(w)
    PROVE  TypeInv'
<1> USE DEF TypeInv, TypeOK
<1> DEFINE p == Counted(progress[task[w][1]], outcome[w])
<1> DEFINE final == [p.row EXCEPT !.state = FinalTransitionState(p), !.completed = TRUE]
<1>a. task[w][1] \in Transitions /\ progress[task[w][1]] \in Progress
  BY BusyTask DEF RecordTaskOutcome, Busy, EngineTypeOK
<1>b. p \in Progress /\ final \in Rows
  BY <1>a, CountedType
<1>c. /\ \/ UNCHANGED progress
         \/ progress' = [progress EXCEPT ![task[w][1]] = p]
         \/ progress' = [progress EXCEPT ![task[w][1]] = NoProgress]
      /\ \/ Retire(w)
         \/ /\ snap' = [snap EXCEPT ![w] = final]
            /\ pc' = [pc EXCEPT ![w] = "persistFinal"]
            /\ UNCHANGED <<task, attempt, outcome, holding, limiter>>
  BY Zenon DEF RecordTaskOutcome
<1> HIDE DEF p, final
<1>1. EngineTypeOK'
  BY <1>a, <1>b, <1>c, RetireType, NoProgressType DEF RecordTaskOutcome, EngineTypeOK
<1>2. FlagsTypeOK'
  BY Zenon DEF RecordTaskOutcome, FlagsTypeOK
<1>3. WorkerTypeOK'
  BY <1>b, <1>c, RetireType DEF WorkerTypeOK, WorkerPCs
<1>4. WorldTypeOK'
  <2>1. task[w][1] \in Transitions /\ task[w][2] \in Nodes /\ outcome[w] \in Outcomes
    BY BusyTask DEF RecordTaskOutcome, Busy, WorkerTypeOK
  <2> QED
    BY <2>1 DEF RecordTaskOutcome, WorldTypeOK
<1>5. WorkerShape'
  BY DEF RecordTaskOutcome, WorkerShape, Busy, WorkerTypeOK, Complete, WorkerPCs, Outcomes, Retire
<1>6. StoreTypeOK' /\ CallTypeOK'
  BY DEF RecordTaskOutcome, StoreTypeOK, CallTypeOK, callVars, storeVars
<1> QED
  BY <1>1, <1>2, <1>3, <1>4, <1>5, <1>6

LEMMA PersistFinalTypeInv ==
    ASSUME TypeInv, NEW w \in Workers, NEW r \in Results,
           PersistFinal(w, r)
    PROVE  TypeInv'
<1> USE DEF TypeInv, TypeOK
<1>1. StoreTypeOK'
  BY UpdateTransitionType DEF PersistFinal, StoreTypeOK, WorkerShape, Busy, WorkerTypeOK
<1>2. EngineTypeOK'
  BY RetireType DEF PersistFinal, EngineTypeOK
<1>3. WorkerTypeOK'
  BY NoRowType DEF PersistFinal, WorkerTypeOK, WorkerPCs, Outcomes, Complete, Retire
<1>4. WorkerShape'
  BY DEF PersistFinal, WorkerShape, Busy, WorkerTypeOK, Complete, WorkerPCs, Outcomes, Retire
<1>5. FlagsTypeOK' /\ CallTypeOK' /\ WorldTypeOK'
  BY DEF PersistFinal, FlagsTypeOK, CallTypeOK, WorldTypeOK, callVars, engineVars, worldVars
<1> QED
  BY <1>1, <1>2, <1>3, <1>4, <1>5

-----------------------------------------------------------------------------
\* Every step of the specification keeps the type invariant: one case per
\* action.
LEMMA NextTypeInv == TypeInv /\ [Next]_vars => TypeInv'
<1> SUFFICES ASSUME TypeInv, [Next]_vars PROVE TypeInv'
  OBVIOUS
<1>1. ASSUME NEW t \in Transitions, CallStep(t) PROVE TypeInv'
  BY <1>1, ReturnTerminalTypeInv, RegisterProgressTypeInv, EnqueueCheckTypeInv,
     EnqueueSendTypeInv, EnqueuePanicTypeInv DEF CallStep
<1>2. ASSUME NEW w \in Workers, WorkerStep(w) PROVE TypeInv'
  BY <1>2, DequeueTypeInv, WorkerExitTypeInv, MarkTransitionRunningTypeInv,
     PersistRunningTypeInv, CancelBeforeStartTypeInv, BeginTaskTypeInv,
     AcquireBMCLimiterTypeInv, ExecuteRefusedTypeInv, ExecuteSendTypeInv,
     ExecuteAnswerTypeInv, BackoffTypeInv, VerifyTypeInv,
     UpdateNodePowerStateTypeInv, PersistTaskTypeInv, RecordTaskOutcomeTypeInv,
     PersistFinalTypeInv DEF WorkerStep
<1>3. CASE UNCHANGED vars
  BY <1>3 DEF TypeInv, TypeOK, StoreTypeOK, EngineTypeOK, FlagsTypeOK, CallTypeOK,
              WorkerTypeOK, WorldTypeOK, WorkerShape, Busy, vars, storeVars,
              engineVars, callVars, workerVars, worldVars
<1> QED
  BY <1>1, <1>2, <1>3, StartTransitionTypeInv, EnqueueCanceledTypeInv,
     AbortTransitionTypeInv, PersistAbortTypeInv, ShutdownTypeInv,
     CloseQueueTypeInv DEF Next, Wait

LEMMA TypeInvariant == Spec => []TypeInv
BY InitTypeInv, NextTypeInv, PTL DEF Spec

\* Every variable of the engine keeps its type, and the queue its capacity,
\* for any number of transitions, nodes, BMCs, workers and faults.
THEOREM TypeCorrect == Spec => []TypeOK
<1>1. TypeInv => TypeOK
  BY DEF TypeInv
<1> QED
  BY <1>1, TypeInvariant, PTL

-----------------------------------------------------------------------------
(* Per-BMC serialisation.  BMCLimit is not inductive: it does not say      *)
(* which workers hold a slot when they give one back, nor that the BMC a   *)
(* slot belongs to stays the same while it is held.  SlotInv adds both.    *)

\* Where a worker may hold a slot and where it must: never before
\* acquireBMCLimiter returned one, always until the SMD patch is over.
SlotShape ==
    \A w \in Workers :
        /\ pc[w] \in {"execute", "inflight", "backoff", "verify", "patch"}
              => w \in holding
        /\ pc[w] \in {"idle", "exited", "mark", "persistRunning", "begin", "acquire"}
              => w \notin holding

\* A task belongs to a request that was made, so its BMC never changes.
TasksBegun ==
    /\ \A i \in DOMAIN queue : call[queue[i][1]] # "idle"
    /\ \A w \in Workers : Busy(w) => call[task[w][1]] # "idle"

\* The tokens in a limiter's channel are its holders'.
SlotCount ==
    \A b \in BMCs : /\ limiter[b] = Cardinality(Holders(b))
                    /\ limiter[b] <= PerBMC

SlotInv == SlotShape /\ TasksBegun /\ SlotCount

LEMMA HoldersFinite ==
    ASSUME WorkerTypeOK, NEW b
    PROVE  /\ Holders(b) \subseteq Workers
           /\ IsFiniteSet(Holders(b))
           /\ Cardinality(Holders(b)) \in Nat
<1>1. Holders(b) \subseteq Workers
  BY DEF WorkerTypeOK, Holders
<1> QED
  BY <1>1, ConstantsAssumption, FS_Subset, FS_CardinalityType

LEMMA SlotInvImpliesBMCLimit == TypeInv /\ SlotInv => BMCLimit
<1> SUFFICES ASSUME TypeInv, SlotInv, NEW b \in BMCs
             PROVE  /\ Cardinality(TalkingTo(b)) <= PerBMC
                    /\ TalkingTo(b) \subseteq Holders(b)
                    /\ limiter[b] = Cardinality(Holders(b))
  BY DEF BMCLimit
<1>1. TalkingTo(b) \subseteq Holders(b)
  BY DEF TalkingTo, Holders, SlotInv, SlotShape
<1>2. limiter[b] = Cardinality(Holders(b)) /\ limiter[b] <= PerBMC
  BY DEF SlotInv, SlotCount
<1>3. IsFiniteSet(Holders(b)) /\ Cardinality(Holders(b)) \in Nat
  BY HoldersFinite DEF TypeInv, TypeOK
<1>4. Cardinality(TalkingTo(b)) <= Cardinality(Holders(b)) /\ Cardinality(TalkingTo(b)) \in Nat
  BY <1>1, <1>3, FS_Subset, FS_CardinalityType
<1> QED
  BY <1>1, <1>2, <1>3, <1>4, ConstantsAssumption

LEMMA InitSlotInv == Init => SlotInv
<1> SUFFICES ASSUME Init PROVE SlotInv
  OBVIOUS
<1>1. SlotShape /\ TasksBegun
  BY DEF Init, SlotShape, TasksBegun, Busy
<1>2. SlotCount
  <2> SUFFICES ASSUME NEW b \in BMCs
               PROVE  limiter[b] = Cardinality(Holders(b)) /\ limiter[b] <= PerBMC
    BY DEF SlotCount
  <2>1. Holders(b) = {}
    BY DEF Init, Holders
  <2> QED
    BY <2>1, FS_EmptySet, ConstantsAssumption DEF Init
<1> QED
  BY <1>1, <1>2 DEF SlotInv

-----------------------------------------------------------------------------
(* What happens to the slots in a step.                                    *)

\* A step that takes and returns no slot and leaves the holders' tasks and
\* the requests that were made alone.
LEMMA NoSlotMoves ==
    ASSUME TypeInv, SlotInv, UNCHANGED <<limiter, holding>>,
           \A v \in holding : task'[v] = task[v],
           \A t \in Transitions : call[t] # "idle" => request'[t] = request[t]
    PROVE  SlotCount'
<1> SUFFICES ASSUME NEW b \in BMCs
             PROVE  limiter'[b] = Cardinality(Holders(b)') /\ limiter'[b] <= PerBMC
  BY DEF SlotCount
<1>1. ASSUME NEW v \in holding PROVE BmcOf(v)' = BmcOf(v)
  <2>1. v \in Workers /\ pc[v] \in WorkerPCs /\ Busy(v)
    BY DEF TypeInv, TypeOK, WorkerTypeOK, SlotInv, SlotShape, Busy
  <2>2. task[v][1] \in Transitions /\ call[task[v][1]] # "idle"
    BY <2>1, BusyTask DEF TypeInv, SlotInv, TasksBegun
  <2> QED
    BY <2>2 DEF BmcOf
<1>2. Holders(b)' = Holders(b)
  BY <1>1 DEF Holders
<1> QED
  BY <1>2 DEF SlotInv, SlotCount

\* A worker's deferred release.
LEMMA SlotReturned ==
    ASSUME TypeInv, SlotInv, NEW w \in Workers, Retire(w), UNCHANGED request
    PROVE  SlotCount'
<1> SUFFICES ASSUME NEW b \in BMCs
             PROVE  limiter'[b] = Cardinality(Holders(b)') /\ limiter'[b] <= PerBMC
  BY DEF SlotCount
<1> USE DEF TypeInv, TypeOK
<1>1. Holders(b)' = Holders(b) \ {w}
  BY DEF Holders, Retire, BmcOf, WorkerTypeOK
<1>2. limiter[b] = Cardinality(Holders(b)) /\ limiter[b] <= PerBMC /\ limiter[b] \in Int
  BY DEF SlotInv, SlotCount, EngineTypeOK
<1>3. CASE w \in Holders(b)
  <2>1. limiter'[b] = limiter[b] - 1
    BY <1>3 DEF Holders, Retire, EngineTypeOK
  <2>2. Cardinality(Holders(b) \ {w}) = Cardinality(Holders(b)) - 1
    BY <1>3, HoldersFinite, FS_RemoveElement
  <2> QED
    BY <1>1, <1>2, <2>1, <2>2, ConstantsAssumption
<1>4. CASE w \notin Holders(b)
  <2>1. limiter'[b] = limiter[b]
    BY <1>4 DEF Holders, Retire, EngineTypeOK
  <2> QED
    BY <1>1, <1>2, <1>4, <2>1
<1> QED
  BY <1>3, <1>4

\* acquireBMCLimiter got a slot.
LEMMA SlotTaken ==
    ASSUME TypeInv, SlotInv, NEW w \in Workers, w \notin holding,
           limiter[BmcOf(w)] < PerBMC,
           limiter' = [limiter EXCEPT ![BmcOf(w)] = @ + 1],
           holding' = holding \cup {w},
           UNCHANGED <<task, request>>
    PROVE  SlotCount'
<1> SUFFICES ASSUME NEW b \in BMCs
             PROVE  limiter'[b] = Cardinality(Holders(b)') /\ limiter'[b] <= PerBMC
  BY DEF SlotCount
<1> USE DEF TypeInv, TypeOK
<1>1. limiter[b] = Cardinality(Holders(b)) /\ limiter[b] <= PerBMC /\ limiter[b] \in Int
  BY DEF SlotInv, SlotCount, EngineTypeOK
<1>2. CASE BmcOf(w) = b
  <2>1. Holders(b)' = Holders(b) \cup {w}
    BY <1>2 DEF Holders, BmcOf
  <2>2. w \notin Holders(b)
    BY DEF Holders
  <2>3. Cardinality(Holders(b) \cup {w}) = Cardinality(Holders(b)) + 1
    BY <2>2, HoldersFinite, FS_AddElement
  <2>4. limiter'[b] = limiter[b] + 1 /\ limiter[b] < PerBMC
    BY <1>2 DEF EngineTypeOK
  <2> QED
    BY <1>1, <2>1, <2>3, <2>4, ConstantsAssumption
<1>3. CASE BmcOf(w) # b
  <2>1. Holders(b)' = Holders(b)
    BY <1>3 DEF Holders, BmcOf
  <2>2. limiter'[b] = limiter[b]
    BY <1>3 DEF EngineTypeOK
  <2> QED
    BY <1>1, <2>1, <2>2
<1> QED
  BY <1>2, <1>3

-----------------------------------------------------------------------------
(* The actions.                                                            *)

LEMMA StartTransitionSlotInv ==
    ASSUME TypeInv, SlotInv, NEW t \in Transitions, NEW targets, NEW dry, NEW m, NEW r \in Results, 
           StartTransition(t, targets, dry, m, r)
    PROVE  SlotInv'
<1> USE DEF SlotInv, TypeInv, TypeOK
<1>1. SlotShape'
  BY DEF StartTransition, SlotShape, engineVars, workerVars
<1>2. TasksBegun'
  BY DEF StartTransition, TasksBegun, Busy, CallTypeOK, engineVars, workerVars
<1>3. SlotCount'
  BY NoSlotMoves DEF StartTransition, CallTypeOK, engineVars, workerVars
<1> QED
  BY <1>1, <1>2, <1>3

LEMMA ReturnTerminalSlotInv ==
    ASSUME TypeInv, SlotInv, NEW t \in Transitions, NEW r \in Results, ReturnTerminal(t, r)
    PROVE  SlotInv'
<1> USE DEF SlotInv, TypeInv, TypeOK
<1>1. SlotShape'
  BY DEF ReturnTerminal, SlotShape, engineVars, workerVars
<1>2. TasksBegun'
  BY DEF ReturnTerminal, TasksBegun, Busy, CallTypeOK, engineVars, workerVars
<1>3. SlotCount'
  BY NoSlotMoves DEF ReturnTerminal, CallTypeOK, engineVars, workerVars
<1> QED
  BY <1>1, <1>2, <1>3

LEMMA RegisterProgressSlotInv ==
    ASSUME TypeInv, SlotInv, NEW t \in Transitions, RegisterProgress(t)
    PROVE  SlotInv'
<1> USE DEF SlotInv, TypeInv, TypeOK
<1>1. SlotShape'
  BY DEF RegisterProgress, SlotShape, workerVars
<1>2. TasksBegun'
  BY DEF RegisterProgress, TasksBegun, Busy, CallTypeOK, workerVars
<1>3. SlotCount'
  BY NoSlotMoves DEF RegisterProgress, CallTypeOK, workerVars
<1> QED
  BY <1>1, <1>2, <1>3

LEMMA EnqueueCheckSlotInv ==
    ASSUME TypeInv, SlotInv, NEW t \in Transitions, EnqueueCheck(t)
    PROVE  SlotInv'
<1> USE DEF SlotInv, TypeInv, TypeOK
<1>1. SlotShape'
  BY DEF EnqueueCheck, SlotShape, workerVars
<1>2. TasksBegun'
  BY DEF EnqueueCheck, TasksBegun, Busy, CallTypeOK, workerVars
<1>3. SlotCount'
  BY NoSlotMoves DEF EnqueueCheck, CallTypeOK, workerVars
<1> QED
  BY <1>1, <1>2, <1>3

LEMMA EnqueueSendSlotInv ==
    ASSUME TypeInv, SlotInv, NEW t \in Transitions, EnqueueSend(t)
    PROVE  SlotInv'
<1> USE DEF SlotInv, TypeInv, TypeOK
<1>1. SlotShape'
  BY DEF EnqueueSend, SlotShape, workerVars
<1>2. TasksBegun'
  BY DEF EnqueueSend, TasksBegun, Busy, CallTypeOK, workerVars
<1>3. SlotCount'
  BY NoSlotMoves DEF EnqueueSend, CallTypeOK, workerVars
<1> QED
  BY <1>1, <1>2, <1>3

LEMMA EnqueuePanicSlotInv ==
    ASSUME TypeInv, SlotInv, NEW t \in Transitions, EnqueuePanic(t)
    PROVE  SlotInv'
<1> USE DEF SlotInv, TypeInv, TypeOK
<1>1. SlotShape'
  BY DEF EnqueuePanic, SlotShape, engineVars, workerVars
<1>2. TasksBegun'
  BY DEF EnqueuePanic, TasksBegun, Busy, CallTypeOK, engineVars, workerVars
<1>3. SlotCount'
  BY NoSlotMoves DEF EnqueuePanic, CallTypeOK, engineVars, workerVars
<1> QED
  BY <1>1, <1>2, <1>3

LEMMA EnqueueCanceledSlotInv ==
    ASSUME TypeInv, SlotInv, NEW t \in Transitions, EnqueueCanceled(t)
    PROVE  SlotInv'
<1> USE DEF SlotInv, TypeInv, TypeOK
<1>1. SlotShape'
  BY DEF EnqueueCanceled, SlotShape, engineVars, workerVars
<1>2. TasksBegun'
  BY DEF EnqueueCanceled, TasksBegun, Busy, CallTypeOK, engineVars, workerVars
<1>3. SlotCount'
  BY NoSlotMoves DEF EnqueueCanceled, CallTypeOK, engineVars, workerVars
<1> QED
  BY <1>1, <1>2, <1>3

LEMMA AbortTransitionSlotInv ==
    ASSUME TypeInv, SlotInv, NEW t \in Transitions, AbortTransition(t)
    PROVE  SlotInv'
<1> USE DEF SlotInv, TypeInv, TypeOK
<1>1. SlotShape'
  BY DEF AbortTransition, SlotShape, workerVars
<1>2. TasksBegun'
  BY DEF AbortTransition, TasksBegun, Busy, CallTypeOK, workerVars
<1>3. SlotCount'
  BY NoSlotMoves DEF AbortTransition, CallTypeOK, workerVars
<1> QED
  BY <1>1, <1>2, <1>3

LEMMA PersistAbortSlotInv ==
    ASSUME TypeInv, SlotInv, NEW t \in Transitions, NEW r \in Results, PersistAbort(t, r)
    PROVE  SlotInv'
<1> USE DEF SlotInv, TypeInv, TypeOK
<1>1. SlotShape'
  BY DEF PersistAbort, SlotShape, engineVars, workerVars
<1>2. TasksBegun'
  BY DEF PersistAbort, TasksBegun, Busy, CallTypeOK, engineVars, workerVars
<1>3. SlotCount'
  BY NoSlotMoves DEF PersistAbort, CallTypeOK, engineVars, workerVars
<1> QED
  BY <1>1, <1>2, <1>3

LEMMA ShutdownSlotInv ==
    ASSUME TypeInv, SlotInv, Shutdown
    PROVE  SlotInv'
<1> USE DEF SlotInv, TypeInv, TypeOK
<1>1. SlotShape'
  BY DEF Shutdown, SlotShape, callVars, workerVars
<1>2. TasksBegun'
  BY DEF Shutdown, TasksBegun, Busy, CallTypeOK, callVars, workerVars
<1>3. SlotCount'
  BY NoSlotMoves DEF Shutdown, CallTypeOK, callVars, workerVars
<1> QED
  BY <1>1, <1>2, <1>3

LEMMA CloseQueueSlotInv ==
    ASSUME TypeInv, SlotInv, CloseQueue
    PROVE  SlotInv'
<1> USE DEF SlotInv, TypeInv, TypeOK
<1>1. SlotShape'
  BY DEF CloseQueue, SlotShape, callVars, workerVars
<1>2. TasksBegun'
  BY DEF CloseQueue, TasksBegun, Busy, CallTypeOK, callVars, workerVars
<1>3. SlotCount'
  BY NoSlotMoves DEF CloseQueue, CallTypeOK, callVars, workerVars
<1> QED
  BY <1>1, <1>2, <1>3

LEMMA DequeueSlotInv ==
    ASSUME TypeInv, SlotInv, NEW w \in Workers, Dequeue(w)
    PROVE  SlotInv'
<1> USE DEF SlotInv, TypeInv, TypeOK
<1>a. queue # <<>> /\ queue \in Seq(Transitions \X Nodes)
  BY DEF Dequeue, EngineTypeOK
<1>b. /\ Head(queue) = queue[1] /\ 1 \in DOMAIN queue
      /\ \A i \in DOMAIN Tail(queue) : i + 1 \in DOMAIN queue /\ Tail(queue)[i] = queue[i + 1]
  BY <1>a
<1>1. SlotShape'
  BY DEF Dequeue, SlotShape, WorkerTypeOK
<1>2. TasksBegun'
  BY <1>a, <1>b DEF Dequeue, TasksBegun, Busy, WorkerTypeOK, callVars
<1>3. SlotCount'
  BY NoSlotMoves DEF Dequeue, SlotShape, callVars
<1> QED
  BY <1>1, <1>2, <1>3

LEMMA WorkerExitSlotInv ==
    ASSUME TypeInv, SlotInv, NEW w \in Workers, WorkerExit(w)
    PROVE  SlotInv'
<1> USE DEF SlotInv, TypeInv, TypeOK
<1>1. SlotShape'
  BY DEF WorkerExit, SlotShape, WorkerTypeOK, callVars, engineVars
<1>2. TasksBegun'
  BY DEF WorkerExit, TasksBegun, Busy, WorkerTypeOK, callVars, engineVars
<1>3. SlotCount'
  BY NoSlotMoves DEF WorkerExit, callVars, engineVars
<1> QED
  BY <1>1, <1>2, <1>3

LEMMA MarkTransitionRunningSlotInv ==
    ASSUME TypeInv, SlotInv, NEW w \in Workers, MarkTransitionRunning(w)
    PROVE  SlotInv'
<1> USE DEF SlotInv, TypeInv, TypeOK
<1>1. SlotShape'
  BY DEF MarkTransitionRunning, SlotShape, WorkerTypeOK, Retire, callVars
<1>2. TasksBegun'
  BY DEF MarkTransitionRunning, TasksBegun, Busy, WorkerTypeOK, Retire, callVars
<1>3. SlotCount'
  BY NoSlotMoves, SlotReturned DEF MarkTransitionRunning, callVars
<1> QED
  BY <1>1, <1>2, <1>3

LEMMA PersistRunningSlotInv ==
    ASSUME TypeInv, SlotInv, NEW w \in Workers, NEW r \in Results, PersistRunning(w, r)
    PROVE  SlotInv'
<1> USE DEF SlotInv, TypeInv, TypeOK
<1>1. SlotShape'
  BY DEF PersistRunning, SlotShape, WorkerTypeOK, Retire, callVars
<1>2. TasksBegun'
  BY DEF PersistRunning, TasksBegun, Busy, WorkerTypeOK, Retire, callVars
<1>3. SlotCount'
  BY NoSlotMoves, SlotReturned DEF PersistRunning, callVars
<1> QED
  BY <1>1, <1>2, <1>3

LEMMA CancelBeforeStartSlotInv ==
    ASSUME TypeInv, SlotInv, NEW w \in Workers, CancelBeforeStart(w)
    PROVE  SlotInv'
<1> USE DEF SlotInv, TypeInv, TypeOK
<1>1. SlotShape'
  BY DEF CancelBeforeStart, SlotShape, WorkerTypeOK, Complete, callVars, engineVars
<1>2. TasksBegun'
  BY DEF CancelBeforeStart, TasksBegun, Busy, WorkerTypeOK, Complete, callVars, engineVars
<1>3. SlotCount'
  BY NoSlotMoves DEF CancelBeforeStart, callVars, engineVars
<1> QED
  BY <1>1, <1>2, <1>3

LEMMA BeginTaskSlotInv ==
    ASSUME TypeInv, SlotInv, NEW w \in Workers, NEW r \in Results, BeginTask(w, r)
    PROVE  SlotInv'
<1> USE DEF SlotInv, TypeInv, TypeOK
<1>1. SlotShape'
  BY DEF BeginTask, SlotShape, WorkerTypeOK, callVars, engineVars
<1>2. TasksBegun'
  BY DEF BeginTask, TasksBegun, Busy, WorkerTypeOK, callVars, engineVars
<1>3. SlotCount'
  BY NoSlotMoves DEF BeginTask, callVars, engineVars
<1> QED
  BY <1>1, <1>2, <1>3

LEMMA AcquireBMCLimiterSlotInv ==
    ASSUME TypeInv, SlotInv, NEW w \in Workers, AcquireBMCLimiter(w)
    PROVE  SlotInv'
<1> USE DEF SlotInv, TypeInv, TypeOK
<1>1. SlotShape'
  BY DEF AcquireBMCLimiter, SlotShape, WorkerTypeOK, Complete
<1>2. TasksBegun'
  BY DEF AcquireBMCLimiter, TasksBegun, Busy, WorkerTypeOK, Complete, callVars
<1>3. SlotCount'
  BY NoSlotMoves, SlotTaken DEF AcquireBMCLimiter, SlotShape, callVars
<1> QED
  BY <1>1, <1>2, <1>3

LEMMA ExecuteRefusedSlotInv ==
    ASSUME TypeInv, SlotInv, NEW w \in Workers, NEW class \in ErrorClasses, ExecuteRefused(w, class)
    PROVE  SlotInv'
<1> USE DEF SlotInv, TypeInv, TypeOK
<1>1. SlotShape'
  BY DEF ExecuteRefused, SlotShape, WorkerTypeOK, AttemptFailed, Complete, callVars, engineVars
<1>2. TasksBegun'
  BY DEF ExecuteRefused, TasksBegun, Busy, WorkerTypeOK, AttemptFailed, Complete, callVars, engineVars
<1>3. SlotCount'
  BY NoSlotMoves DEF ExecuteRefused, callVars, engineVars
<1> QED
  BY <1>1, <1>2, <1>3

LEMMA ExecuteSendSlotInv ==
    ASSUME TypeInv, SlotInv, NEW w \in Workers, ExecuteSend(w)
    PROVE  SlotInv'
<1> USE DEF SlotInv, TypeInv, TypeOK
<1>1. SlotShape'
  BY DEF ExecuteSend, SlotShape, WorkerTypeOK, callVars, engineVars
<1>2. TasksBegun'
  BY DEF ExecuteSend, TasksBegun, Busy, WorkerTypeOK, callVars, engineVars
<1>3. SlotCount'
  BY NoSlotMoves DEF ExecuteSend, callVars, engineVars
<1> QED
  BY <1>1, <1>2, <1>3

LEMMA ExecuteAnswerSlotInv ==
    ASSUME TypeInv, SlotInv, NEW w \in Workers, ExecuteAnswer(w)
    PROVE  SlotInv'
<1> USE DEF SlotInv, TypeInv, TypeOK
<1>1. SlotShape'
  BY DEF ExecuteAnswer, SlotShape, WorkerTypeOK, AttemptFailed, Complete, callVars, engineVars
<1>2. TasksBegun'
  BY DEF ExecuteAnswer, TasksBegun, Busy, WorkerTypeOK, AttemptFailed, Complete, callVars, engineVars
<1>3. SlotCount'
  BY NoSlotMoves DEF ExecuteAnswer, callVars, engineVars
<1> QED
  BY <1>1, <1>2, <1>3

LEMMA BackoffSlotInv ==
    ASSUME TypeInv, SlotInv, NEW w \in Workers, Backoff(w)
    PROVE  SlotInv'
<1> USE DEF SlotInv, TypeInv, TypeOK
<1>1. SlotShape'
  BY DEF Backoff, SlotShape, WorkerTypeOK, Complete, callVars, engineVars
<1>2. TasksBegun'
  BY DEF Backoff, TasksBegun, Busy, WorkerTypeOK, Complete, callVars, engineVars
<1>3. SlotCount'
  BY NoSlotMoves DEF Backoff, callVars, engineVars
<1> QED
  BY <1>1, <1>2, <1>3

LEMMA VerifySlotInv ==
    ASSUME TypeInv, SlotInv, NEW w \in Workers, Verify(w)
    PROVE  SlotInv'
<1> USE DEF SlotInv, TypeInv, TypeOK
<1>1. SlotShape'
  BY DEF Verify, SlotShape, WorkerTypeOK, Complete, callVars, engineVars
<1>2. TasksBegun'
  BY DEF Verify, TasksBegun, Busy, WorkerTypeOK, Complete, callVars, engineVars
<1>3. SlotCount'
  BY NoSlotMoves DEF Verify, callVars, engineVars
<1> QED
  BY <1>1, <1>2, <1>3

LEMMA UpdateNodePowerStateSlotInv ==
    ASSUME TypeInv, SlotInv, NEW w \in Workers, UpdateNodePowerState(w)
    PROVE  SlotInv'
<1> USE DEF SlotInv, TypeInv, TypeOK
<1>1. SlotShape'
  BY DEF UpdateNodePowerState, SlotShape, WorkerTypeOK, Complete, callVars, engineVars
<1>2. TasksBegun'
  BY DEF UpdateNodePowerState, TasksBegun, Busy, WorkerTypeOK, Complete, callVars, engineVars
<1>3. SlotCount'
  BY NoSlotMoves DEF UpdateNodePowerState, callVars, engineVars
<1> QED
  BY <1>1, <1>2, <1>3

LEMMA PersistTaskSlotInv ==
    ASSUME TypeInv, SlotInv, NEW w \in Workers, NEW r \in Results, PersistTask(w, r)
    PROVE  SlotInv'
<1> USE DEF SlotInv, TypeInv, TypeOK
<1>1. SlotShape'
  BY DEF PersistTask, SlotShape, WorkerTypeOK, callVars, engineVars
<1>2. TasksBegun'
  BY DEF PersistTask, TasksBegun, Busy, WorkerTypeOK, callVars, engineVars
<1>3. SlotCount'
  BY NoSlotMoves DEF PersistTask, callVars, engineVars
<1> QED
  BY <1>1, <1>2, <1>3

LEMMA RecordTaskOutcomeSlotInv ==
    ASSUME TypeInv, SlotInv, NEW w \in Workers, RecordTaskOutcome(w)
    PROVE  SlotInv'
<1> USE DEF SlotInv, TypeInv, TypeOK
<1>1. SlotShape'
  BY DEF RecordTaskOutcome, SlotShape, WorkerTypeOK, Retire, callVars
<1>2. TasksBegun'
  BY DEF RecordTaskOutcome, TasksBegun, Busy, WorkerTypeOK, Retire, callVars
<1>3. SlotCount'
  BY NoSlotMoves, SlotReturned DEF RecordTaskOutcome, callVars
<1> QED
  BY <1>1, <1>2, <1>3

LEMMA PersistFinalSlotInv ==
    ASSUME TypeInv, SlotInv, NEW w \in Workers, NEW r \in Results, PersistFinal(w, r)
    PROVE  SlotInv'
<1> USE DEF SlotInv, TypeInv, TypeOK
<1>1. SlotShape'
  BY DEF PersistFinal, SlotShape, WorkerTypeOK, Retire, callVars
<1>2. TasksBegun'
  BY DEF PersistFinal, TasksBegun, Busy, WorkerTypeOK, Retire, callVars
<1>3. SlotCount'
  BY NoSlotMoves, SlotReturned DEF PersistFinal, callVars
<1> QED
  BY <1>1, <1>2, <1>3

-----------------------------------------------------------------------------
LEMMA NextSlotInv == TypeInv /\ SlotInv /\ [Next]_vars => SlotInv'
<1> SUFFICES ASSUME TypeInv, SlotInv, [Next]_vars PROVE SlotInv'
  OBVIOUS
<1>1. ASSUME NEW t \in Transitions, CallStep(t) PROVE SlotInv'
  BY <1>1, ReturnTerminalSlotInv, RegisterProgressSlotInv, EnqueueCheckSlotInv,
     EnqueueSendSlotInv, EnqueuePanicSlotInv DEF CallStep
<1>2. ASSUME NEW w \in Workers, WorkerStep(w) PROVE SlotInv'
  BY <1>2, DequeueSlotInv, WorkerExitSlotInv, MarkTransitionRunningSlotInv,
     PersistRunningSlotInv, CancelBeforeStartSlotInv, BeginTaskSlotInv,
     AcquireBMCLimiterSlotInv, ExecuteRefusedSlotInv, ExecuteSendSlotInv,
     ExecuteAnswerSlotInv, BackoffSlotInv, VerifySlotInv,
     UpdateNodePowerStateSlotInv, PersistTaskSlotInv, RecordTaskOutcomeSlotInv,
     PersistFinalSlotInv DEF WorkerStep
<1>3. CASE UNCHANGED vars
  BY <1>3 DEF SlotInv, SlotShape, TasksBegun, SlotCount, Holders, BmcOf, Busy, vars,
              engineVars, callVars, workerVars
<1> QED
  BY <1>1, <1>2, <1>3, StartTransitionSlotInv, EnqueueCanceledSlotInv,
     AbortTransitionSlotInv, PersistAbortSlotInv, ShutdownSlotInv,
     CloseQueueSlotInv DEF Next, Wait

LEMMA SlotInvariant == Spec => []SlotInv
BY InitSlotInv, NextSlotInv, TypeInvariant, PTL DEF Spec

\* No BMC ever has more than perBMCConcurrency tasks between acquiring its
\* slot and the end of the SMD patch, and no slot is leaked or doubled.
THEOREM PerBMCLimitHolds == Spec => []BMCLimit
BY SlotInvariant, TypeInvariant, SlotInvImpliesBMCLimit, PTL

=============================================================================
