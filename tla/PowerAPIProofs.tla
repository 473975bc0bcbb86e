--------------------------- MODULE PowerAPIProofs ---------------------------
(***************************************************************************)
(* Theorems about the HTTP API on top of the engine, in a process that may *)
(* die and start again at any moment, for any number of transitions,       *)
(* nodes, workers, faults and deaths.                                      *)
(*                                                                         *)
(* Every step of the API but a death of the process is a step of the       *)
(* engine or leaves it alone, so the engine's invariants are kept by the   *)
(* lemmas that prove them for the engine; what is added is that a death    *)
(* keeps them.  (EndInv it does not keep: an interrupted transition never  *)
(* gets its final row.)                                                    *)
(***************************************************************************)
EXTENDS PowerAPI, TransitionOutcomeProofs

\* The engine's invariants that hold in the API too, where the runner's
\* context is alive as long as the process.
CoreInv ==
    /\ TypeInv
    /\ FlowInv
    /\ RowInv
    /\ EffectInv
    /\ SlotInv
    /\ AbortsCancel
    /\ running

-----------------------------------------------------------------------------
(* Steps of the API that are steps of the engine.                          *)

LEMMA PostIsStart ==
    ASSUME NEW t \in Transitions, HandleAction(t)
    PROVE  /\ \E targets \in TargetSets, dry \in DryRuns, m \in Mappings, r \in Results :
                 StartTransition(t, targets, dry, m, r)
           /\ UNCHANGED <<smd, reader, del, crashes, running>>
<1>1. PICK nodes \in NodeSets[t], groups \in GroupSets[t], members \in Memberships,
           state \in PowerStates, dry \in DryRuns, m \in Mappings, r \in Results :
              PostTransition(t, nodes, groups, members, state, dry, m, r)
  BY DEF HandleAction
<1>2. ResolveTargets(nodes, groups, members) \in TargetSets
  BY APIConstants
<1>3. /\ StartTransition(t, ResolveTargets(nodes, groups, members), dry, m, r)
      /\ UNCHANGED <<smd, reader, del, crashes>>
  BY <1>1 DEF PostTransition
<1>4. UNCHANGED running
  BY <1>3 DEF StartTransition, engineVars
<1> QED
  BY <1>2, <1>3, <1>4

\* Nothing in the API but a death touches the runner's context.
LEMMA ContextLives ==
    ASSUME \/ \E t \in Transitions :
                 CallStep(t) \/ EnqueueCanceled(t) \/ AbortTransition(t) \/ UNCHANGED vars
           \/ \E t \in Transitions, r \in Results : PersistAbort(t, r)
           \/ \E w \in Workers : WorkerStep(w)
    PROVE  UNCHANGED running
<1>1. CASE \E w \in Workers : WorkerStep(w)
  BY ZenonT(60), <1>1 DEF WorkerStep, Dequeue, WorkerExit, MarkTransitionRunning, PersistRunning,
     CancelBeforeStart, BeginTask, AcquireBMCLimiter, ExecuteRefused, ExecuteSend, ExecuteAnswer,
     Backoff, Verify, UpdateNodePowerState, PersistTask, RecordTaskOutcome, PersistFinal, engineVars
<1>2. CASE \/ \E t \in Transitions :
                 CallStep(t) \/ EnqueueCanceled(t) \/ AbortTransition(t) \/ UNCHANGED vars
           \/ \E t \in Transitions, r \in Results : PersistAbort(t, r)
  BY <1>2 DEF CallStep, ReturnTerminal, RegisterProgress, EnqueueCheck, EnqueueSend,
     EnqueuePanic, EnqueueCanceled, AbortTransition, PersistAbort, vars, engineVars
<1> QED
  BY <1>1, <1>2

LEMMA APIStepIsStep ==
    ASSUME [APINext]_allVars, ~Crash
    PROVE  [Next]_vars /\ UNCHANGED running
<1>1. CASE \E t \in Transitions : HandleAction(t)
  BY <1>1, PostIsStart DEF Next
<1>2. CASE \/ \E t \in Transitions : CallStep(t) /\ UNCHANGED apiVars
           \/ \E t \in Transitions : EnqueueCanceled(t) /\ UNCHANGED apiVars
           \/ \E w \in Workers : APIWorkerStep(w)
  BY <1>2, ContextLives DEF APIWorkerStep, Next
<1>3. CASE LoadTransition \/ UNCHANGED allVars
  BY <1>3 DEF LoadTransition, GetTransition, ListTransitionTasks, allVars, vars, engineVars
<1>4. CASE \E t \in Transitions : DeleteTransition(t)
  BY <1>4, ContextLives DEF DeleteTransition, Next
<1>5. CASE \E t \in Transitions, r \in Results : DeletePersist(t, r)
  BY <1>5, ContextLives DEF DeletePersist, Next
<1> QED
  BY <1>1, <1>2, <1>3, <1>4, <1>5 DEF APINext

-----------------------------------------------------------------------------
(* What a death of the process keeps.                                      *)

LEMMA CrashFacts ==
    ASSUME TypeInv, Crash
    PROVE  /\ UNCHANGED <<row, taskRow, lifecycle, taskResults, faults, request,
                          actions, patched, outcomes>>
           /\ queue' = <<>> /\ holding' = {} /\ running'
           /\ \A t \in Transitions :
                 /\ progress'[t] = NoProgress
                 /\ toEnqueue'[t] = {}
                 /\ call'[t] \in CallPCs \ {"created", "check", "send"}
                 /\ call'[t] = call[t] \/ Begun(t)'
                 /\ call'[t] = "idle" <=> call[t] = "idle"
                 /\ abort'[t] \in {"idle", "done"}
                 /\ abort'[t] = "idle" <=> abort[t] = "idle"
           /\ \A w \in Workers : pc'[w] = "idle" /\ task'[w] = NoTask
                                 /\ attempt'[w] = 0 /\ outcome'[w] = "none"
           /\ \A b \in BMCs : limiter'[b] = 0
BY DEF Crash, storeVars, worldVars, TypeInv, TypeOK, CallTypeOK, CallPCs, Begun

LEMMA CrashTypeInv ==
    ASSUME TypeInv, Crash
    PROVE  TypeInv'
<1>1. StoreTypeOK' /\ WorldTypeOK'
  BY DEF Crash, storeVars, worldVars, TypeInv, TypeOK, StoreTypeOK, WorldTypeOK
<1>2. EngineTypeOK'
  <2>1. queue' = <<>> /\ Len(queue') = 0 /\ queue' \in Seq(Transitions \X Nodes)
    BY DEF Crash
  <2>2. progress' \in [Transitions -> Progress] /\ limiter' \in [BMCs -> Int]
    BY NoProgressType DEF Crash
  <2> QED
    BY <2>1, <2>2, ConstantsAssumption DEF EngineTypeOK
<1>6. FlagsTypeOK'
  BY DEF Crash, FlagsTypeOK
<1>3. CallTypeOK'
  BY NoRowType DEF Crash, TypeInv, TypeOK, CallTypeOK, CallPCs
<1>4. WorkerTypeOK'
  BY NoRowType DEF Crash, WorkerTypeOK, WorkerPCs, Outcomes
<1>5. WorkerShape'
  BY DEF Crash, WorkerShape, Busy
<1> QED
  BY <1>1, <1>2, <1>3, <1>4, <1>5, <1>6 DEF TypeInv, TypeOK

LEMMA CrashFlowInv ==
    ASSUME TypeInv, FlowInv, Crash
    PROVE  FlowInv'
<1>1. WorkersBegun'
  BY CrashFacts DEF WorkersBegun, Busy
<1>2. TaskInOnePlace'
  BY CrashFacts DEF TaskInOnePlace, Queued, Held
<1>3. TasksToCount'
  BY CrashFacts DEF TasksToCount, Busy
<1>4. CallsNotBegun'
  BY CrashFacts DEF FlowInv, CallsNotBegun, Begun, NoProgress
<1>5. EntriesOfMapped' /\ ProgressCountsOutcomes'
  BY CrashFacts DEF FlowInv, EntriesOfMapped, ProgressCountsOutcomes, NoProgress
<1> QED
  BY <1>1, <1>2, <1>3, <1>4, <1>5 DEF FlowInv

LEMMA CrashRowInv ==
    ASSUME TypeInv, RowInv, Crash
    PROVE  RowInv'
<1>1. RowsOpen'
  BY CrashFacts DEF RowInv, RowsOpen, RowOpen, NoProgress
<1>2. SnapshotsTrue' /\ OneFinalWrite'
  BY CrashFacts DEF SnapshotsTrue, OneFinalWrite, Busy
<1> QED
  BY <1>1, <1>2 DEF RowInv

LEMMA CrashEffectInv ==
    ASSUME TypeInv, EffectInv, running, Crash
    PROVE  EffectInv'
<1>1. NothingBeforeBegun' /\ WaitingUntouched'
  BY CrashFacts DEF EffectInv, NothingBeforeBegun, WaitingUntouched, Begun, Queued
<1>2. TasksTrue'
  <2>1. StaysUnhealthy /\ patched \subseteq patched'
    BY CrashFacts, Zenon DEF StaysUnhealthy, Healthy
  <2>2. \A t \in Transitions, n \in Nodes : SameTask(t, n)
    BY CrashFacts DEF SameTask
  <2> QED
    BY <2>1, <2>2, SameTaskTrue DEF EffectInv, TasksTrue
<1>3. WorkersTrue'
  BY CrashFacts DEF WorkersTrue, Busy
<1> QED
  BY <1>1, <1>2, <1>3 DEF EffectInv

LEMMA CrashSlotInv ==
    ASSUME TypeInv, Crash
    PROVE  SlotInv'
<1>1. SlotShape' /\ TasksBegun'
  BY CrashFacts DEF SlotShape, TasksBegun, Busy
<1>2. \A b : Cardinality(Holders(b))' = 0
  BY CrashFacts, FS_EmptySet DEF Holders
<1>3. SlotCount'
  BY <1>2, CrashFacts, ConstantsAssumption DEF SlotCount
<1> QED
  BY <1>1, <1>3 DEF SlotInv

LEMMA NextCoreInv ==
    ASSUME CoreInv, [APINext]_allVars
    PROVE  CoreInv'
<1>1. CASE Crash
  <2>1. AbortsCancel' /\ running'
    BY <1>1, CrashFacts DEF CoreInv, AbortsCancel, NoProgress
  <2> QED
    BY <1>1, <2>1, CrashTypeInv, CrashFlowInv, CrashRowInv, CrashEffectInv, CrashSlotInv
       DEF CoreInv
<1>2. CASE ~Crash
  BY <1>2, APIStepIsStep, NextTypeInv, NextFlowInv, NextRowInv, NextEffectInv, NextSlotInv,
     NextAbortsCancel DEF CoreInv
<1> QED
  BY <1>1, <1>2

LEMMA CoreInvariant == APISpec => []CoreInv
<1>1. APIInit => CoreInv
  <2> SUFFICES ASSUME APIInit PROVE CoreInv
    OBVIOUS
  <2>1. Init
    BY DEF APIInit
  <2>2. AbortsCancel /\ running
    BY <2>1 DEF Init, AbortsCancel
  <2> QED
    BY <2>1, <2>2, InitTypeInv, InitFlowInv, InitRowInv, InitEffectInv, InitSlotInv DEF CoreInv
<1>2. CoreInv /\ [APINext]_allVars => CoreInv'
  BY NextCoreInv
<1> QED
  BY <1>1, <1>2, PTL DEF APISpec

\* The engine's safety does not depend on a process that lives for ever:
\* with requests, readers and aborts through the API and with deaths and
\* restarts at any moment no BMC has more tasks than its limit, no slot leaks
\* and no task is in two places.
THEOREM SafeAcrossRestarts == APISpec => [](BMCLimit /\ TaskInOnePlace)
<1>1. CoreInv => BMCLimit /\ TaskInOnePlace
  BY SlotInvImpliesBMCLimit DEF CoreInv, FlowInv
<1> QED
  BY <1>1, CoreInvariant, PTL

-----------------------------------------------------------------------------
(* DELETE /transitions/{id}.                                               *)

\* A transition whose DELETE was accepted has begun and, as long as it has
\* its entry, is marked.
AcceptedInv ==
    \A t \in Transitions :
        del[t] = "accepted" => Begun(t) /\ (progress[t].live => abort[t] # "idle")

DelTypeOK == del \in [Transitions -> {"idle", "abort", "early", "accepted"}]

LEMMA NextAcceptedInv ==
    ASSUME CoreInv, DelTypeOK, AcceptedInv, [APINext]_allVars
    PROVE  DelTypeOK' /\ AcceptedInv'
<1>1. CASE Crash
  <2>1. DelTypeOK' /\ \A t \in Transitions : del'[t] = "accepted" => del[t] = "accepted"
    BY <1>1 DEF Crash, DelTypeOK
  <2> QED
    BY <1>1, <2>1, CrashFacts DEF CoreInv, AcceptedInv, Begun, NoProgress
<1>2. CASE ~Crash
  <2>a. [Next]_vars /\ TypeInv
    BY <1>2, APIStepIsStep DEF CoreInv
  <2>1. ASSUME NEW t \in Transitions, NEW r \in Results, DeletePersist(t, r)
        PROVE  DelTypeOK' /\ AcceptedInv'
    <3>1. /\ del' = [del EXCEPT ![t] = IF r = "ok" THEN "accepted" ELSE "idle"]
          /\ abort[t] = "persist" /\ UNCHANGED <<progress, call>>
          /\ abort' = [abort EXCEPT ![t] = "done"]
      BY <2>1 DEF DeletePersist, PersistAbort, engineVars
    <3>2. Begun(t)
      BY <3>1, Zenon DEF CoreInv, FlowInv, CallsNotBegun
    <3> QED
      BY <3>1, <3>2, <2>a DEF DelTypeOK, AcceptedInv, Begun, TypeInv, TypeOK, CallTypeOK
  <2>2. ASSUME NEW t \in Transitions, DeleteTransition(t)
        PROVE  DelTypeOK' /\ AcceptedInv'
    <3>1. PICK d \in {"abort", "early", "accepted"} :
             /\ del' = [del EXCEPT ![t] = d]
             /\ d = "accepted" =>
                   /\ UNCHANGED vars
                   /\ row[t] # NoRow /\ call[t] # "created"
                   /\ ~progress[t].live \/ progress[t].aborted
      BY <2>2 DEF DeleteTransition
    <3>2. ASSUME d = "accepted" PROVE Begun(t)' /\ (progress'[t].live => abort'[t] # "idle")
      <4>1. UNCHANGED <<call, progress, abort>>
        BY <3>1, <3>2 DEF vars, callVars, engineVars
      <4>2. RowOpen(t)
        BY DEF CoreInv, RowInv, RowsOpen
      <4>3. Begun(t) /\ (progress[t].live => abort[t] # "idle")
        BY <3>1, <3>2, <4>2 DEF RowOpen, Begun
      <4> QED
        BY <4>1, <4>3 DEF Begun
    <3>3. \A u \in Transitions :
             del'[u] = "accepted" => del[u] = "accepted" \/ (u = t /\ d = "accepted")
      BY <3>1 DEF DelTypeOK
    <3>4. \A u \in Transitions : del[u] = "accepted" =>
             Begun(u)' /\ (progress'[u].live => abort'[u] # "idle")
      BY <2>a, MarksStay DEF AcceptedInv
    <3>5. DelTypeOK'
      BY <3>1 DEF DelTypeOK
    <3> QED
      BY <3>2, <3>3, <3>4, <3>5 DEF AcceptedInv
  <2>3. CASE UNCHANGED del
    BY <2>3, <2>a, MarksStay DEF DelTypeOK, AcceptedInv
  <2> QED
    BY <1>2, <2>1, <2>2, <2>3, PostIsStart DEF APINext, APIWorkerStep, LoadTransition,
       GetTransition, ListTransitionTasks, apiVars, allVars
<1> QED
  BY <1>1, <1>2

\* A DELETE that was answered with 202 has stopped the transition: however it
\* raced the workers and whenever the process dies and starts again, no
\* further reset action is sent for it.
THEOREM AcceptedDeleteStops == APISpec => AcceptedAbortStops
<1>1. APIInit => DelTypeOK /\ AcceptedInv
  BY DEF APIInit, DelTypeOK, AcceptedInv
<1>2. CoreInv /\ DelTypeOK /\ AcceptedInv /\ [APINext]_allVars => DelTypeOK' /\ AcceptedInv'
  BY NextAcceptedInv
<1>3. CoreInv /\ AcceptedInv /\ [APINext]_allVars =>
        [\A t \in Transitions : actions'[t] # actions[t] => del[t] # "accepted"]_allVars
  <2> SUFFICES ASSUME CoreInv, AcceptedInv, [APINext]_allVars, NEW t \in Transitions,
                      actions'[t] # actions[t], del[t] = "accepted"
               PROVE  FALSE
    OBVIOUS
  <2>1. ~Crash
    BY CrashFacts DEF CoreInv
  <2>2. progress[t].live /\ ~ctxDone[t]
    BY <2>1, APIStepIsStep, ActionsAreOfLive DEF CoreInv
  <2>3. abort[t] # "idle"
    BY <2>2, Zenon DEF AcceptedInv
  <2> QED
    BY <2>2, <2>3, Zenon DEF CoreInv, AbortsCancel
<1> QED
  BY <1>1, <1>2, <1>3, CoreInvariant, PTL DEF APISpec, AcceptedAbortStops

-----------------------------------------------------------------------------
(* GET /transitions/{id}.                                                  *)

\* How many nodes of a transition have been reported as succeeded, and how
\* many as failed or canceled.
Successes(t) == Cardinality(WithOutcome(t, {"succeeded"}))
Failures(t)  == Cardinality(WithOutcome(t, {"failed", "canceled"}))

\* Nothing will be written about a task of the transition any more, because
\* its entry is gone or was never needed; the tasks without an outcome are
\* those of a dry run.
Over(t) ==
    /\ ~progress[t].live
    /\ call[t] # "idle"
    /\ call[t] = "created" => row[t].completed
    /\ \A n \in request[t].targets :
          outcomes[t][n] = "none" => taskRow[t][n].state = "planned"

\* A row, or what was read of it, never runs ahead of the outcomes, and says
\* that the transition is completed only when that is so, with exact counts.
Honest(s, t) ==
    /\ Modest(s, t)
    /\ s.completed => Exact(s, t) /\ Over(t)

\* The reader's copy of a row may be old, so it has to stay honest by itself.
AnswerInv ==
    /\ \A t \in Transitions : call[t] # "idle" => Honest(row[t], t)
    /\ reader # NoReader =>
          /\ reader.id \in Transitions
          /\ reader.success \in Nat /\ reader.failure \in Nat
          /\ call[reader.id] # "idle"
          /\ Honest(reader, reader.id)

\* The outcomes of a transition only grow, and stand still without its entry.
LEMMA OutcomesGrow ==
    ASSUME TypeInv, FlowInv, [Next]_vars, NEW t \in Transitions, call[t] # "idle"
    PROVE  /\ call'[t] # "idle"
           /\ request'[t] = request[t]
           /\ outcomes'[t] = outcomes[t] \/ progress[t].live
           /\ Successes(t) <= Successes(t)'
           /\ Failures(t) <= Failures(t)'
<1>1. Successes(t) \in Nat /\ Failures(t) \in Nat
  BY WithOutcomeFinite DEF Successes, Failures
<1>2. ASSUME request'[t] = request[t], outcomes'[t] = outcomes[t]
      PROVE  Successes(t)' = Successes(t) /\ Failures(t)' = Failures(t)
  BY <1>2 DEF Successes, Failures, WithOutcome
<1>3. ASSUME NEW u \in Transitions, NEW targets \in TargetSets, NEW dry \in DryRuns,
             NEW m \in Mappings, NEW r \in Results, StartTransition(u, targets, dry, m, r)
      PROVE  call'[t] # "idle" /\ request'[t] = request[t] /\ outcomes'[t] = outcomes[t]
  BY <1>3 DEF StartTransition, TypeInv, TypeOK, CallTypeOK, WorldTypeOK
<1>4. CASE \E u \in Transitions :
              \/ RegisterProgress(u) \/ EnqueueSend(u) \/ AbortTransition(u)
              \/ \E r \in Results : ReturnTerminal(u, r) \/ PersistAbort(u, r)
  <2>1. call'[t] # "idle" /\ request'[t] = request[t] /\ outcomes'[t] = outcomes[t]
    BY <1>4 DEF RegisterProgress, EnqueueSend, AbortTransition, ReturnTerminal, PersistAbort,
       worldVars, TypeInv, TypeOK, CallTypeOK
  <2> QED
    BY <1>1, <1>2, <2>1
<1>5. ASSUME NEW w \in Workers, RecordTaskOutcome(w)
      PROVE  /\ call'[t] # "idle" /\ request'[t] = request[t]
             /\ outcomes'[t] = outcomes[t] \/ progress[t].live
             /\ Successes(t) <= Successes(t)' /\ Failures(t) <= Failures(t)'
  <2>1. PICK u, n, o : Records(w, u, n, o)
    BY <1>5, RecordTaskOutcomeRecords
  <2>2. /\ u \in Transitions /\ progress[u].live /\ outcomes[u][n] = "none"
        /\ n \in request[u].targets /\ o \in Outcomes \ {"none"}
        /\ outcomes' = [outcomes EXCEPT ![u][n] = o] /\ UNCHANGED <<request, call>>
    BY <2>1 DEF Records, ToCount
  <2>3. CASE u = t
    <3>1. /\ n \in request[t].targets /\ outcomes[t][n] = "none"
          /\ outcomes' = [outcomes EXCEPT ![t][n] = o] /\ UNCHANGED request
      BY <2>2, <2>3
    <3>2. \A S : "none" \notin S =>
             Cardinality(WithOutcome(t, S)') = Tick(Cardinality(WithOutcome(t, S)), o \in S)
      BY <2>2, <3>1, OneMoreOutcome, Zenon
    <3>3. /\ Successes(t)' = Tick(Successes(t), o \in {"succeeded"})
          /\ Failures(t)' = Tick(Failures(t), o \in {"failed", "canceled"})
      BY <3>2 DEF Successes, Failures
    <3> QED
      BY <1>1, <2>2, <2>3, <3>3 DEF Tick
  <2>4. CASE u # t
    <3>1. outcomes'[t] = outcomes[t]
      BY <2>2, <2>4 DEF TypeInv, TypeOK, WorldTypeOK
    <3> QED
      BY <1>1, <1>2, <2>2, <3>1
  <2> QED
    BY <2>3, <2>4
<1>6. CASE \E w \in Workers :
              \/ Dequeue(w) \/ MarkTransitionRunning(w)
              \/ \E r \in Results : PersistRunning(w, r) \/ PersistFinal(w, r)
  <2>1. call'[t] # "idle" /\ request'[t] = request[t] /\ outcomes'[t] = outcomes[t]
    BY <1>6 DEF Dequeue, MarkTransitionRunning, PersistRunning, PersistFinal, callVars, worldVars
  <2> QED
    BY <1>1, <1>2, <2>1
<1>7. CASE Unmoved
  <2>1. call'[t] # "idle" /\ request'[t] = request[t] /\ outcomes'[t] = outcomes[t]
    BY <1>7 DEF Unmoved
  <2> QED
    BY <1>1, <1>2, <2>1
<1> QED
  BY <1>1, <1>2, <1>3, <1>4, <1>5, <1>6, <1>7, StepKinds

\* Without an entry the task rows of a transition are not written.
LEMMA TaskRowsRest ==
    ASSUME TypeInv, FlowInv, [Next]_vars, NEW t \in Transitions, call[t] # "idle",
           ~progress[t].live
    PROVE  taskRow'[t] = taskRow[t]
<1>1. CASE \E u \in Transitions, targets \in TargetSets, dry \in DryRuns,
              m \in Mappings, r \in Results : StartTransition(u, targets, dry, m, r)
  BY <1>1 DEF StartTransition, CreateTransition, InsertTransitionTasks, TypeInv, TypeOK, StoreTypeOK
<1>2. ASSUME NEW w \in Workers, NEW r \in Results, BeginTask(w, r) \/ PersistTask(w, r)
      PROVE  taskRow'[t] = taskRow[t]
  <2>1. Busy(w) /\ pc[w] # "persistFinal"
    BY <1>2 DEF BeginTask, PersistTask, Busy
  <2>2. PICK u \in Transitions, n \in Nodes : task[w] = <<u, n>>
    BY <2>1, BusyTask DEF TypeInv
  <2>3. task[w][1] = u /\ task[w][2] = n
    BY <2>2
  <2>4. u # t
    BY <2>1, <2>3 DEF FlowInv, TasksToCount, ToCount
  <2>5. PICK s \in {[state |-> "running", attempts |-> 0],
                   [state |-> outcome[w], attempts |-> attempt[w]]} :
                UpdateTransitionTask(task[w][1], task[w][2], s, r)
    BY <1>2, Zenon DEF BeginTask, PersistTask
  <2>6. UpdateTransitionTask(u, n, s, r)
    BY <2>3, <2>5
  <2> QED
    BY <2>4, <2>6 DEF UpdateTransitionTask, TypeInv, TypeOK, StoreTypeOK
<1>3. CASE \E w \in Workers :
              WorkerStep(w) /\ ~ \E r \in Results : BeginTask(w, r) \/ PersistTask(w, r)
  BY <1>3, ZenonT(60) DEF WorkerStep, Dequeue, WorkerExit, MarkTransitionRunning, PersistRunning,
     CancelBeforeStart, AcquireBMCLimiter, ExecuteRefused, ExecuteSend, ExecuteAnswer,
     Backoff, Verify, UpdateNodePowerState, RecordTaskOutcome, PersistFinal, UpdateTransition,
     storeVars
<1>4. CASE \/ \E u \in Transitions : CallStep(u) \/ EnqueueCanceled(u) \/ AbortTransition(u)
           \/ \E u \in Transitions, r \in Results : PersistAbort(u, r)
  BY <1>4 DEF CallStep, ReturnTerminal, RegisterProgress, EnqueueCheck, EnqueueSend,
     EnqueuePanic, EnqueueCanceled, AbortTransition, PersistAbort, UpdateTransition, storeVars
<1>5. CASE Shutdown \/ CloseQueue \/ Wait \/ UNCHANGED vars
  BY <1>5 DEF Shutdown, CloseQueue, Wait, vars, storeVars
<1> QED
  BY <1>1, <1>2, <1>3, <1>4, <1>5 DEF Next

\* What is over stays over, and nothing about it changes.
LEMMA OverStays ==
    ASSUME CoreInv, [Next]_vars, NEW t \in Transitions, Over(t)
    PROVE  /\ Over(t)'
           /\ request'[t] = request[t] /\ outcomes'[t] = outcomes[t] /\ taskRow'[t] = taskRow[t]
<1>1. TypeInv /\ FlowInv /\ FlowInv' /\ ~progress[t].live /\ call[t] # "idle"
  BY NextTypeInv, NextFlowInv DEF CoreInv, Over
<1>2. /\ call'[t] # "idle" /\ request'[t] = request[t]
      /\ outcomes'[t] = outcomes[t] /\ taskRow'[t] = taskRow[t]
  BY <1>1, OutcomesGrow, TaskRowsRest
<1>3. ~progress'[t].live
  BY <1>1, MarksStay DEF Over, RegisterProgress
<1>4. ASSUME call'[t] = "created" PROVE row'[t].completed
  <2>1. call[t] = "created"
    BY <1>1, <1>4, MarksStay DEF Begun
  <2>2. row[t] = NewTransition(request[t].targets, request[t].dry, request[t].bmc)
    BY <1>1, <2>1 DEF FlowInv, CallsNotBegun
  <2>3. row'[t] = NewTransition(request'[t].targets, request'[t].dry, request'[t].bmc)
    BY <1>1, <1>4 DEF FlowInv, CallsNotBegun, NewTransition, Mapped, Unmapped
  <2> QED
    BY <1>2, <2>1, <2>2, <2>3 DEF Over
<1> QED
  BY <1>2, <1>3, <1>4 DEF Over

\* What was honest stays honest, however old it is.
LEMMA HonestStays ==
    ASSUME CoreInv, [Next]_vars, NEW t \in Transitions, call[t] # "idle", NEW s, NEW s1,
           s.success \in Nat, s.failure \in Nat, Honest(s, t),
           s1.success = s.success, s1.failure = s.failure, s1.completed = s.completed
    PROVE  /\ s1.success <= Successes(t)' /\ s1.failure <= Failures(t)'
           /\ s1.completed =>
                 s1.success = Successes(t)' /\ s1.failure = Failures(t)' /\ Over(t)'
<1>1. TypeInv /\ FlowInv
  BY DEF CoreInv
<1>2. s.success <= Successes(t) /\ s.failure <= Failures(t)
  BY DEF Honest, Modest, Successes, Failures
<1>3. /\ Successes(t) \in Nat /\ Failures(t) \in Nat
      /\ Successes(t) <= Successes(t)' /\ Failures(t) <= Failures(t)'
  BY <1>1, OutcomesGrow, WithOutcomeFinite DEF Successes, Failures
<1>4. Successes(t)' \in Nat /\ Failures(t)' \in Nat
  <2>1. TypeInv'
    BY <1>1, NextTypeInv
  <2>2. /\ IsFiniteSet(WithOutcome(t, {"succeeded"})')
        /\ IsFiniteSet(WithOutcome(t, {"failed", "canceled"})')
    <3>1. request'[t].targets \subseteq Nodes
      BY <2>1 DEF TypeInv, TypeOK, CallTypeOK, Requests
    <3>2. /\ WithOutcome(t, {"succeeded"})' \subseteq Nodes
          /\ WithOutcome(t, {"failed", "canceled"})' \subseteq Nodes
      BY <3>1 DEF WithOutcome
    <3> QED
      BY <3>2, ConstantsAssumption, FS_Subset
  <2> QED
    BY <2>2, FS_CardinalityType DEF Successes, Failures
<1>5. ASSUME s1.completed
      PROVE  s1.success = Successes(t)' /\ s1.failure = Failures(t)' /\ Over(t)'
  <2>1. Exact(s, t) /\ Over(t)
    BY <1>5 DEF Honest
  <2>2. Over(t)' /\ request'[t] = request[t] /\ outcomes'[t] = outcomes[t]
    BY <2>1, OverStays
  <2>3. Successes(t)' = Successes(t) /\ Failures(t)' = Failures(t)
    BY <2>2 DEF Successes, Failures, WithOutcome
  <2> QED
    BY <2>1, <2>2, <2>3 DEF Exact, Successes, Failures
<1> QED
  BY <1>2, <1>3, <1>4, <1>5

\* A new row counts its nodes without a mapping; it is completed only when
\* its other nodes, if it has any, are planned.
LEMMA NewRowHonest ==
    ASSUME TypeInv, FlowInv, NEW t \in Transitions, NEW targets \in TargetSets, NEW dry \in DryRuns,
           NEW m \in Mappings, NEW r \in Results, StartTransition(t, targets, dry, m, r),
           row[t] = NoRow
    PROVE  Honest(row[t], t)'
<1>a. /\ request'[t] = [targets |-> targets, dry |-> dry, bmc |-> m]
      /\ outcomes'[t] = [n \in Nodes |-> IF n \in Unmapped(targets, m) THEN "failed" ELSE "none"]
      /\ call[t] = "idle" /\ call'[t] \in {"created", "failed"} /\ UNCHANGED progress
      /\ call'[t] = "created" => r = "ok"
  BY DEF StartTransition, engineVars, TypeInv, TypeOK, CallTypeOK, WorldTypeOK
<1>b. targets \subseteq Nodes /\ Unmapped(targets, m) \subseteq targets
      /\ IsFiniteSet(Unmapped(targets, m)) /\ dry \in BOOLEAN
  BY ConstantsAssumption, FS_Subset DEF Unmapped
<1>c. /\ WithOutcome(t, {"succeeded"})' = {}
      /\ WithOutcome(t, {"failed", "canceled"})' = Unmapped(targets, m)
  BY <1>a, <1>b DEF WithOutcome
<1>d. /\ Cardinality(WithOutcome(t, {"succeeded"})') = 0
      /\ Cardinality(WithOutcome(t, {"failed", "canceled"})') = Cardinality(Unmapped(targets, m))
      /\ Cardinality(Unmapped(targets, m)) \in Nat
  BY <1>b, <1>c, FS_EmptySet, FS_CardinalityType
<1>e. ~progress'[t].live
  BY <1>a DEF FlowInv, CallsNotBegun, Begun
<1>1. CASE ~Commits(r)
  <2>1. row'[t] = NoRow
    BY <1>1 DEF StartTransition, CreateTransition, InsertTransition
  <2>2. row'[t].success = 0 /\ row'[t].failure = 0 /\ ~row'[t].completed
    BY <2>1 DEF NoRow
  <2> QED
    BY <1>d, <2>2 DEF Honest, Modest
<1>2. CASE Commits(r)
  <2> DEFINE s == NewTransition(targets, dry, m)
  <2>1. /\ row'[t] = s
        /\ \A n \in Nodes : taskRow'[t][n].state = NewTaskState(n, targets, dry, m)
    BY <1>2 DEF StartTransition, CreateTransition, InsertTransition, InsertTransitionTasks,
       TypeInv, TypeOK, StoreTypeOK
  <2>2. s.success = 0 /\ s.failure = Cardinality(Unmapped(targets, m))
    BY NewTransitionFields
  <2>3. s.completed => dry \/ Mapped(targets, m) = {}
    BY <1>b, NewRowStates
  <2> HIDE DEF s
  <2>4. ASSUME s.completed, NEW n \in targets, outcomes'[t][n] = "none"
        PROVE  taskRow'[t][n].state = "planned"
    <3>1. n \in Nodes /\ n \notin Unmapped(targets, m) /\ n \in Mapped(targets, m) /\ dry
      BY <1>a, <1>b, <2>3, <2>4 DEF Mapped
    <3>2. NewTaskState(n, targets, dry, m) = "planned"
      BY <1>b, <3>1 DEF NewTaskState
    <3> QED
      BY <2>1, <3>1, <3>2, Zenon
  <2>5. ASSUME s.completed PROVE Over(t)'
    <3>1. request'[t].targets = targets /\ row'[t].completed /\ call'[t] # "idle"
      BY <1>a, <2>1, <2>5
    <3>2. \A n \in request'[t].targets : outcomes'[t][n] = "none" => taskRow'[t][n].state = "planned"
      BY <2>4, <2>5, <3>1
    <3> QED
      BY <1>e, <3>1, <3>2 DEF Over
  <2> QED
    BY <1>d, <2>1, <2>2, <2>5 DEF Honest, Modest, Exact
<1> QED
  BY <1>1, <1>2

\* Of what is written into a row later the "running" and "canceled"
\* snapshots are modest and the final one is exact.
LEMMA WrittenRowHonest ==
    ASSUME CoreInv, NEW t \in Transitions, NEW s, row'[t] = s, call[t] # "idle",
           UNCHANGED <<request, outcomes, progress, call, taskRow>>,
           Modest(s, t) /\ (s.completed => Exact(s, t) /\ Decided(t) /\ ~progress[t].live)
    PROVE  Honest(row[t], t)'
<1>1. s.completed => Over(t)'
  BY DEF Over, Decided
<1> QED
  BY <1>1 DEF Honest, Modest, Exact, WithOutcome

LEMMA NextRowsHonest ==
    ASSUME CoreInv, \A t \in Transitions : call[t] # "idle" => Honest(row[t], t), [Next]_vars,
           NEW t \in Transitions, call'[t] # "idle"
    PROVE  Honest(row[t], t)'
<1>a. TypeInv /\ FlowInv /\ RowInv /\ RowOpen(t)
  BY DEF CoreInv, RowInv, RowsOpen
<1>b. ASSUME call[t] # "idle", row'[t] = row[t] PROVE Honest(row[t], t)'
  <2>1. Honest(row[t], t) /\ row[t].success \in Nat /\ row[t].failure \in Nat
    BY <1>a, <1>b DEF TypeInv, TypeOK, StoreTypeOK, Rows
  <2>2. /\ row'[t].success <= Successes(t)' /\ row'[t].failure <= Failures(t)'
        /\ row'[t].completed =>
              row'[t].success = Successes(t)' /\ row'[t].failure = Failures(t)' /\ Over(t)'
    BY <1>b, <2>1, HonestStays
  <2> QED
    BY <2>2 DEF Honest, Modest, Exact, Successes, Failures
<1>1. ASSUME NEW u \in Transitions, NEW targets \in TargetSets, NEW dry \in DryRuns,
             NEW m \in Mappings, NEW r \in Results, StartTransition(u, targets, dry, m, r)
      PROVE  Honest(row[t], t)'
  <2>1. CASE u = t
    <3>1. row[t] = NoRow /\ StartTransition(t, targets, dry, m, r)
      BY <1>1, <1>a, <2>1 DEF StartTransition, RowOpen
    <3> QED
      BY <1>a, <3>1, NewRowHonest
  <2>2. CASE u # t
    BY <1>1, <1>a, <1>b, <2>2 DEF StartTransition, CreateTransition, InsertTransition,
       TypeInv, TypeOK, CallTypeOK, StoreTypeOK
  <2> QED
    BY <2>1, <2>2
<1>2. ASSUME NEW u \in Transitions, NEW r \in Results, ReturnTerminal(u, r)
      PROVE  Honest(row[t], t)'
  <2>1. row'[t] = row[t]
    BY <1>2, <1>a, UpdateTransitionRow DEF ReturnTerminal
  <2>2. call[t] # "idle"
    BY <1>2, <1>a DEF ReturnTerminal, TypeInv, TypeOK, CallTypeOK
  <2> QED
    BY <1>b, <2>1, <2>2
<1>3. ASSUME NEW u \in Transitions, NEW r \in Results, PersistAbort(u, r)
      PROVE  Honest(row[t], t)'
  <2>1. /\ UpdateTransition(u, abortSnap[u], r) /\ abort[u] = "persist"
        /\ UNCHANGED <<request, outcomes, progress, call, taskRow>>
    BY <1>3 DEF PersistAbort, UpdateTransition, engineVars, worldVars
  <2>2. CASE row'[t] = row[t]
    BY <1>b, <2>1, <2>2
  <2>3. CASE row'[t] # row[t]
    <3>1. u = t /\ row'[t] = abortSnap[t]
      BY <1>a, <2>1, <2>3, UpdateTransitionRow
    <3>2. Modest(abortSnap[t], t) /\ ~abortSnap[t].completed
      BY <1>a, <2>1, <3>1 DEF RowOpen
    <3> QED
      BY <2>1, <3>1, <3>2, WrittenRowHonest
  <2> QED
    BY <2>2, <2>3
<1>4. ASSUME NEW w \in Workers, NEW r \in Results, PersistRunning(w, r) \/ PersistFinal(w, r)
      PROVE  Honest(row[t], t)'
  <2>1. PICK u \in Transitions :
           /\ task[w][1] = u /\ Busy(w)
           /\ \A v \in Transitions \ {u} : SameRow(v)
           /\ row'[u] = row[u] \/ row'[u] = snap[w]
           /\ UNCHANGED <<progress, call, request, outcomes>>
    BY <1>4, <1>a, PersistRow
  <2>2. UNCHANGED taskRow
    BY <1>4 DEF PersistRunning, PersistFinal, UpdateTransition
  <2>3. CASE row'[t] = row[t]
    BY <1>b, <2>1, <2>3
  <2>4. CASE row'[t] # row[t]
    <3>1. u = t /\ row'[t] = snap[w]
      BY <2>1, <2>4 DEF SameRow
    <3>2. SnapshotTrue(w, t) /\ pc[w] \in {"persistRunning", "persistFinal"}
      BY <1>4, <1>a, <2>1, <3>1 DEF RowInv, SnapshotsTrue, PersistRunning, PersistFinal
    <3>3. CASE pc[w] = "persistRunning"
      <4>1. Modest(snap[w], t) /\ ~snap[w].completed
        BY <3>2, <3>3 DEF SnapshotTrue
      <4> QED
        BY <2>1, <2>2, <3>1, <4>1, WrittenRowHonest
    <3>4. CASE pc[w] = "persistFinal"
      <4>1. Exact(snap[w], t) /\ Decided(t) /\ ~progress[t].live
        BY <3>2, <3>4 DEF SnapshotTrue
      <4>2. Modest(snap[w], t)
        BY <1>a, <4>1, WithOutcomeFinite DEF Exact, Modest
      <4> QED
        BY <2>1, <2>2, <3>1, <4>1, <4>2, WrittenRowHonest
    <3> QED
      BY <3>2, <3>3, <3>4
  <2> QED
    BY <2>3, <2>4
<1>5. CASE \/ \E u \in Transitions : RegisterProgress(u) \/ EnqueueSend(u) \/ AbortTransition(u)
           \/ \E w \in Workers : Dequeue(w) \/ MarkTransitionRunning(w) \/ RecordTaskOutcome(w)
           \/ Unmoved
  <2>1. row'[t] = row[t] /\ call[t] # "idle"
    BY <1>5, <1>a DEF RegisterProgress, EnqueueSend, AbortTransition, Dequeue,
       MarkTransitionRunning, RecordTaskOutcome, Unmoved, storeVars, callVars, TypeInv, TypeOK,
       CallTypeOK
  <2> QED
    BY <1>b, <2>1
<1> QED
  BY <1>a, <1>1, <1>2, <1>3, <1>4, <1>5, StepKinds

LEMMA NextAnswerInv ==
    ASSUME CoreInv, AnswerInv, [APINext]_allVars
    PROVE  AnswerInv'
<1>1. CASE Crash
  <2>1. /\ UNCHANGED <<row, taskRow, request, outcomes>> /\ reader' = NoReader
        /\ \A t \in Transitions : /\ ~progress'[t].live
                                  /\ call'[t] # "created"
                                  /\ call'[t] = "idle" <=> call[t] = "idle"
    BY <1>1, CrashFacts DEF Crash, CoreInv, NoProgress
  <2>2. \A t \in Transitions : Over(t) => Over(t)'
    BY <2>1 DEF Over
  <2>3. \A t \in Transitions : Honest(row[t], t) => Honest(row[t], t)'
    BY <2>1, <2>2 DEF Honest, Modest, Exact, WithOutcome
  <2> QED
    BY <2>1, <2>3 DEF AnswerInv
<1>2. CASE ~Crash
  <2>1. [Next]_vars
    BY <1>2, APIStepIsStep
  <2>2. \A t \in Transitions : call'[t] # "idle" => Honest(row[t], t)'
    BY <2>1, NextRowsHonest DEF AnswerInv
  <2>3. ASSUME NEW t \in Transitions, GetTransition(t) PROVE AnswerInv'
    <3>1. /\ UNCHANGED vars /\ row[t] # NoRow
          /\ reader' = [id |-> t, success |-> row[t].success, failure |-> row[t].failure,
                        completed |-> row[t].completed]
      BY <2>3 DEF GetTransition, TransitionResource
    <3>2. call[t] # "idle" /\ row[t].success \in Nat /\ row[t].failure \in Nat
      BY <3>1 DEF CoreInv, RowInv, RowsOpen, RowOpen, TypeInv, TypeOK, StoreTypeOK, Rows
    <3>3. call'[t] # "idle"
      BY <3>1, <3>2 DEF vars, callVars
    <3>4. Honest(row[t], t)' /\ UNCHANGED row
      BY <2>2, <3>1, <3>3 DEF vars, storeVars
    <3>5. Honest(reader, reader.id)'
      BY <3>1, <3>4 DEF Honest, Modest, Exact
    <3> QED
      BY <2>2, <3>1, <3>2, <3>3, <3>5 DEF AnswerInv
  <2>4. CASE reader' = NoReader
    BY <2>2, <2>4 DEF AnswerInv
  <2>5. CASE UNCHANGED reader
    <3> SUFFICES ASSUME reader # NoReader
                 PROVE  call'[reader.id] # "idle" /\ Honest(reader, reader.id)'
      BY <2>2, <2>5 DEF AnswerInv
    <3>1. PICK t \in Transitions : reader.id = t
      BY DEF AnswerInv
    <3>2. /\ call[t] # "idle" /\ reader.success \in Nat /\ reader.failure \in Nat
          /\ Honest(reader, t)
      BY <3>1 DEF AnswerInv
    <3>3. call'[t] # "idle"
      BY <2>1, <3>2, OutcomesGrow DEF CoreInv
    <3>4. /\ reader'.success <= Successes(t)' /\ reader'.failure <= Failures(t)'
          /\ reader'.completed =>
                reader'.success = Successes(t)' /\ reader'.failure = Failures(t)' /\ Over(t)'
      BY <2>1, <2>5, <3>2, HonestStays
    <3>5. Honest(reader, t)'
      BY <3>4 DEF Honest, Modest, Exact, Successes, Failures
    <3> QED
      BY <2>5, <3>1, <3>3, <3>5
  <2> QED
    BY <1>2, <2>3, <2>4, <2>5, PostIsStart DEF APINext, APIWorkerStep, LoadTransition,
       ListTransitionTasks, DeleteTransition, DeletePersist, apiVars, allVars
<1> QED
  BY <1>1, <1>2

\* As long as no transaction has failed, the task rows carry the outcomes.
LEMMA TasksCarryOutcomes ==
    ASSUME CoreInv, faults = 0, NEW t \in Transitions, NEW S
    PROVE  /\ "none" \notin S => WithOutcome(t, S) \subseteq Tasks(t, S)
           /\ Over(t) /\ "planned" \notin S => Tasks(t, S) \subseteq WithOutcome(t, S)
           /\ Over(t) => Tasks(t, TerminalTaskStates) = request[t].targets
           /\ IsFiniteSet(Tasks(t, S))
<1>1. request[t].targets \subseteq Nodes /\ outcomes[t] \in [Nodes -> Outcomes]
  BY DEF CoreInv, TypeInv, TypeOK, CallTypeOK, WorldTypeOK, Requests
<1>2. Healthy
  BY Zenon DEF CoreInv, Healthy
<1>3. \A n \in request[t].targets :
         outcomes[t][n] # "none" => taskRow[t][n].state = outcomes[t][n]
  BY <1>1, <1>2 DEF CoreInv, EffectInv, TasksTrue, TaskTrue
<1>4. Tasks(t, S) \subseteq Nodes
  BY <1>1 DEF Tasks
<1>5. IsFiniteSet(Tasks(t, S))
  BY <1>4, ConstantsAssumption, FS_Subset
<1>6. ASSUME Over(t) PROVE Tasks(t, TerminalTaskStates) = request[t].targets
  BY <1>1, <1>3, <1>6 DEF Over, Tasks, TerminalTaskStates, Outcomes
<1>7. ASSUME Over(t), "planned" \notin S PROVE Tasks(t, S) \subseteq WithOutcome(t, S)
  BY <1>3, <1>7 DEF Over, Tasks, WithOutcome
<1>8. "none" \notin S => WithOutcome(t, S) \subseteq Tasks(t, S)
  BY <1>3 DEF Tasks, WithOutcome
<1> QED
  BY <1>5, <1>6, <1>7, <1>8

\* An answer about a transition, its row and its tasks read by two separate
\* statements, is consistent whatever happens in between: the counters never
\* run ahead of the tasks, and an answer that says completed is exact.
THEOREM AnswersAreConsistent == APISpec => []AnswerIsConsistent
<1>1. APIInit => AnswerInv
  BY DEF APIInit, Init, AnswerInv
<1>2. CoreInv /\ AnswerInv /\ [APINext]_allVars => AnswerInv'
  BY NextAnswerInv
<1>3. CoreInv /\ AnswerInv => AnswerIsConsistent
  <2> SUFFICES ASSUME CoreInv, AnswerInv, reader # NoReader, faults = 0
               PROVE  AnswerIsConsistent
    BY DEF AnswerIsConsistent
  <2>1. PICK t \in Transitions : reader.id = t
    BY DEF AnswerInv
  <2> DEFINE succeeded == Cardinality(Tasks(t, {"succeeded"}))
             failed == Cardinality(Tasks(t, {"failed", "canceled"}))
  <2>2. /\ reader.success \in Nat /\ reader.failure \in Nat
        /\ reader.success <= Successes(t) /\ reader.failure <= Failures(t)
        /\ reader.completed =>
              reader.success = Successes(t) /\ reader.failure = Failures(t) /\ Over(t)
    BY <2>1 DEF AnswerInv, Honest, Modest, Exact, Successes, Failures
  <2>3. /\ WithOutcome(t, {"succeeded"}) \subseteq Tasks(t, {"succeeded"})
        /\ WithOutcome(t, {"failed", "canceled"}) \subseteq Tasks(t, {"failed", "canceled"})
        /\ IsFiniteSet(Tasks(t, {"succeeded"})) /\ IsFiniteSet(Tasks(t, {"failed", "canceled"}))
    BY TasksCarryOutcomes
  <2>4. /\ Successes(t) <= succeeded /\ Failures(t) <= failed
        /\ Successes(t) \in Nat /\ Failures(t) \in Nat /\ succeeded \in Nat /\ failed \in Nat
    BY <2>3, FS_Subset, FS_CardinalityType DEF Successes, Failures
  <2>5. ASSUME reader.completed
        PROVE  /\ Tasks(t, TerminalTaskStates) = request[t].targets
               /\ reader.success = succeeded /\ reader.failure = failed
    <3>1. /\ Tasks(t, {"succeeded"}) \subseteq WithOutcome(t, {"succeeded"})
          /\ Tasks(t, {"failed", "canceled"}) \subseteq WithOutcome(t, {"failed", "canceled"})
          /\ Tasks(t, TerminalTaskStates) = request[t].targets
      BY <2>2, <2>5, TasksCarryOutcomes
    <3>2. /\ Tasks(t, {"succeeded"}) = WithOutcome(t, {"succeeded"})
          /\ Tasks(t, {"failed", "canceled"}) = WithOutcome(t, {"failed", "canceled"})
      BY <2>3, <3>1
    <3> QED
      BY <2>2, <2>5, <3>1, <3>2 DEF Successes, Failures
  <2>6. reader.success <= succeeded /\ reader.failure <= failed
    BY <2>2, <2>4
  <2> QED
    BY <2>1, <2>5, <2>6 DEF AnswerIsConsistent
<1> QED
  BY <1>1, <1>2, <1>3, CoreInvariant, PTL DEF APISpec

-----------------------------------------------------------------------------
(* GET /power-status.  First, what the operations on orders of stamps do.  *)

AllStamps == Transitions \X {"row", "mem"}

\* s is a total order of its stamps.
IsOrder(s) ==
    /\ s \subseteq AllStamps \X AllStamps
    /\ \A x, y \in AllStamps : <<x, y>> \in s => y \in Stamps(s)
    /\ \A x, y \in Stamps(s) : <<x, y>> \in s \/ <<y, x>> \in s
    /\ \A x, y \in AllStamps : <<x, y>> \in s /\ <<y, x>> \in s => x = y
    /\ \A x, y, z \in AllStamps : <<x, y>> \in s /\ <<y, z>> \in s => <<x, z>> \in s

LEMMA StampsOf ==
    ASSUME NEW s, s \subseteq AllStamps \X AllStamps
    PROVE  \A x : x \in Stamps(s) <=> x \in AllStamps /\ \E y \in AllStamps : <<x, y>> \in s
<1>1. \A p \in s : p = <<p[1], p[2]>> /\ p[1] \in AllStamps /\ p[2] \in AllStamps
  OBVIOUS
<1>2. ASSUME NEW x \in Stamps(s) PROVE x \in AllStamps /\ \E y \in AllStamps : <<x, y>> \in s
  <2>1. PICK p \in s : x = p[1]
    BY DEF Stamps
  <2> QED
    BY <1>1, <2>1
<1>3. ASSUME NEW x \in AllStamps, NEW y \in AllStamps, <<x, y>> \in s PROVE x \in Stamps(s)
  <2>1. <<x, y>>[1] \in Stamps(s)
    BY <1>3 DEF Stamps
  <2> QED
    BY <2>1
<1> QED
  BY <1>2, <1>3

LEMMA PlacedPairs ==
    ASSUME NEW s, IsOrder(s), NEW x \in AllStamps, NEW D, D \subseteq Stamps(s) \ {x},
           \A p \in Without(s, x) : p[2] \in D => p[1] \in D,
           NEW s1, s1 = Placed(s, x, D)
    PROVE  /\ \A a, b \in AllStamps : <<a, b>> \in s1 <=>
                 \/ a # x /\ b # x /\ <<a, b>> \in s
                 \/ b = x /\ (a \in D \/ a = x)
                 \/ a = x /\ b \in Stamps(s) /\ b \notin D /\ b # x
           /\ Stamps(s1) = Stamps(s) \cup {x}
           /\ IsOrder(s1)
<1>1. s \subseteq AllStamps \X AllStamps /\ Stamps(s) \subseteq AllStamps
  BY StampsOf DEF IsOrder
<1>2. s1 \subseteq AllStamps \X AllStamps
  BY <1>1 DEF Placed, Without
<1>3. \A a, b \in AllStamps : <<a, b>> \in s1 <=>
         \/ a # x /\ b # x /\ <<a, b>> \in s
         \/ b = x /\ (a \in D \/ a = x)
         \/ a = x /\ b \in Stamps(s) /\ b \notin D /\ b # x
  BY <1>1 DEF Placed, Without
<1>4. \A a \in Stamps(s) : <<a, a>> \in s
  BY DEF IsOrder
<1>5. \A a : a \in Stamps(s1) <=> a \in Stamps(s) \cup {x}
  <2>1. <<x, x>> \in s1
    BY <1>3
  <2>2. ASSUME NEW a \in Stamps(s) PROVE a \in Stamps(s1)
    <3>1. CASE a = x
      BY <1>2, <2>1, <3>1, StampsOf
    <3>2. CASE a # x
      BY <1>1, <1>2, <1>3, <1>4, <3>2, StampsOf
    <3> QED
      BY <3>1, <3>2
  <2>3. ASSUME NEW a \in Stamps(s1), a # x PROVE a \in Stamps(s)
    BY <1>1, <1>2, <1>3, <2>3, StampsOf
  <2> QED
    BY <1>2, <2>1, <2>2, <2>3, StampsOf
<1>6. \A a, b \in AllStamps : a # x /\ b # x /\ <<a, b>> \in s /\ b \in D => a \in D
  BY DEF Without
<1>7. IsOrder(s1)
  <2>1. ASSUME NEW a \in AllStamps, NEW b \in AllStamps, <<a, b>> \in s1
        PROVE  b \in Stamps(s1)
    BY <1>3, <1>5, <2>1 DEF IsOrder
  <2>2. ASSUME NEW a \in Stamps(s1), NEW b \in Stamps(s1)
        PROVE  <<a, b>> \in s1 \/ <<b, a>> \in s1
    BY <1>1, <1>3, <1>5 DEF IsOrder
  <2>3. ASSUME NEW a \in AllStamps, NEW b \in AllStamps, <<a, b>> \in s1, <<b, a>> \in s1
        PROVE  a = b
    BY <1>3, <2>3 DEF IsOrder
  <2>4. ASSUME NEW a \in AllStamps, NEW b \in AllStamps, NEW c \in AllStamps,
               <<a, b>> \in s1, <<b, c>> \in s1
        PROVE  <<a, c>> \in s1
    <3>1. CASE a # x /\ b # x /\ c # x
      BY <1>3, <2>4, <3>1 DEF IsOrder
    <3>2. CASE b = x
      BY <1>1, <1>3, <1>6, <2>4, <3>2 DEF IsOrder
    <3>3. CASE b # x /\ (a = x \/ c = x)
      BY <1>1, <1>3, <1>6, <2>4, <3>3 DEF IsOrder
    <3> QED
      BY <3>1, <3>2, <3>3
  <2> QED
    BY <1>2, <2>1, <2>2, <2>3, <2>4 DEF IsOrder
<1> QED
  BY <1>3, <1>5, <1>7

\* The newest stamp is later than all others.
LEMMA NewestPairs ==
    ASSUME NEW s, IsOrder(s), NEW x \in AllStamps, NEW s1, s1 = Newest(s, x)
    PROVE  /\ IsOrder(s1)
           /\ Stamps(s1) = Stamps(s) \cup {x}
           /\ \A a, b \in AllStamps : a # x /\ b # x => (<<a, b>> \in s1 <=> <<a, b>> \in s)
           /\ \A a \in Stamps(s1) : <<a, x>> \in s1
           /\ \A a \in AllStamps : <<x, a>> \in s1 => a = x
<1>1. Stamps(s) \ {x} \subseteq Stamps(s) \ {x}
  OBVIOUS
<1>2. \A p \in Without(s, x) : p[1] \in Stamps(s) \ {x}
  BY DEF Without, Stamps
<1>3. s1 = Placed(s, x, Stamps(s) \ {x})
  BY DEF Newest
<1>4. /\ IsOrder(s1) /\ Stamps(s1) = Stamps(s) \cup {x}
      /\ \A a, b \in AllStamps : <<a, b>> \in s1 <=>
            \/ a # x /\ b # x /\ <<a, b>> \in s
            \/ b = x /\ (a \in Stamps(s) \ {x} \/ a = x)
            \/ a = x /\ b \in Stamps(s) /\ b \notin Stamps(s) \ {x} /\ b # x
  BY <1>1, <1>2, <1>3, PlacedPairs
<1>5. Stamps(s) \subseteq AllStamps
  BY StampsOf DEF IsOrder
<1> QED
  BY <1>4, <1>5

\* A stamp taken at some time before is later than all that its earlier
\* version was later than.
LEMMA TakenBeforePairs ==
    ASSUME NEW s, IsOrder(s), NEW x \in AllStamps, NEW s1 \in TakenBefore(s, x)
    PROVE  /\ IsOrder(s1)
           /\ Stamps(s1) = Stamps(s) \cup {x}
           /\ \A a, b \in AllStamps : a # x /\ b # x => (<<a, b>> \in s1 <=> <<a, b>> \in s)
           /\ \A a \in AllStamps : <<a, x>> \in s => <<a, x>> \in s1
<1>1. PICK D \in SUBSET (Stamps(s) \ {x}) :
         /\ {p[1] : p \in {q \in s : q[2] = x}} \ {x} \subseteq D
         /\ \A p \in Without(s, x) : p[2] \in D => p[1] \in D
         /\ s1 = Placed(s, x, D)
  BY DEF TakenBefore
<1>2. /\ IsOrder(s1) /\ Stamps(s1) = Stamps(s) \cup {x}
      /\ \A a, b \in AllStamps : <<a, b>> \in s1 <=>
            \/ a # x /\ b # x /\ <<a, b>> \in s
            \/ b = x /\ (a \in D \/ a = x)
            \/ a = x /\ b \in Stamps(s) /\ b \notin D /\ b # x
  BY <1>1, PlacedPairs
<1>3. \A a \in AllStamps : <<a, x>> \in s => a \in D \/ a = x
  BY <1>1
<1> QED
  BY <1>2, <1>3

\* The write of a task puts its stamp in the place of the one that was taken.
LEMMA WrittenPairs ==
    ASSUME NEW s, IsOrder(s), NEW t \in Transitions, NEW s1, s1 = Written(s, t),
           <<t, "mem">> \in Stamps(s)
    PROVE  /\ IsOrder(s1)
           /\ Stamps(s1) = (Stamps(s) \ {<<t, "mem">>}) \cup {<<t, "row">>}
           /\ \A a, b \in AllStamps \ {<<t, "row">>, <<t, "mem">>} :
                 /\ <<a, b>> \in s1 <=> <<a, b>> \in s
                 /\ <<a, <<t, "row">>>> \in s1 <=> <<a, <<t, "mem">>>> \in s
<1> DEFINE x == <<t, "row">>
           y == <<t, "mem">>
           f(a) == IF a = y THEN x ELSE a
           g(a) == IF a = x THEN y ELSE a
<1>1. s \subseteq AllStamps \X AllStamps /\ x \in AllStamps /\ y \in AllStamps /\ x # y
  BY DEF IsOrder, AllStamps
<1>2. s1 = {<<f(p[1]), f(p[2])>> : p \in Without(s, x)}
  BY DEF Written
<1>3. \A p : p \in Without(s, x) <=> p \in s /\ p[1] # x /\ p[2] # x
  BY DEF Without
<1> HIDE DEF x, y
<1>4. s1 \subseteq AllStamps \X AllStamps /\ \A p \in s1 : p[1] # y /\ p[2] # y
  BY <1>1, <1>2, <1>3
<1>5. \A a, b \in AllStamps : <<a, b>> \in s1 <=> a # y /\ b # y /\ <<g(a), g(b)>> \in s
  <2>1. ASSUME NEW a \in AllStamps, NEW b \in AllStamps, <<a, b>> \in s1
        PROVE  a # y /\ b # y /\ <<g(a), g(b)>> \in s
    <3>1. PICK p \in Without(s, x) : <<a, b>> = <<f(p[1]), f(p[2])>>
      BY <1>2, <2>1
    <3>2. p \in s /\ p[1] # x /\ p[2] # x /\ p = <<p[1], p[2]>>
      BY <1>1, <1>3, <3>1
    <3>3. g(a) = p[1] /\ g(b) = p[2] /\ a # y /\ b # y
      BY <1>1, <3>1, <3>2
    <3> QED
      BY <3>2, <3>3
  <2>2. ASSUME NEW a \in AllStamps, NEW b \in AllStamps, a # y, b # y, <<g(a), g(b)>> \in s
        PROVE  <<a, b>> \in s1
    <3>1. <<g(a), g(b)>> \in Without(s, x)
      BY <1>1, <1>3, <2>2
    <3>2. f(g(a)) = a /\ f(g(b)) = b
      BY <2>2
    <3> QED
      BY <1>2, <3>1, <3>2
  <2> QED
    BY <2>1, <2>2
<1>6. \A a \in AllStamps : g(a) \in AllStamps
  BY <1>1
<1>7. \A a : a \in Stamps(s1) <=> a # y /\ a \in AllStamps /\ g(a) \in Stamps(s)
  <2>1. ASSUME NEW a \in Stamps(s1) PROVE a # y /\ a \in AllStamps /\ g(a) \in Stamps(s)
    <3>1. PICK b \in AllStamps : a \in AllStamps /\ <<a, b>> \in s1
      BY <1>4, <2>1, StampsOf
    <3>2. a # y /\ <<g(a), g(b)>> \in s
      BY <1>5, <3>1
    <3> QED
      BY <1>1, <1>6, <3>1, <3>2, StampsOf
  <2>2. ASSUME NEW a \in AllStamps, a # y, g(a) \in Stamps(s) PROVE a \in Stamps(s1)
    <3>1. <<g(a), g(a)>> \in s
      BY <2>2 DEF IsOrder
    <3>2. <<a, a>> \in s1
      BY <1>5, <2>2, <3>1
    <3> QED
      BY <1>4, <2>2, <3>2, StampsOf
  <2> QED
    BY <2>1, <2>2
<1>8. IsOrder(s1)
  <2>1. ASSUME NEW a \in AllStamps, NEW b \in AllStamps, <<a, b>> \in s1
        PROVE  b \in Stamps(s1)
    BY <1>5, <1>6, <1>7, <2>1 DEF IsOrder
  <2>2. ASSUME NEW a \in Stamps(s1), NEW b \in Stamps(s1)
        PROVE  <<a, b>> \in s1 \/ <<b, a>> \in s1
    <3>1. <<g(a), g(b)>> \in s \/ <<g(b), g(a)>> \in s
      BY <1>7, <2>2 DEF IsOrder
    <3> QED
      BY <1>5, <1>7, <2>2, <3>1
  <2>3. ASSUME NEW a \in AllStamps, NEW b \in AllStamps, <<a, b>> \in s1, <<b, a>> \in s1
        PROVE  a = b
    <3>1. g(a) = g(b) /\ a # y /\ b # y
      BY <1>5, <1>6, <2>3 DEF IsOrder
    <3> QED
      BY <3>1
  <2>4. ASSUME NEW a \in AllStamps, NEW b \in AllStamps, NEW c \in AllStamps,
               <<a, b>> \in s1, <<b, c>> \in s1
        PROVE  <<a, c>> \in s1
    <3>1. /\ <<g(a), g(b)>> \in s /\ <<g(b), g(c)>> \in s
          /\ g(a) \in AllStamps /\ g(b) \in AllStamps /\ g(c) \in AllStamps
      BY <1>5, <1>6, <2>4
    <3>2. <<g(a), g(c)>> \in s
      BY <3>1 DEF IsOrder
    <3> QED
      BY <1>5, <2>4, <3>2
  <2> QED
    BY <1>4, <2>1, <2>2, <2>3, <2>4 DEF IsOrder
<1>9. Stamps(s1) = (Stamps(s) \ {y}) \cup {x}
  <2>1. Stamps(s) \subseteq AllStamps /\ y \in Stamps(s)
    BY <1>1, StampsOf DEF y
  <2> QED
    BY <1>1, <1>7, <2>1
<1>10. \A a, b \in AllStamps \ {x, y} :
          /\ <<a, b>> \in s1 <=> <<a, b>> \in s
          /\ <<a, x>> \in s1 <=> <<a, y>> \in s
  BY <1>1, <1>5
<1> QED
  BY <1>8, <1>9, <1>10 DEF x, y

-----------------------------------------------------------------------------
(* What is true of the stamps of a node.                                   *)

\* s: the order of the stamps; told: the state SMD has; want: the wanted
\* states; S: the transitions whose task succeeded; E: those whose task is at
\* its end; H: those of E whose worker holds the BMC's slot; V: those of E
\* that succeeded and are yet to be written.
OrderTrue(s, told, want, S, E, H, V) ==
    /\ IsOrder(s)
    /\ \A t \in Transitions : <<t, "mem">> \in Stamps(s) <=> t \in E
    /\ \A t \in S : <<t, "row">> \in Stamps(s) =>
          \/ told = want[t]
          \/ \E y \in Stamps(s) \ {<<t, "row">>} : <<<<t, "row">>, y>> \in s
    /\ V \subseteq H /\ H \subseteq E
    /\ \A t \in V : told = want[t]
    /\ \A t \in H, u \in S : <<<<t, "mem">>, <<u, "row">>>> \notin s
    /\ \A t \in Transitions : <<<<t, "mem">>, <<t, "row">>>> \notin s

\* completeTask begins: the stamp it takes is the newest.
LEMMA NewestTrue ==
    ASSUME NEW s, NEW told, NEW want, NEW S \in SUBSET Transitions, NEW E \in SUBSET Transitions,
           NEW H, NEW V, OrderTrue(s, told, want, S, E, H, V),
           NEW t \in Transitions, t \notin E, NEW s1, s1 = Newest(s, <<t, "mem">>),
           NEW H1, H \subseteq H1, H1 \subseteq H \cup {t}
    PROVE  OrderTrue(s1, told, want, S, E \cup {t}, H1, V)
<1> DEFINE x == <<t, "mem">>
<1>1. IsOrder(s) /\ x \in AllStamps /\ Stamps(s) \subseteq AllStamps
  BY StampsOf DEF OrderTrue, AllStamps, IsOrder
<1>2. /\ IsOrder(s1)
      /\ Stamps(s1) = Stamps(s) \cup {x}
      /\ \A a, b \in AllStamps : a # x /\ b # x => (<<a, b>> \in s1 <=> <<a, b>> \in s)
      /\ \A a \in Stamps(s1) : <<a, x>> \in s1
      /\ \A a \in AllStamps : <<x, a>> \in s1 => a = x
  BY <1>1, NewestPairs
<1>3. \A u \in Transitions : /\ <<u, "row">> \in AllStamps /\ <<u, "mem">> \in AllStamps
                             /\ <<u, "row">> # x
                             /\ u # t => <<u, "mem">> # x
  BY DEF AllStamps
<1>4. \A u \in Transitions : <<u, "mem">> \in Stamps(s1) <=> u \in E \cup {t}
  BY <1>2, <1>3 DEF OrderTrue
<1> HIDE DEF x
<1>5. ASSUME NEW u \in S, <<u, "row">> \in Stamps(s1)
      PROVE  \E y \in Stamps(s1) \ {<<u, "row">>} : <<<<u, "row">>, y>> \in s1
  BY <1>2, <1>3, <1>5
<1>6. \A u \in H1, v \in S : <<<<u, "mem">>, <<v, "row">>>> \notin s1
  <2> SUFFICES ASSUME NEW u \in H1, NEW v \in S, <<<<u, "mem">>, <<v, "row">>>> \in s1
               PROVE  FALSE
    OBVIOUS
  <2>1. u \in Transitions /\ (u # t => u \in H)
    BY DEF OrderTrue
  <2>2. CASE u = t
    BY <1>2, <1>3, <2>2 DEF x
  <2>3. CASE u # t
    BY <1>2, <1>3, <2>1, <2>3 DEF OrderTrue
  <2> QED
    BY <2>2, <2>3
<1>7. \A u \in Transitions : <<<<u, "mem">>, <<u, "row">>>> \notin s1
  <2> SUFFICES ASSUME NEW u \in Transitions, <<<<u, "mem">>, <<u, "row">>>> \in s1
               PROVE  FALSE
    OBVIOUS
  <2>2. CASE u = t
    BY <1>2, <1>3, <2>2 DEF x
  <2>3. CASE u # t
    BY <1>2, <1>3, <2>3 DEF OrderTrue
  <2> QED
    BY <2>2, <2>3
<1>8. V \subseteq H1 /\ H1 \subseteq E \cup {t} /\ \A u \in V : told = want[u]
  BY DEF OrderTrue
<1> QED
  BY <1>2, <1>4, <1>5, <1>6, <1>7, <1>8 DEF OrderTrue

\* A task row that did not succeed is written, with a stamp taken at some
\* time before.
LEMMA TakenTrue ==
    ASSUME NEW s, NEW told, NEW want, NEW S \in SUBSET Transitions, NEW E \in SUBSET Transitions,
           NEW H, NEW V, OrderTrue(s, told, want, S, E, H, V),
           NEW t \in Transitions, t \notin E, t \notin S, NEW s1 \in TakenBefore(s, <<t, "row">>),
           NEW want1, \A u \in Transitions \ {t} : want1[u] = want[u]
    PROVE  OrderTrue(s1, told, want1, S, E, H, V)
<1> DEFINE x == <<t, "row">>
<1>1. IsOrder(s) /\ x \in AllStamps /\ Stamps(s) \subseteq AllStamps
  BY StampsOf DEF OrderTrue, AllStamps, IsOrder
<1>2. /\ IsOrder(s1)
      /\ Stamps(s1) = Stamps(s) \cup {x}
      /\ \A a, b \in AllStamps : a # x /\ b # x => (<<a, b>> \in s1 <=> <<a, b>> \in s)
      /\ \A a \in AllStamps : <<a, x>> \in s => <<a, x>> \in s1
  BY <1>1, TakenBeforePairs
<1>3. \A u \in Transitions : /\ <<u, "row">> \in AllStamps /\ <<u, "mem">> \in AllStamps
                             /\ <<u, "mem">> # x
                             /\ u # t => <<u, "row">> # x
  BY DEF AllStamps
<1>4. \A u \in Transitions : <<u, "mem">> \in Stamps(s1) <=> u \in E
  BY <1>2, <1>3 DEF OrderTrue
<1>a. \A a, b \in AllStamps : <<a, b>> \in s1 => a \in Stamps(s1)
  BY <1>2, StampsOf DEF IsOrder
<1> HIDE DEF x
<1>5. ASSUME NEW u \in S, <<u, "row">> \in Stamps(s1)
      PROVE  \/ told = want1[u]
             \/ \E y \in Stamps(s1) \ {<<u, "row">>} : <<<<u, "row">>, y>> \in s1
  <2>1. u # t /\ <<u, "row">> # x /\ <<u, "row">> \in Stamps(s) /\ want1[u] = want[u]
    BY <1>2, <1>3, <1>5
  <2>2. CASE told = want[u]
    BY <2>1, <2>2
  <2>3. CASE told # want[u]
    <3>1. PICK y \in Stamps(s) \ {<<u, "row">>} : <<<<u, "row">>, y>> \in s
      BY <2>1, <2>3 DEF OrderTrue
    <3>2. <<<<u, "row">>, y>> \in s1
      BY <1>1, <1>2, <1>3, <2>1, <3>1
    <3> QED
      BY <1>2, <3>1, <3>2
  <2> QED
    BY <2>2, <2>3
<1>6. \A u \in H, v \in S : <<<<u, "mem">>, <<v, "row">>>> \notin s1
  BY <1>2, <1>3 DEF OrderTrue
<1>7. \A u \in Transitions : <<<<u, "mem">>, <<u, "row">>>> \notin s1
  <2> SUFFICES ASSUME NEW u \in Transitions, <<<<u, "mem">>, <<u, "row">>>> \in s1
               PROVE  FALSE
    OBVIOUS
  <2>2. CASE u = t
    BY <1>a, <1>3, <1>4, <2>2
  <2>3. CASE u # t
    BY <1>2, <1>3, <2>3 DEF OrderTrue
  <2> QED
    BY <2>2, <2>3
<1>8. V \subseteq H /\ H \subseteq E /\ \A u \in V : told = want1[u]
  BY DEF OrderTrue
<1> QED
  BY <1>2, <1>4, <1>5, <1>6, <1>7, <1>8 DEF OrderTrue

\* completeTask writes the task: its row is later than it was, so what was
\* not the newest is not the newest now.
LEMMA WrittenTrue ==
    ASSUME NEW s, NEW told, NEW want, NEW S \in SUBSET Transitions, NEW E \in SUBSET Transitions,
           NEW H, NEW V, OrderTrue(s, told, want, S, E, H, V),
           NEW t \in E, NEW s1, s1 = Written(s, t),
           NEW S1, S1 = IF t \in V THEN S \cup {t} ELSE S \ {t}, t \in V => H \subseteq {t}
    PROVE  OrderTrue(s1, told, want, S1, E \ {t}, H \ {t}, V \ {t})
<1> DEFINE x == <<t, "row">>
           y == <<t, "mem">>
<1>1. /\ IsOrder(s) /\ x \in AllStamps /\ y \in AllStamps /\ x # y
      /\ Stamps(s) \subseteq AllStamps /\ y \in Stamps(s) /\ t \in Transitions
  BY StampsOf DEF OrderTrue, AllStamps, IsOrder
<1>2. /\ IsOrder(s1)
      /\ Stamps(s1) = (Stamps(s) \ {y}) \cup {x}
      /\ \A a, b \in AllStamps \ {x, y} : /\ <<a, b>> \in s1 <=> <<a, b>> \in s
                                          /\ <<a, x>> \in s1 <=> <<a, y>> \in s
  BY <1>1, WrittenPairs
<1>3. \A u \in Transitions \ {t} : /\ <<u, "row">> \in AllStamps \ {x, y}
                                   /\ <<u, "mem">> \in AllStamps \ {x, y}
  BY DEF AllStamps
<1>4. <<x, y>> \in s \/ x \notin Stamps(s)
  BY <1>1 DEF OrderTrue, IsOrder
<1>5. \A u \in Transitions : <<u, "mem">> \in Stamps(s1) <=> u \in E \ {t}
  BY <1>1, <1>2, <1>3 DEF OrderTrue
<1>a. \A a, b \in AllStamps : /\ <<a, b>> \in s1 => a \in Stamps(s1)
                              /\ <<a, b>> \in s => b \in Stamps(s)
                              /\ \A c \in AllStamps :
                                    <<a, b>> \in s /\ <<b, c>> \in s => <<a, c>> \in s
  BY <1>1, <1>2, StampsOf DEF IsOrder
<1> HIDE DEF x, y
<1>6. ASSUME NEW u \in S1, <<u, "row">> \in Stamps(s1)
      PROVE  \/ told = want[u]
             \/ \E z \in Stamps(s1) \ {<<u, "row">>} : <<<<u, "row">>, z>> \in s1
  <2>1. CASE u = t
    BY <1>6, <2>1 DEF OrderTrue
  <2>2. CASE u # t /\ told # want[u]
    <3>1. u \in S /\ <<u, "row">> \in AllStamps \ {x, y} /\ <<u, "row">> \in Stamps(s)
      BY <1>2, <1>3, <1>6, <2>2
    <3>2. PICK z \in Stamps(s) \ {<<u, "row">>} : <<<<u, "row">>, z>> \in s
      BY <2>2, <3>1 DEF OrderTrue
    <3>3. CASE z \notin {x, y}
      BY <1>1, <1>2, <3>1, <3>2, <3>3
    <3>4. CASE z \in {x, y}
      <4>1. <<<<u, "row">>, y>> \in s
        BY <1>1, <1>4, <1>a, <3>1, <3>2, <3>4
      <4>2. <<<<u, "row">>, x>> \in s1 /\ x \in Stamps(s1) \ {<<u, "row">>}
        BY <1>2, <3>1, <4>1
      <4> QED
        BY <4>2
    <3> QED
      BY <3>3, <3>4
  <2> QED
    BY <2>1, <2>2
<1>7. \A u \in H \ {t}, v \in S1 : <<<<u, "mem">>, <<v, "row">>>> \notin s1
  <2> SUFFICES ASSUME NEW u \in H \ {t}, NEW v \in S1 PROVE <<<<u, "mem">>, <<v, "row">>>> \notin s1
    OBVIOUS
  <2>1. u \in Transitions \ {t} /\ t \notin V /\ v \in S \ {t} /\ v \in Transitions \ {t}
    BY DEF OrderTrue
  <2>2. <<<<u, "mem">>, <<v, "row">>>> \notin s
    BY <2>1 DEF OrderTrue
  <2> QED
    BY <1>2, <1>3, <2>1, <2>2
<1>8. \A u \in Transitions : <<<<u, "mem">>, <<u, "row">>>> \notin s1
  <2> SUFFICES ASSUME NEW u \in Transitions, <<<<u, "mem">>, <<u, "row">>>> \in s1
               PROVE  FALSE
    OBVIOUS
  <2>1. CASE u = t
    BY <1>1, <1>2, <1>a, <2>1 DEF x, y
  <2>2. CASE u # t
    BY <1>2, <1>3, <2>2 DEF OrderTrue
  <2> QED
    BY <2>1, <2>2
<1>9. V \ {t} \subseteq H \ {t} /\ H \ {t} \subseteq E \ {t} /\ \A u \in V \ {t} : told = want[u]
  BY DEF OrderTrue
<1> QED
  BY <1>2, <1>5, <1>6, <1>7, <1>8, <1>9 DEF OrderTrue

\* completeTask tells SMD a state while its worker alone holds the slot: no
\* task that succeeded is the newest then.
LEMMA ToldTrue ==
    ASSUME NEW s, NEW told, NEW want, NEW S \in SUBSET Transitions, NEW E \in SUBSET Transitions,
           NEW H, NEW V, OrderTrue(s, told, want, S, E, H, V),
           NEW t \in H, t \notin V, H \subseteq {t},
           NEW told1, NEW V1, V1 \subseteq {t}, t \in V1 => told1 = want[t]
    PROVE  OrderTrue(s, told1, want, S, E, H, V1)
<1> DEFINE y == <<t, "mem">>
<1>1. /\ IsOrder(s) /\ y \in AllStamps /\ t \in Transitions /\ y \in Stamps(s)
      /\ \A u \in Transitions : <<u, "row">> # y
  BY DEF OrderTrue, AllStamps
<1>2. ASSUME NEW u \in S, <<u, "row">> \in Stamps(s)
      PROVE  \E z \in Stamps(s) \ {<<u, "row">>} : <<<<u, "row">>, z>> \in s
  <2>1. <<y, <<u, "row">>>> \notin s
    BY DEF OrderTrue
  <2>2. <<<<u, "row">>, y>> \in s
    BY <1>1, <1>2, <2>1 DEF IsOrder
  <2> QED
    BY <1>1, <2>2
<1> QED
  BY <1>2 DEF OrderTrue

\* What other transitions want does not matter.
LEMMA OtherWanted ==
    ASSUME NEW s, NEW told, NEW want, NEW S, NEW E, NEW H, NEW V,
           OrderTrue(s, told, want, S, E, H, V),
           NEW want1, \A t \in S \cup V : want1[t] = want[t]
    PROVE  OrderTrue(s, told, want1, S, E, H, V)
<1>1. ASSUME NEW t \in S, <<t, "row">> \in Stamps(s)
      PROVE  \/ told = want1[t]
             \/ \E y \in Stamps(s) \ {<<t, "row">>} : <<<<t, "row">>, y>> \in s
  <2>1. want1[t] = want[t]
    OBVIOUS
  <2>2. \/ told = want[t]
        \/ \E y \in Stamps(s) \ {<<t, "row">>} : <<<<t, "row">>, y>> \in s
    BY <1>1, Zenon DEF OrderTrue
  <2> QED
    BY <2>1, <2>2
<1>2. \A t \in V : told = want1[t]
  BY DEF OrderTrue
<1> QED
  BY <1>1, <1>2, Zenon DEF OrderTrue

-----------------------------------------------------------------------------
(* The same of a node in a state of the system.                            *)

\* The transitions whose task on the node succeeded; whose task is at its
\* end; and of these, whose worker holds the slot, and which succeeded.
SucceededOn(n) == {t \in Transitions : taskRow[t][n].state = "succeeded"}

Ends(w, t, n) == task[w] = <<t, n>> /\ pc[w] \in {"patch", "persistTask"}

EndingOn(n) == {t \in Transitions : \E w \in Workers : Ends(w, t, n)}

HolderOn(n) == {t \in Transitions : \E w \in Workers : Ends(w, t, n) /\ w \in holding}

VerifiedOn(n) == {t \in Transitions : \E w \in Workers :
                     task[w] = <<t, n>> /\ pc[w] = "persistTask" /\ outcome[w] = "succeeded"}

StatusTrue(n) ==
    OrderTrue(order[n], smd[n], wanted, SucceededOn(n), EndingOn(n), HolderOn(n), VerifiedOn(n))

\* As in StatusMatchesSMD: true as long as no write failed, nothing died and
\* the node is behind one BMC whose actions are serialised.
StatusInv ==
    PerBMC = 1 /\ faults = 0 /\ crashes = 0 =>
        \A n \in Nodes : OneBMC(n) => StatusTrue(n)

StatusTypeOK ==
    /\ DOMAIN order = Nodes
    /\ DOMAIN smd = Nodes
    /\ DOMAIN wanted = Transitions
    /\ crashes \in Nat

\* A worker with a task is the only one that has it.
LEMMA OnlyWorker ==
    ASSUME TypeInv, FlowInv, NEW w \in Workers, NEW t \in Transitions, NEW n \in Nodes,
           task[w] = <<t, n>>
    PROVE  /\ \A v \in Workers : task[v] = <<t, n>> => v = w
           /\ t \in EndingOn(n) <=> pc[w] \in {"patch", "persistTask"}
           /\ t \in HolderOn(n) <=> pc[w] \in {"patch", "persistTask"} /\ w \in holding
           /\ t \in VerifiedOn(n) <=> pc[w] = "persistTask" /\ outcome[w] = "succeeded"
<1>1. \A v \in Workers : task[v] = <<t, n>> => v = w
  <2>1. <<t, n>> # NoTask
    BY ConstantsAssumption
  <2> QED
    BY <2>1, Zenon DEF FlowInv, TaskInOnePlace
<1> QED
  BY <1>1 DEF EndingOn, HolderOn, VerifiedOn, Ends

\* With one slot for the BMC of a node, one task on the node has it.
LEMMA OneHolder ==
    ASSUME CoreInv, PerBMC = 1, NEW n \in Nodes, OneBMC(n), NEW t \in HolderOn(n)
    PROVE  HolderOn(n) \subseteq {t}
<1> SUFFICES ASSUME NEW u \in HolderOn(n) PROVE u = t
  OBVIOUS
<1>1. PICK v \in Workers : Ends(v, t, n) /\ v \in holding
  BY DEF HolderOn
<1>2. PICK w \in Workers : Ends(w, u, n) /\ w \in holding
  BY DEF HolderOn
<1>3. /\ t \in Transitions /\ u \in Transitions
      /\ task[v][1] = t /\ task[v][2] = n /\ task[w][1] = u /\ task[w][2] = n
      /\ Busy(v) /\ Busy(w) /\ pc[v] # "persistFinal" /\ pc[w] # "persistFinal"
  BY <1>1, <1>2 DEF Ends, HolderOn, Busy
<1>4. ToCount(t, n) /\ ToCount(u, n)
  <2>1. ToCount(task[v][1], task[v][2]) /\ ToCount(task[w][1], task[w][2])
    BY <1>3 DEF CoreInv, FlowInv, TasksToCount
  <2> QED
    BY <1>3, <2>1
<1>5. /\ n \in request[t].targets /\ n \in request[u].targets
      /\ request[t].bmc[n] # NoBMC
  BY <1>4 DEF ToCount, Mapped, Unmapped
<1>6. PICK b \in BMCs : request[t].bmc[n] = b /\ request[u].bmc[n] = b
  BY <1>3, <1>5 DEF OneBMC, CoreInv, TypeInv, TypeOK, CallTypeOK, Requests
<1>7. v \in Holders(b) /\ w \in Holders(b)
  BY <1>1, <1>2, <1>3, <1>6 DEF Holders, BmcOf
<1>8. IsFiniteSet(Holders(b)) /\ Cardinality(Holders(b)) <= 1 /\ Cardinality(Holders(b)) \in Nat
  BY HoldersFinite DEF CoreInv, TypeInv, TypeOK, SlotInv, SlotCount
<1>9. v = w
  <2> SUFFICES ASSUME v # w PROVE FALSE
    OBVIOUS
  <2>1. {v, w} \subseteq Holders(b)
    BY <1>7
  <2>2. Cardinality({v, w}) = 2
    <3>1. Cardinality({v}) = 1 /\ IsFiniteSet({v})
      BY FS_Singleton
    <3>2. Cardinality({v} \cup {w}) = Cardinality({v}) + 1
      BY <3>1, FS_AddElement
    <3>3. {v} \cup {w} = {v, w}
      OBVIOUS
    <3> QED
      BY <3>1, <3>2, <3>3
  <2>3. Cardinality({v, w}) <= Cardinality(Holders(b))
    BY <1>8, <2>1, FS_Subset
  <2> QED
    BY <1>8, <2>2, <2>3
<1> QED
  BY <1>1, <1>2, <1>9 DEF Ends

-----------------------------------------------------------------------------
(* The steps of a worker.                                                  *)

Ending == {"patch", "persistTask"}

\* What a step of a worker does to the stamps of the node of its task.
StampEnds(w, t, n) ==
    /\ pc[w] \notin Ending /\ pc'[w] \in Ending /\ task'[w] = task[w]
    /\ pc'[w] = "persistTask" => outcome'[w] # "succeeded"
    /\ order' = [order EXCEPT ![n] = Newest(order[n], <<t, "mem">>)]
    /\ UNCHANGED <<taskRow, smd, holding>>

StampBegins(w, t, n) ==
    /\ pc[w] \notin Ending /\ pc'[w] \notin Ending
    /\ taskRow'[t][n].state = "running" /\ ~Finished(t, n)
    /\ \E s \in TakenBefore(order[n], <<t, "row">>) : order' = [order EXCEPT ![n] = s]
    /\ UNCHANGED <<smd, holding>>

StampWritten(w, t, n) ==
    /\ pc[w] = "persistTask" /\ pc'[w] \notin Ending
    /\ taskRow'[t][n].state = outcome[w] /\ ~Finished(t, n)
    /\ order' = [order EXCEPT ![n] = Written(order[n], t)]
    /\ UNCHANGED <<smd, holding>>

TellsSMD(w, t, n) ==
    /\ pc[w] = "patch" /\ pc'[w] = "persistTask" /\ task'[w] = task[w]
    /\ \/ smd' = [smd EXCEPT ![n] = wanted[t]]
       \/ smd' = smd /\ outcome'[w] # "succeeded"
    /\ order' = [order EXCEPT ![n] = order[n]]
    /\ UNCHANGED <<taskRow, holding>>

NoStamp(w, n) ==
    /\ pc[w] \notin Ending /\ pc'[w] \notin Ending
    /\ order' = [order EXCEPT ![n] = order[n]]
    /\ UNCHANGED <<taskRow, smd>>

\* A step of a worker leaves the other workers alone.
LEMMA OthersRest ==
    ASSUME TypeInv, NEW w \in Workers, WorkerStep(w)
    PROVE  /\ \A v \in Workers \ {w} : SameWorker(v) /\ (v \in holding' <=> v \in holding)
           /\ UNCHANGED request
           /\ Busy(w) => task'[w] \in {task[w], NoTask}
           /\ ~Busy(w) => pc'[w] \notin Ending /\ UNCHANGED <<taskRow, faults>>
<1> USE DEF TypeInv, TypeOK, WorkerTypeOK, SameWorker, Busy, Ending
<1>1. CASE \/ Dequeue(w) \/ WorkerExit(w) \/ CancelBeforeStart(w) \/ AcquireBMCLimiter(w)
           \/ \E r \in Results : BeginTask(w, r) \/ PersistTask(w, r)
  BY <1>1 DEF Dequeue, WorkerExit, CancelBeforeStart, AcquireBMCLimiter, BeginTask, PersistTask,
     Complete, callVars, storeVars
<1>2. CASE \/ \E class \in ErrorClasses : ExecuteRefused(w, class)
           \/ ExecuteSend(w) \/ ExecuteAnswer(w) \/ Backoff(w) \/ Verify(w)
           \/ UpdateNodePowerState(w)
  BY <1>2 DEF ExecuteRefused, ExecuteSend, ExecuteAnswer, Backoff, Verify, UpdateNodePowerState,
     AttemptFailed, Complete, callVars
<1>3. CASE \/ MarkTransitionRunning(w) \/ RecordTaskOutcome(w)
           \/ \E r \in Results : PersistRunning(w, r) \/ PersistFinal(w, r)
  <2>1. \/ Retire(w)
        \/ UNCHANGED <<task, attempt, outcome, holding>> /\ \A v \in Workers \ {w} : pc'[v] = pc[v]
    BY <1>3 DEF MarkTransitionRunning, RecordTaskOutcome, PersistRunning, PersistFinal
  <2>2. Busy(w) /\ UNCHANGED request
    BY <1>3 DEF MarkTransitionRunning, RecordTaskOutcome, PersistRunning, PersistFinal, callVars
  <2> QED
    BY <2>1, <2>2 DEF Retire
<1> QED
  BY <1>1, <1>2, <1>3 DEF WorkerStep

LEMMA StampKinds ==
    ASSUME CoreInv, NEW w \in Workers, APIWorkerStep(w), NEW t \in Transitions, NEW n \in Nodes,
           task[w] = <<t, n>>, faults' = 0
    PROVE  /\ faults = 0
           /\ \/ StampEnds(w, t, n) \/ StampBegins(w, t, n) \/ StampWritten(w, t, n)
              \/ TellsSMD(w, t, n) \/ NoStamp(w, n)
           /\ \A u \in Transitions, k \in Nodes :
                 <<u, k>> # <<t, n>> => taskRow'[u][k] = taskRow[u][k]
<1>a. TypeInv /\ task[w][1] = t /\ task[w][2] = n /\ task[w] # NoTask /\ running
  BY ConstantsAssumption DEF CoreInv
<1>b. Busy(w) /\ WorkTrue(w, t, n)
  BY <1>a, Zenon DEF CoreInv, FlowInv, WorkersBegun, EffectInv, WorkersTrue
<1>c. pc \in [Workers -> WorkerPCs] /\ outcome \in [Workers -> Outcomes]
  BY DEF CoreInv, TypeInv, TypeOK, WorkerTypeOK
<1>1. ASSUME pc[w] \notin Ending, pc'[w] \in Ending, taskRow' = taskRow
      PROVE  order' = [order EXCEPT ![n] = Newest(order[n], <<t, "mem">>)]
  BY <1>1, <1>a DEF APIWorkerStep, Stamped, Ending
<1>3. ASSUME pc[w] = "begin", pc'[w] \notin Ending, taskRow' # taskRow
      PROVE  \E s \in TakenBefore(order[n], <<t, "row">>) : order' = [order EXCEPT ![n] = s]
  BY <1>3, <1>a DEF APIWorkerStep, Stamped, Ending
<1>4. ASSUME pc[w] = "persistTask", taskRow' # taskRow
      PROVE  order' = [order EXCEPT ![n] = Written(order[n], t)]
  BY <1>4, <1>a DEF APIWorkerStep, Stamped, Ending
<1>5. ASSUME pc[w] # "persistTask", pc[w] \in Ending \/ pc'[w] \notin Ending, taskRow' = taskRow
      PROVE  order' = [order EXCEPT ![n] = order[n]]
  BY <1>5, <1>a DEF APIWorkerStep, Stamped, Ending
<1>2. /\ pc[w] = "patch" => \/ smd' = [smd EXCEPT ![n] = wanted[t]]
                            \/ smd' = smd /\ outcome'[w] # "succeeded"
      /\ pc[w] # "patch" => smd' = smd
  BY <1>a DEF APIWorkerStep, PatchComponent
<1>6. CASE \/ CancelBeforeStart(w) \/ AcquireBMCLimiter(w) \/ ExecuteAnswer(w) \/ ExecuteSend(w)
           \/ Backoff(w) \/ Verify(w) \/ \E class \in ErrorClasses : ExecuteRefused(w, class)
  <2>1. UNCHANGED <<taskRow, faults, task>> /\ pc[w] \notin Ending
    BY <1>6 DEF CancelBeforeStart, AcquireBMCLimiter, ExecuteAnswer, ExecuteSend, Backoff, Verify,
       ExecuteRefused, storeVars, Ending
  <2>2. CASE pc'[w] \notin Ending
    BY <1>2, <1>5, <2>1, <2>2 DEF NoStamp, Ending
  <2>3. CASE pc'[w] \in Ending
    <3>1. UNCHANGED holding /\ (pc'[w] = "persistTask" => outcome'[w] # "succeeded")
      BY <1>6, <1>c, <2>3 DEF CancelBeforeStart, AcquireBMCLimiter, ExecuteAnswer, ExecuteSend,
         Backoff, Verify, ExecuteRefused, AttemptFailed, Complete, Ending
    <3> QED
      BY <1>1, <1>2, <2>1, <2>3, <3>1 DEF StampEnds, Ending
  <2> QED
    BY <2>1, <2>2, <2>3
<1>7. CASE UpdateNodePowerState(w)
  <2>1. /\ UNCHANGED <<taskRow, faults, task, holding>> /\ pc[w] = "patch"
        /\ pc'[w] = "persistTask"
    BY <1>7, <1>c DEF UpdateNodePowerState, Complete, storeVars
  <2> QED
    BY <1>2, <1>5, <2>1 DEF TellsSMD, Ending
<1>8. ASSUME NEW r \in Results, PersistRunning(w, r) \/ PersistFinal(w, r)
      PROVE  faults = 0 /\ NoStamp(w, n) /\ UNCHANGED taskRow
  <2>1. /\ UNCHANGED taskRow /\ pc[w] \notin Ending /\ pc'[w] \notin Ending
        /\ r \in StoreResults(running) /\ CountFault(r)
    BY <1>8, <1>c DEF PersistRunning, PersistFinal, UpdateTransition, Retire, Ending
  <2> QED
    BY <1>2, <1>5, <1>a, <2>1, WriteHealth DEF NoStamp, Ending
<1>9. CASE MarkTransitionRunning(w) \/ RecordTaskOutcome(w)
  <2>1. /\ UNCHANGED <<taskRow, faults>> /\ pc[w] \notin Ending /\ pc'[w] \notin Ending
    BY <1>9, <1>c DEF MarkTransitionRunning, RecordTaskOutcome, Retire, storeVars, Ending
  <2> QED
    BY <1>2, <1>5, <2>1 DEF NoStamp, Ending
<1>10. ASSUME NEW r \in Results, BeginTask(w, r)
       PROVE  /\ faults = 0 /\ (StampBegins(w, t, n) \/ NoStamp(w, n))
              /\ \A u \in Transitions, k \in Nodes :
                    <<u, k>> # <<t, n>> => taskRow'[u][k] = taskRow[u][k]
  <2>1. /\ UpdateTransitionTask(t, n, [state |-> "running", attempts |-> 0], r)
        /\ r \in StoreResults(running) /\ CountFault(r) /\ pc[w] = "begin" /\ pc'[w] = "acquire"
        /\ UNCHANGED holding
    BY <1>10, <1>a, <1>c DEF BeginTask, UpdateTransitionTask
  <2>2. faults = 0 /\ Commits(r)
    BY <1>a, <2>1, WriteHealth DEF Commits
  <2>3. /\ taskRow'[t][n].state = "running"
        /\ \A u \in Transitions, k \in Nodes :
              <<u, k>> # <<t, n>> => taskRow'[u][k] = taskRow[u][k]
    BY <1>a, <2>1, <2>2, UpdateTransitionTaskRow
  <2>4. ~Finished(t, n)
    BY <1>b, <2>1 DEF WorkTrue
  <2>5. CASE taskRow' = taskRow
    BY <1>2, <1>5, <2>1, <2>2, <2>3, <2>5 DEF NoStamp, Ending
  <2>6. CASE taskRow' # taskRow
    BY <1>2, <1>3, <2>1, <2>2, <2>3, <2>4, <2>6 DEF StampBegins, Ending
  <2> QED
    BY <2>5, <2>6
<1>11. ASSUME NEW r \in Results, PersistTask(w, r)
       PROVE  /\ faults = 0 /\ StampWritten(w, t, n)
              /\ \A u \in Transitions, k \in Nodes :
                    <<u, k>> # <<t, n>> => taskRow'[u][k] = taskRow[u][k]
  <2>1. /\ UpdateTransitionTask(t, n, [state |-> outcome[w], attempts |-> attempt[w]], r)
        /\ r \in StoreResults(running) /\ CountFault(r)
        /\ pc[w] = "persistTask" /\ pc'[w] = "record" /\ UNCHANGED holding
    BY <1>11, <1>a, <1>c DEF PersistTask, UpdateTransitionTask
  <2>2. faults = 0 /\ Commits(r)
    BY <1>a, <2>1, WriteHealth DEF Commits
  <2>3. /\ taskRow'[t][n].state = outcome[w]
        /\ \A u \in Transitions, k \in Nodes :
              <<u, k>> # <<t, n>> => taskRow'[u][k] = taskRow[u][k]
    BY <1>a, <2>1, <2>2, UpdateTransitionTaskRow
  <2>4. ~Finished(t, n)
    BY <1>b, <2>1 DEF WorkTrue
  <2>5. outcome[w] \in TerminalTaskStates
    BY <1>a, <1>c, <2>1 DEF TypeInv, WorkerShape, Outcomes, TerminalTaskStates
  <2>6. taskRow' # taskRow
    BY <2>3, <2>4, <2>5 DEF Finished
  <2> QED
    BY <1>2, <1>4, <2>1, <2>2, <2>3, <2>4, <2>6 DEF StampWritten, Ending
<1>12. ~Dequeue(w) /\ ~WorkerExit(w)
  BY <1>b DEF Dequeue, WorkerExit, Busy
<1>13. WorkerStep(w)
  BY DEF APIWorkerStep
<1>14. CASE \E r \in Results : \/ PersistRunning(w, r) \/ PersistFinal(w, r)
                               \/ BeginTask(w, r) \/ PersistTask(w, r)
  BY <1>8, <1>10, <1>11, <1>14
<1> QED
  BY <1>6, <1>7, <1>9, <1>12, <1>13, <1>14, Zenon DEF WorkerStep

\* Who is at the end of a task after a step of a worker.
LEMMA EndsAfter ==
    ASSUME TypeInv, FlowInv, NEW w \in Workers, WorkerStep(w),
           NEW t \in Transitions, NEW n \in Nodes, task[w] = <<t, n>>
    PROVE  /\ t \in EndingOn(n)' <=> task'[w] = task[w] /\ pc'[w] \in Ending
           /\ t \in HolderOn(n)' <=> task'[w] = task[w] /\ pc'[w] \in Ending /\ w \in holding'
           /\ t \in VerifiedOn(n)' <=> /\ task'[w] = task[w] /\ pc'[w] = "persistTask"
                                       /\ outcome'[w] = "succeeded"
           /\ \A u \in Transitions, k \in Nodes : <<u, k>> # <<t, n>> =>
                 /\ u \in EndingOn(k)' <=> u \in EndingOn(k)
                 /\ u \in HolderOn(k)' <=> u \in HolderOn(k)
                 /\ u \in VerifiedOn(k)' <=> u \in VerifiedOn(k)
<1>1. /\ \A v \in Workers \ {w} : SameWorker(v) /\ (v \in holding' <=> v \in holding)
      /\ Busy(w) => task'[w] \in {task[w], NoTask}
  BY OthersRest
<1>2. \A v \in Workers : task[v] = <<t, n>> => v = w
  BY OnlyWorker
<1>3. task'[w] \in {<<t, n>>, NoTask} /\ \A u \in Transitions, k \in Nodes : <<u, k>> # NoTask
  <2>1. \A u \in Transitions, k \in Nodes : <<u, k>> # NoTask
    BY ConstantsAssumption
  <2>2. Busy(w)
    BY <2>1, Zenon DEF FlowInv, WorkersBegun
  <2> QED
    BY <1>1, <2>1, <2>2
<1>4. \A v \in Workers : task'[v] = <<t, n>> => v = w
  BY <1>1, <1>2 DEF SameWorker
<1>5. /\ t \in EndingOn(n)' <=> task'[w] = task[w] /\ pc'[w] \in Ending
      /\ t \in HolderOn(n)' <=> task'[w] = task[w] /\ pc'[w] \in Ending /\ w \in holding'
      /\ t \in VerifiedOn(n)' <=> /\ task'[w] = task[w] /\ pc'[w] = "persistTask"
                                  /\ outcome'[w] = "succeeded"
  <2>1. t \in EndingOn(n)' <=> task'[w] = task[w] /\ pc'[w] \in Ending
    BY <1>4 DEF EndingOn, Ends, Ending
  <2>2. t \in HolderOn(n)' <=> task'[w] = task[w] /\ pc'[w] \in Ending /\ w \in holding'
    BY <1>4 DEF HolderOn, Ends, Ending
  <2>3. t \in VerifiedOn(n)' <=> /\ task'[w] = task[w] /\ pc'[w] = "persistTask"
                                 /\ outcome'[w] = "succeeded"
    BY <1>4 DEF VerifiedOn
  <2> QED
    BY <2>1, <2>2, <2>3
<1>6. ASSUME NEW u \in Transitions, NEW k \in Nodes, <<u, k>> # <<t, n>>
      PROVE  /\ u \in EndingOn(k)' <=> u \in EndingOn(k)
             /\ u \in HolderOn(k)' <=> u \in HolderOn(k)
             /\ u \in VerifiedOn(k)' <=> u \in VerifiedOn(k)
  <2>1. task[w] # <<u, k>> /\ task'[w] # <<u, k>>
    BY <1>3, <1>6
  <2>2. \A v \in Workers : /\ Ends(v, u, k)' <=> Ends(v, u, k)
                           /\ Ends(v, u, k) => (v \in holding' <=> v \in holding)
                           /\ Ends(v, u, k) => pc'[v] = pc[v] /\ outcome'[v] = outcome[v]
    BY <1>1, <2>1 DEF Ends, SameWorker
  <2>3. u \in EndingOn(k)' <=> u \in EndingOn(k)
    BY <2>2 DEF EndingOn
  <2>4. u \in HolderOn(k)' <=> u \in HolderOn(k)
    BY <2>2 DEF HolderOn
  <2>5. u \in VerifiedOn(k)' <=> u \in VerifiedOn(k)
    BY <1>1, <2>1 DEF VerifiedOn, SameWorker
  <2> QED
    BY <2>3, <2>4, <2>5
<1> QED
  BY <1>5, <1>6

\* A worker that has no task is at the end of none.
LEMMA IdleEndsNone ==
    ASSUME TypeInv, NEW w \in Workers, WorkerStep(w), ~Busy(w), NEW n \in Nodes
    PROVE  /\ EndingOn(n)' = EndingOn(n) /\ HolderOn(n)' = HolderOn(n)
           /\ VerifiedOn(n)' = VerifiedOn(n) /\ SucceededOn(n)' = SucceededOn(n)
<1>1. /\ \A v \in Workers \ {w} : SameWorker(v) /\ (v \in holding' <=> v \in holding)
      /\ pc'[w] \notin Ending /\ UNCHANGED taskRow
  BY OthersRest
<1>2. pc[w] \notin Ending
  BY DEF Busy, Ending
<1>3. \A v \in Workers, t \in Transitions :
         /\ Ends(v, t, n)' <=> Ends(v, t, n)
         /\ Ends(v, t, n) => (v \in holding' <=> v \in holding)
         /\ (task[v] = <<t, n>> /\ pc[v] = "persistTask" /\ outcome[v] = "succeeded")' <=>
               task[v] = <<t, n>> /\ pc[v] = "persistTask" /\ outcome[v] = "succeeded"
  BY <1>1, <1>2 DEF Ends, SameWorker, Ending
<1> QED
  BY <1>1, <1>3 DEF EndingOn, HolderOn, VerifiedOn, SucceededOn

LEMMA WorkerStatus ==
    ASSUME CoreInv, StatusTypeOK, NEW w \in Workers, APIWorkerStep(w), PerBMC = 1, faults' = 0,
           NEW n \in Nodes, OneBMC(n), StatusTrue(n)
    PROVE  StatusTrue(n)'
<1>a. TypeInv /\ FlowInv /\ WorkerStep(w) /\ wanted' = wanted
  BY DEF CoreInv, APIWorkerStep
<1>b. /\ DOMAIN order = Nodes /\ DOMAIN smd = Nodes
      /\ OrderTrue(order[n], smd[n], wanted, SucceededOn(n), EndingOn(n), HolderOn(n), VerifiedOn(n))
      /\ SucceededOn(n) \in SUBSET Transitions /\ EndingOn(n) \in SUBSET Transitions
      /\ HolderOn(n) \in SUBSET Transitions /\ VerifiedOn(n) \in SUBSET Transitions
  BY DEF StatusTypeOK, StatusTrue, SucceededOn, EndingOn, HolderOn, VerifiedOn
<1>c. /\ EndingOn(n)' \in SUBSET Transitions /\ HolderOn(n)' \in SUBSET Transitions
      /\ VerifiedOn(n)' \in SUBSET Transitions
  BY DEF EndingOn, HolderOn, VerifiedOn
<1>1. ASSUME order'[n] = order[n], smd'[n] = smd[n], SucceededOn(n)' = SucceededOn(n),
             EndingOn(n)' = EndingOn(n), HolderOn(n)' = HolderOn(n), VerifiedOn(n)' = VerifiedOn(n)
      PROVE  StatusTrue(n)'
  BY <1>1, <1>a, <1>b DEF StatusTrue
<1>2. CASE ~Busy(w)
  <2>1. task[w] = NoTask /\ pc[w] # "patch"
    BY <1>2, <1>a, Zenon DEF FlowInv, WorkersBegun, Busy
  <2>2. order' = order /\ smd' = smd
    BY <2>1 DEF APIWorkerStep, Stamped, PatchComponent
  <2> QED
    BY <1>1, <1>2, <1>a, <2>2, IdleEndsNone
<1>3. CASE Busy(w)
  <2>1. PICK t \in Transitions, k \in Nodes : task[w] = <<t, k>>
    BY <1>3, <1>a, BusyTask DEF TypeInv
  <2>2. /\ t \in EndingOn(k) <=> pc[w] \in Ending
        /\ t \in HolderOn(k) <=> pc[w] \in Ending /\ w \in holding
        /\ t \in VerifiedOn(k) <=> pc[w] = "persistTask" /\ outcome[w] = "succeeded"
    BY <1>a, <2>1, OnlyWorker DEF Ending
  <2>3. /\ t \in EndingOn(k)' <=> task'[w] = task[w] /\ pc'[w] \in Ending
        /\ t \in HolderOn(k)' <=> task'[w] = task[w] /\ pc'[w] \in Ending /\ w \in holding'
        /\ t \in VerifiedOn(k)' <=> /\ task'[w] = task[w] /\ pc'[w] = "persistTask"
                                    /\ outcome'[w] = "succeeded"
        /\ \A u \in Transitions, j \in Nodes : <<u, j>> # <<t, k>> =>
              /\ u \in EndingOn(j)' <=> u \in EndingOn(j)
              /\ u \in HolderOn(j)' <=> u \in HolderOn(j)
              /\ u \in VerifiedOn(j)' <=> u \in VerifiedOn(j)
    BY <1>a, <2>1, EndsAfter
  <2>4. /\ \/ StampEnds(w, t, k) \/ StampBegins(w, t, k) \/ StampWritten(w, t, k)
           \/ TellsSMD(w, t, k) \/ NoStamp(w, k)
        /\ \A u \in Transitions, j \in Nodes :
              <<u, j>> # <<t, k>> => taskRow'[u][j] = taskRow[u][j]
    BY <2>1, StampKinds
  <2>5. CASE k # n
    <3>1. order'[n] = order[n] /\ smd'[n] = smd[n]
      BY <1>b, <2>4, <2>5 DEF StampEnds, StampBegins, StampWritten, TellsSMD, NoStamp
    <3>2. \A u \in Transitions : <<u, n>> # <<t, k>>
      BY <2>5
    <3>3. SucceededOn(n)' = SucceededOn(n)
      BY <2>4, <3>2 DEF SucceededOn
    <3>4. /\ EndingOn(n)' = EndingOn(n) /\ HolderOn(n)' = HolderOn(n)
          /\ VerifiedOn(n)' = VerifiedOn(n)
      BY <1>b, <1>c, <2>3, <3>2
    <3> QED
      BY <1>1, <3>1, <3>3, <3>4
  <2>6. CASE k = n
    <3>a. \A u \in Transitions \ {t} :
             /\ u \in EndingOn(n)' <=> u \in EndingOn(n)
             /\ u \in HolderOn(n)' <=> u \in HolderOn(n)
             /\ u \in VerifiedOn(n)' <=> u \in VerifiedOn(n)
             /\ u \in SucceededOn(n)' <=> u \in SucceededOn(n)
      BY <2>3, <2>4, <2>6 DEF SucceededOn
    <3>b. /\ t \in SucceededOn(n)' <=> taskRow'[t][n].state = "succeeded"
          /\ t \in SucceededOn(n) <=> taskRow[t][n].state = "succeeded"
          /\ SucceededOn(n)' \in SUBSET Transitions
      BY DEF SucceededOn
    <3>1. CASE StampEnds(w, t, n)
      <4>1. /\ t \notin EndingOn(n) /\ t \notin VerifiedOn(n) /\ t \notin HolderOn(n)
            /\ t \in EndingOn(n)' /\ t \notin VerifiedOn(n)' /\ UNCHANGED taskRow
            /\ order'[n] = Newest(order[n], <<t, "mem">>) /\ smd'[n] = smd[n]
        BY <1>b, <2>2, <2>3, <2>6, <3>1 DEF StampEnds, Ending
      <4>2. /\ EndingOn(n)' = EndingOn(n) \cup {t} /\ VerifiedOn(n)' = VerifiedOn(n)
            /\ HolderOn(n) \subseteq HolderOn(n)' /\ HolderOn(n)' \subseteq HolderOn(n) \cup {t}
            /\ SucceededOn(n)' = SucceededOn(n)
        BY <1>b, <1>c, <3>a, <3>b, <4>1
      <4>3. OrderTrue(order'[n], smd[n], wanted, SucceededOn(n), EndingOn(n) \cup {t},
                      HolderOn(n)', VerifiedOn(n))
        BY <1>b, <4>1, <4>2, NewestTrue
      <4> QED
        BY <1>a, <4>1, <4>2, <4>3 DEF StatusTrue
    <3>2. CASE StampBegins(w, t, n)
      <4>1. /\ t \notin EndingOn(n) /\ t \notin VerifiedOn(n) /\ t \notin HolderOn(n)
            /\ t \notin EndingOn(n)' /\ t \notin VerifiedOn(n)' /\ t \notin HolderOn(n)'
            /\ t \notin SucceededOn(n) /\ t \notin SucceededOn(n)' /\ smd'[n] = smd[n]
        BY <2>2, <2>3, <2>6, <3>2, <3>b DEF StampBegins, Ending, Finished, TerminalTaskStates
      <4>2. /\ EndingOn(n)' = EndingOn(n) /\ VerifiedOn(n)' = VerifiedOn(n)
            /\ HolderOn(n)' = HolderOn(n) /\ SucceededOn(n)' = SucceededOn(n)
        BY <1>b, <1>c, <3>a, <3>b, <4>1
      <4>3. order'[n] \in TakenBefore(order[n], <<t, "row">>)
        BY <1>b, <3>2 DEF StampBegins
      <4>4. OrderTrue(order'[n], smd[n], wanted, SucceededOn(n), EndingOn(n), HolderOn(n),
                      VerifiedOn(n))
        BY <1>b, <4>1, <4>3, TakenTrue
      <4> QED
        BY <1>a, <4>1, <4>2, <4>4 DEF StatusTrue
    <3>3. CASE StampWritten(w, t, n)
      <4>1. /\ t \in EndingOn(n) /\ t \notin EndingOn(n)' /\ t \notin VerifiedOn(n)'
            /\ t \notin HolderOn(n)' /\ (t \in SucceededOn(n)' <=> t \in VerifiedOn(n))
            /\ order'[n] = Written(order[n], t) /\ smd'[n] = smd[n]
        BY <1>b, <2>2, <2>3, <2>6, <3>3, <3>b DEF StampWritten, Ending
      <4>2. /\ EndingOn(n)' = EndingOn(n) \ {t} /\ VerifiedOn(n)' = VerifiedOn(n) \ {t}
            /\ HolderOn(n)' = HolderOn(n) \ {t}
            /\ SucceededOn(n)' = IF t \in VerifiedOn(n) THEN SucceededOn(n) \cup {t}
                                 ELSE SucceededOn(n) \ {t}
        BY <1>b, <1>c, <3>a, <3>b, <4>1
      <4>3. ASSUME t \in VerifiedOn(n) PROVE HolderOn(n) \subseteq {t}
        <5>1. t \in HolderOn(n)
          BY <1>b, <4>3 DEF OrderTrue
        <5> QED
          BY <5>1, OneHolder
      <4>4. OrderTrue(order'[n], smd[n], wanted, SucceededOn(n)', EndingOn(n) \ {t},
                      HolderOn(n) \ {t}, VerifiedOn(n) \ {t})
        BY <1>b, <4>1, <4>2, <4>3, WrittenTrue
      <4> QED
        BY <1>a, <4>1, <4>2, <4>4 DEF StatusTrue
    <3>4. CASE TellsSMD(w, t, n)
      <4>1. w \in holding /\ w \in holding'
        BY <3>4 DEF TellsSMD, CoreInv, SlotInv, SlotShape
      <4>2. /\ t \in HolderOn(n) /\ t \in HolderOn(n)' /\ t \in EndingOn(n) /\ t \in EndingOn(n)'
            /\ t \notin VerifiedOn(n) /\ UNCHANGED taskRow /\ order'[n] = order[n]
            /\ t \in VerifiedOn(n)' => smd'[n] = wanted[t]
        BY <1>b, <2>2, <2>3, <2>6, <3>4, <4>1 DEF TellsSMD, Ending
      <4>3. HolderOn(n) \subseteq {t} /\ VerifiedOn(n) \subseteq HolderOn(n)
        BY <1>b, <4>2, OneHolder DEF OrderTrue
      <4>4. /\ EndingOn(n)' = EndingOn(n) /\ HolderOn(n)' = HolderOn(n)
            /\ VerifiedOn(n)' \subseteq {t} /\ SucceededOn(n)' = SucceededOn(n)
        BY <1>b, <1>c, <3>a, <3>b, <4>2, <4>3
      <4>5. OrderTrue(order[n], smd'[n], wanted, SucceededOn(n), EndingOn(n), HolderOn(n),
                      VerifiedOn(n)')
        BY <1>b, <4>2, <4>3, <4>4, ToldTrue
      <4> QED
        BY <1>a, <4>2, <4>4, <4>5 DEF StatusTrue
    <3>5. CASE NoStamp(w, n)
      <4>1. /\ t \notin EndingOn(n) /\ t \notin VerifiedOn(n) /\ t \notin HolderOn(n)
            /\ t \notin EndingOn(n)' /\ t \notin VerifiedOn(n)' /\ t \notin HolderOn(n)'
            /\ UNCHANGED taskRow /\ order'[n] = order[n] /\ smd'[n] = smd[n]
        BY <1>b, <2>2, <2>3, <2>6, <3>5 DEF NoStamp, Ending
      <4>2. /\ EndingOn(n)' = EndingOn(n) /\ VerifiedOn(n)' = VerifiedOn(n)
            /\ HolderOn(n)' = HolderOn(n) /\ SucceededOn(n)' = SucceededOn(n)
        BY <1>b, <1>c, <3>a, <3>b, <4>1
      <4> QED
        BY <1>1, <4>1, <4>2
    <3> QED
      BY <2>4, <2>6, <3>1, <3>2, <3>3, <3>4, <3>5
  <2> QED
    BY <2>5, <2>6
<1> QED
  BY <1>2, <1>3

-----------------------------------------------------------------------------
(* The other steps.                                                        *)

\* A request stamps the rows it creates; nobody works on them yet.
LEMMA PostStatus ==
    ASSUME CoreInv, StatusTypeOK, NEW t \in Transitions, HandleAction(t), faults' = 0,
           NEW n \in Nodes, OneBMC(n)', OneBMC(n) => StatusTrue(n)
    PROVE  StatusTrue(n)'
<1>1. PICK nodes \in NodeSets[t], groups \in GroupSets[t], members \in Memberships,
           state \in PowerStates, dry \in DryRuns, m \in Mappings, r \in Results :
              PostTransition(t, nodes, groups, members, state, dry, m, r)
  BY DEF HandleAction
<1>2. PICK targets \in TargetSets :
         /\ StartTransition(t, targets, dry, m, r)
         /\ wanted' = [wanted EXCEPT ![t] = state]
         /\ order' \in IF Commits(r) THEN Orders(targets, <<t, "row">>) ELSE {order}
         /\ UNCHANGED smd
  BY <1>1, APIConstants DEF PostTransition
<1>3. /\ call[t] = "idle" /\ r \in StoreResults(TRUE) /\ CreateTransition(t, targets, dry, m, r)
      /\ request' = [request EXCEPT ![t] = [targets |-> targets, dry |-> dry, bmc |-> m]]
      /\ UNCHANGED <<pc, task, outcome, holding>>
  BY <1>2 DEF StartTransition, workerVars
<1>4. Commits(r)
  <2>1. CountFault(r)
    BY <1>3 DEF CreateTransition
  <2>2. TRUE => r = "ok"
    BY <1>3, <2>1, WriteHealth DEF CoreInv
  <2> QED
    BY <2>2 DEF Commits
<1>5. /\ \A u \in Transitions \ {t} : taskRow'[u] = taskRow[u]
      /\ taskRow'[t][n].state # "succeeded"
  BY <1>3, <1>4 DEF CreateTransition, InsertTransitionTasks, NewTaskState, CoreInv, TypeInv, TypeOK,
     StoreTypeOK
<1>6. OneBMC(n)
  <2>1. request[t].targets = {}
    BY <1>3 DEF CoreInv, RowInv, RowsOpen, RowOpen
  <2>2. \A u \in Transitions \ {t} : request'[u] = request[u]
    BY <1>3 DEF CoreInv, TypeInv, TypeOK, CallTypeOK
  <2> QED
    BY <2>1, <2>2 DEF OneBMC
<1>7. t \notin EndingOn(n) /\ t \notin HolderOn(n) /\ t \notin VerifiedOn(n)
  <2>1. \A w \in Workers : Busy(w) => task[w][1] # t
    BY <1>3, NoTaskBeforeBegun DEF CoreInv, Begun
  <2>2. \A w \in Workers : pc[w] \in Ending => task[w] # <<t, n>>
    BY <2>1 DEF Busy, Ending
  <2> QED
    BY <2>2 DEF EndingOn, HolderOn, VerifiedOn, Ends, Ending
<1>8. t \notin SucceededOn(n)
  <2>1. actions[t][n] = 0
    BY <1>3 DEF CoreInv, EffectInv, NothingBeforeBegun, Begun
  <2>2. taskRow[t][n].state = "succeeded" => actions[t][n] > 0
    BY DEF CoreInv, EffectInv, TasksTrue, TaskTrue
  <2> QED
    BY <2>1, <2>2 DEF SucceededOn
<1>9. /\ EndingOn(n)' = EndingOn(n) /\ HolderOn(n)' = HolderOn(n) /\ VerifiedOn(n)' = VerifiedOn(n)
  BY <1>3 DEF EndingOn, HolderOn, VerifiedOn, Ends
<1>10. SucceededOn(n)' = SucceededOn(n)
  BY <1>5, <1>8 DEF SucceededOn
<1>11. /\ OrderTrue(order[n], smd[n], wanted, SucceededOn(n), EndingOn(n), HolderOn(n), VerifiedOn(n))
       /\ SucceededOn(n) \in SUBSET Transitions /\ EndingOn(n) \in SUBSET Transitions
       /\ HolderOn(n) \in SUBSET Transitions /\ VerifiedOn(n) \in SUBSET Transitions
  BY <1>6 DEF StatusTrue, SucceededOn, EndingOn, HolderOn, VerifiedOn
<1>12. \A u \in Transitions \ {t} : wanted'[u] = wanted[u]
  BY <1>2 DEF StatusTypeOK
<1>13. order'[n] \in TakenBefore(order[n], <<t, "row">>) \/ order'[n] = order[n]
  BY <1>2, <1>4 DEF Orders
<1>14. OrderTrue(order'[n], smd[n], wanted', SucceededOn(n), EndingOn(n), HolderOn(n), VerifiedOn(n))
  <2>1. CASE order'[n] \in TakenBefore(order[n], <<t, "row">>)
    BY <1>7, <1>8, <1>11, <1>12, <2>1, TakenTrue
  <2>2. CASE order'[n] = order[n]
    <3>1. \A u \in SucceededOn(n) \cup VerifiedOn(n) : wanted'[u] = wanted[u]
      BY <1>7, <1>8, <1>11, <1>12
    <3>3. OrderTrue(order[n], smd[n], wanted', SucceededOn(n), EndingOn(n), HolderOn(n),
                    VerifiedOn(n))
      BY <1>11, <3>1, OtherWanted
    <3> QED
      BY <2>2, <3>3
  <2> QED
    BY <1>13, <2>1, <2>2
<1> QED
  BY <1>2, <1>9, <1>10, <1>14 DEF StatusTrue

LEMMA NextStatusTypeOK ==
    ASSUME StatusTypeOK, [APINext]_allVars
    PROVE  StatusTypeOK'
<1>1. ASSUME NEW t \in Transitions, HandleAction(t) PROVE StatusTypeOK'
  <2>1. PICK state, targets, r :
           /\ wanted' = [wanted EXCEPT ![t] = state]
           /\ order' \in IF Commits(r) THEN Orders(targets, <<t, "row">>) ELSE {order}
           /\ UNCHANGED <<smd, crashes>>
    BY <1>1, Zenon DEF HandleAction, PostTransition
  <2>2. DOMAIN order' = Nodes
    BY <2>1 DEF Orders, StatusTypeOK
  <2> QED
    BY <2>1, <2>2 DEF StatusTypeOK
<1>2. ASSUME NEW w \in Workers, APIWorkerStep(w) PROVE StatusTypeOK'
  <2>1. DOMAIN order' = Nodes
    BY <1>2 DEF APIWorkerStep, Stamped, StatusTypeOK
  <2>2. DOMAIN smd' = Nodes
    BY <1>2 DEF APIWorkerStep, PatchComponent, StatusTypeOK
  <2> QED
    BY <1>2, <2>1, <2>2 DEF APIWorkerStep, StatusTypeOK
<1>3. CASE Crash
  BY <1>3 DEF Crash, StatusTypeOK
<1>4. CASE UNCHANGED <<order, smd, wanted, crashes>>
  BY <1>4 DEF StatusTypeOK
<1> QED
  BY <1>1, <1>2, <1>3, <1>4 DEF APINext, LoadTransition, GetTransition, ListTransitionTasks,
     DeleteTransition, DeletePersist, apiVars, allVars

LEMMA NextStatusInv ==
    ASSUME CoreInv, StatusTypeOK, StatusInv, [APINext]_allVars
    PROVE  StatusInv'
<1> SUFFICES ASSUME PerBMC = 1, faults' = 0, crashes' = 0, NEW n \in Nodes, OneBMC(n)'
             PROVE  StatusTrue(n)'
  BY DEF StatusInv
<1>1. ~Crash
  BY DEF Crash, StatusTypeOK
<1>2. crashes = 0
  BY <1>1, PostIsStart DEF APINext, APIWorkerStep, LoadTransition, GetTransition,
     ListTransitionTasks, DeleteTransition, DeletePersist, apiVars, allVars
<1>3. faults = 0
  BY <1>1, APIStepIsStep, StepsCount DEF CoreInv
<1>4. OneBMC(n) => StatusTrue(n)
  BY <1>2, <1>3 DEF StatusInv
<1>5. CASE \E t \in Transitions : HandleAction(t)
  BY <1>4, <1>5, PostStatus
<1>6. ASSUME NEW w \in Workers, APIWorkerStep(w) PROVE StatusTrue(n)'
  <2>1. UNCHANGED request
    BY <1>6, OthersRest DEF APIWorkerStep, CoreInv
  <2>2. OneBMC(n)
    BY <2>1 DEF OneBMC
  <2> QED
    BY <1>4, <1>6, <2>2, WorkerStatus
<1>7. ASSUME UNCHANGED <<order, smd, wanted, taskRow, request, pc, task, outcome, holding>>
      PROVE  StatusTrue(n)'
  <2>1. OneBMC(n)
    BY <1>7 DEF OneBMC
  <2>2. /\ SucceededOn(n)' = SucceededOn(n) /\ EndingOn(n)' = EndingOn(n)
        /\ HolderOn(n)' = HolderOn(n) /\ VerifiedOn(n)' = VerifiedOn(n)
    BY <1>7 DEF SucceededOn, EndingOn, HolderOn, VerifiedOn, Ends
  <2> QED
    BY <1>4, <1>7, <2>1, <2>2 DEF StatusTrue
<1>8. CASE \/ \E t \in Transitions : CallStep(t) /\ UNCHANGED apiVars
           \/ \E t \in Transitions : EnqueueCanceled(t) /\ UNCHANGED apiVars
  <2>1. UNCHANGED <<order, smd, wanted, taskRow, request, pc, task, outcome, holding>>
    BY <1>8 DEF CallStep, ReturnTerminal, RegisterProgress, EnqueueCheck, EnqueueSend,
       EnqueuePanic, EnqueueCanceled, UpdateTransition, storeVars, workerVars, apiVars
  <2> QED
    BY <1>7, <2>1
<1>9. CASE \/ \E t \in Transitions : DeleteTransition(t)
           \/ \E t \in Transitions, r \in Results : DeletePersist(t, r)
  <2>1. UNCHANGED <<order, smd, wanted, taskRow, request, pc, task, outcome, holding>>
    BY <1>9 DEF DeleteTransition, DeletePersist, AbortTransition, PersistAbort, UpdateTransition,
       storeVars, workerVars, callVars, vars
  <2> QED
    BY <1>7, <2>1
<1>10. CASE LoadTransition \/ UNCHANGED allVars
  <2>1. UNCHANGED <<order, smd, wanted, taskRow, request, pc, task, outcome, holding>>
    BY <1>10 DEF LoadTransition, GetTransition, ListTransitionTasks, storeVars, workerVars,
       callVars, vars, apiVars, allVars
  <2> QED
    BY <1>7, <2>1
<1> QED
  BY <1>1, <1>5, <1>6, <1>8, <1>9, <1>10 DEF APINext

\* With one slot per BMC, GET /power-status and SMD agree on a node behind
\* one BMC: when its newest task succeeded and no task is at its end, SMD has
\* the state that task verified, however many transitions and workers stamp,
\* patch and write the node's tasks in separate steps.
THEOREM PowerStatusMatchesSMD == APISpec => []StatusMatchesSMD
<1>1. APIInit => StatusTypeOK /\ StatusInv
  <2> SUFFICES ASSUME APIInit PROVE StatusTypeOK /\ StatusInv
    OBVIOUS
  <2>1. StatusTypeOK
    BY DEF APIInit, StatusTypeOK
  <2>2. ASSUME NEW n \in Nodes PROVE StatusTrue(n)
    <3>1. order[n] = {} /\ Stamps(order[n]) = {}
      BY DEF APIInit, Stamps
    <3>2. /\ SucceededOn(n) = {} /\ EndingOn(n) = {} /\ HolderOn(n) = {} /\ VerifiedOn(n) = {}
      BY DEF APIInit, Init, SucceededOn, EndingOn, HolderOn, VerifiedOn, Ends
    <3>3. IsOrder(order[n])
      BY <3>1 DEF IsOrder
    <3> QED
      BY <3>1, <3>2, <3>3 DEF StatusTrue, OrderTrue
  <2> QED
    BY <2>1, <2>2 DEF StatusInv
<1>2. CoreInv /\ StatusTypeOK /\ StatusInv /\ [APINext]_allVars => StatusTypeOK' /\ StatusInv'
  BY NextStatusTypeOK, NextStatusInv
<1>3. CoreInv /\ StatusInv => StatusMatchesSMD
  <2> SUFFICES ASSUME CoreInv, StatusInv, PerBMC = 1, faults = 0, crashes = 0,
                      NEW n \in Nodes, OneBMC(n), ~Telling(n),
                      NEW t \in LatestTask(n), taskRow[t][n].state = "succeeded"
               PROVE  smd[n] = wanted[t]
    BY DEF StatusMatchesSMD, PowerStatus
  <2> DEFINE x == <<t, "row">>
  <2>1. /\ t \in Transitions /\ x \in Stamps(order[n])
        /\ \A u \in Transitions : <<u, "row">> \in Stamps(order[n]) =>
              <<<<u, "row">>, x>> \in order[n]
    BY DEF LatestTask
  <2>2. OrderTrue(order[n], smd[n], wanted, SucceededOn(n), EndingOn(n), HolderOn(n), VerifiedOn(n))
    BY DEF StatusInv, StatusTrue
  <2>3. t \in SucceededOn(n)
    BY <2>1 DEF SucceededOn
  <2>4. ASSUME NEW y \in Stamps(order[n]) \ {x}, <<x, y>> \in order[n] PROVE FALSE
    <3>1. IsOrder(order[n]) /\ Stamps(order[n]) \subseteq AllStamps
      BY <2>2, StampsOf DEF OrderTrue, IsOrder
    <3>2. PICK u \in Transitions : y = <<u, "row">> \/ y = <<u, "mem">>
      BY <3>1 DEF AllStamps
    <3>3. CASE y = <<u, "row">>
      BY <2>1, <2>4, <3>1, <3>3 DEF IsOrder
    <3>4. CASE y = <<u, "mem">>
      <4>1. u \in EndingOn(n)
        BY <2>2, <3>4 DEF OrderTrue
      <4>2. PICK w \in Workers : Ends(w, u, n)
        BY <4>1 DEF EndingOn
      <4> QED
        BY <4>2 DEF Ends, Telling
    <3> QED
      BY <3>2, <3>3, <3>4
  <2> QED
    BY <2>1, <2>2, <2>3, <2>4 DEF OrderTrue
<1> QED
  BY <1>1, <1>2, <1>3, CoreInvariant, PTL DEF APISpec

=============================================================================
