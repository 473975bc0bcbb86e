---------------------- MODULE TransitionOutcomeProofs ----------------------
(***************************************************************************)
(* What becomes of a task, and what the database, the outbox and a waiting *)
(* client say of it, for any number of transitions, nodes, workers and     *)
(* faults.                                                                 *)
(*                                                                         *)
(* EffectInv is about one task: how its actions, its SMD patch and its row *)
(* relate to the attempts and the outcome of the worker that runs it.  It  *)
(* needs FlowInv: nothing happens to a task behind its worker's back,      *)
(* because nobody else has it.  EndInv is about the transition: once its   *)
(* entry is gone and the final write done, the row shows the verdict, as   *)
(* long as no write has failed and the process lives.                      *)
(***************************************************************************)
EXTENDS TransitionRowProofs, WaitTransition

\* No transaction has failed and the runner's context is alive.
Healthy == faults = 0 /\ running

Finished(t, n) == taskRow[t][n].state \in TerminalTaskStates

\* Nothing has been done for the task yet.
Untouched(t, n) == actions[t][n] = 0 /\ ~Finished(t, n)

\* What is true of a task at any time.
TaskTrue(t, n) ==
    /\ actions[t][n] <= RetryAttempts
    /\ actions[t][n] > 0 => /\ n \in Mapped(request[t].targets, request[t].bmc)
                            /\ ~request[t].dry
    /\ Finished(t, n) => actions[t][n] <= taskRow[t][n].attempts
    /\ "succeeded" \in {taskRow[t][n].state, outcomes[t][n]} =>
          <<t, n>> \in patched /\ actions[t][n] > 0
    /\ taskResults[t][n] = IF Finished(t, n) THEN <<taskRow[t][n]>> ELSE <<>>
    /\ Healthy /\ outcomes[t][n] # "none" => taskRow[t][n].state = outcomes[t][n]

\* What is true of the task a worker has.
WorkTrue(w, t, n) ==
    /\ attempt[w] <= RetryAttempts
    /\ actions[t][n] <= attempt[w]
    /\ pc[w] \in {"mark", "persistRunning", "begin", "acquire"} => attempt[w] = 0
    /\ pc[w] \in {"execute", "backoff"} => attempt[w] < RetryAttempts
    /\ pc[w] \in {"inflight", "verify", "patch"} => actions[t][n] > 0
    /\ outcome[w] = "succeeded" => <<t, n>> \in patched /\ actions[t][n] > 0
    /\ pc[w] \notin {"record", "persistFinal"} => ~Finished(t, n)
    /\ Healthy /\ pc[w] = "record" => taskRow[t][n].state = outcome[w]

\* Nothing has been done for a call that has not begun, nor for a task nobody
\* runs.
NothingBeforeBegun ==
    \A t \in Transitions, n \in Nodes :
        /\ ~Begun(t) => actions[t][n] = 0
        /\ call[t] = "created" /\ ~request[t].dry
              /\ n \in Mapped(request[t].targets, request[t].bmc) => ~Finished(t, n)

WaitingUntouched ==
    /\ \A t \in Transitions : \A n \in toEnqueue[t] : Untouched(t, n)
    /\ \A t \in Transitions, n \in Nodes : Queued(t, n) => Untouched(t, n)

TasksTrue == \A t \in Transitions, n \in Nodes : TaskTrue(t, n)

WorkersTrue ==
    \A w \in Workers :
        /\ ~Busy(w) => attempt[w] = 0 /\ outcome[w] = "none"
        /\ \A t \in Transitions, n \in Nodes :
              Busy(w) /\ task[w] = <<t, n>> => WorkTrue(w, t, n)

EffectInv ==
    /\ NothingBeforeBegun
    /\ WaitingUntouched
    /\ TasksTrue
    /\ WorkersTrue

-----------------------------------------------------------------------------
(* What a step leaves alone.                                               *)

\* No failed transaction is forgotten and no stopped process restarts.
StaysUnhealthy == Healthy' => Healthy

\* Nothing that is true of the task changes, but that it may be patched.
SameTask(t, n) ==
    /\ actions'[t][n] = actions[t][n]
    /\ taskRow'[t][n] = taskRow[t][n]
    /\ taskResults'[t][n] = taskResults[t][n]
    /\ outcomes'[t][n] = outcomes[t][n]
    /\ request'[t] = request[t]

SameWorker(w) ==
    /\ pc'[w] = pc[w] /\ task'[w] = task[w]
    /\ attempt'[w] = attempt[w] /\ outcome'[w] = outcome[w]

LEMMA SameTaskTrue ==
    ASSUME NEW t \in Transitions, NEW n \in Nodes, TaskTrue(t, n), SameTask(t, n),
           patched \subseteq patched', StaysUnhealthy
    PROVE  TaskTrue(t, n)'
BY DEF TaskTrue, SameTask, Finished, StaysUnhealthy

LEMMA SameWorkTrue ==
    ASSUME NEW w \in Workers, NEW t \in Transitions, NEW n \in Nodes, WorkTrue(w, t, n),
           SameTask(t, n), SameWorker(w), patched \subseteq patched', StaysUnhealthy
    PROVE  WorkTrue(w, t, n)'
BY DEF WorkTrue, SameTask, SameWorker, Finished, StaysUnhealthy

\* A step of a worker concerns its own task only.
Touches(w, t, n) ==
    /\ Busy(w) /\ task[w] = <<t, n>> /\ t \in Transitions /\ n \in Nodes
    /\ UNCHANGED <<call, request, toEnqueue, queue, abort>>
    /\ \A v \in Workers \ {w} : SameWorker(v)
    /\ \A u \in Transitions, k \in Nodes : <<u, k>> # <<t, n>> => SameTask(u, k)
    /\ patched \subseteq patched'
    /\ StaysUnhealthy

\* It leaves the invariant true when it does so of that task: nobody else
\* has the task.
LEMMA TouchesEffectInv ==
    ASSUME TypeInv, FlowInv, EffectInv, NEW w \in Workers, NEW t, NEW n, Touches(w, t, n),
           TaskTrue(t, n)',
           \/ Busy(w)' /\ task'[w] = task[w] /\ WorkTrue(w, t, n)'
           \/ ~Busy(w)' /\ attempt'[w] = 0 /\ outcome'[w] = "none"
    PROVE  EffectInv'
<1>a. /\ Busy(w) /\ task[w] = <<t, n>> /\ t \in Transitions /\ n \in Nodes
      /\ UNCHANGED <<call, request, toEnqueue, queue, abort>>
      /\ \A v \in Workers \ {w} : SameWorker(v)
      /\ \A u \in Transitions, k \in Nodes : <<u, k>> # <<t, n>> => SameTask(u, k)
      /\ patched \subseteq patched'
      /\ StaysUnhealthy
  BY DEF Touches
<1>b. Begun(t) /\ <<t, n>> # NoTask
  BY <1>a, ConstantsAssumption DEF FlowInv, WorkersBegun
<1>2. NothingBeforeBegun'
  <2> SUFFICES ASSUME NEW u \in Transitions, NEW k \in Nodes
               PROVE  /\ ~Begun(u) => actions'[u][k] = 0
                      /\ call[u] = "created" /\ ~request[u].dry
                            /\ k \in Mapped(request[u].targets, request[u].bmc) => ~Finished(u, k)'
    BY <1>a DEF NothingBeforeBegun, Begun
  <2>1. CASE u = t
    BY <1>b, <2>1 DEF Begun
  <2>2. CASE u # t
    BY <1>a, <2>2 DEF EffectInv, NothingBeforeBegun, SameTask, Finished
  <2> QED
    BY <2>1, <2>2
<1>3. WaitingUntouched'
  <2>1. \A u \in Transitions, k \in Nodes :
           k \in toEnqueue[u] \/ Queued(u, k) => <<u, k>> # <<t, n>>
    BY <1>a DEF FlowInv, TaskInOnePlace, Held
  <2>2. \A u \in Transitions : toEnqueue[u] \subseteq Nodes
    BY DEF TypeInv, TypeOK, CallTypeOK
  <2>3. \A u \in Transitions, k \in Nodes : Queued(u, k)' <=> Queued(u, k)
    BY <1>a DEF Queued
  <2> QED
    BY <1>a, <2>1, <2>2, <2>3 DEF EffectInv, WaitingUntouched, Untouched, Finished, SameTask
<1>4. TasksTrue'
  <2> SUFFICES ASSUME NEW u \in Transitions, NEW k \in Nodes
               PROVE  TaskTrue(u, k)'
    BY DEF TasksTrue
  <2>1. CASE <<u, k>> = <<t, n>>
    BY <2>1
  <2>2. CASE <<u, k>> # <<t, n>>
    BY <1>a, <2>2, SameTaskTrue DEF EffectInv, TasksTrue
  <2> QED
    BY <2>1, <2>2
<1>5. WorkersTrue'
  <2>1. ASSUME NEW v \in Workers \ {w}
        PROVE  ~Busy(v)' => attempt'[v] = 0 /\ outcome'[v] = "none"
    BY <1>a DEF EffectInv, WorkersTrue, SameWorker, Busy
  <2>2. ASSUME NEW v \in Workers \ {w}, NEW u \in Transitions, NEW k \in Nodes,
               Busy(v)', task'[v] = <<u, k>>
        PROVE  WorkTrue(v, u, k)'
    <3>1. Busy(v) /\ task[v] = <<u, k>>
      BY <1>a, <2>2 DEF SameWorker, Busy
    <3>2. <<u, k>> # <<t, n>>
      BY <1>a, <1>b, <3>1 DEF FlowInv, TaskInOnePlace
    <3>3. WorkTrue(v, u, k)
      BY <3>1 DEF EffectInv, WorkersTrue
    <3> QED
      BY <1>a, <3>2, <3>3, SameWorkTrue
  <2>3. ASSUME NEW u \in Transitions, NEW k \in Nodes, Busy(w)', task'[w] = <<u, k>>
        PROVE  WorkTrue(w, u, k)'
    <3>1. u = t /\ k = n
      BY <1>a, <2>3
    <3> QED
      BY <2>3, <3>1
  <2> QED
    BY <2>1, <2>2, <2>3 DEF WorkersTrue
<1> QED
  BY <1>2, <1>3, <1>4, <1>5 DEF EffectInv

-----------------------------------------------------------------------------
(* The steps of a worker.                                                  *)

\* A write counts its failure, and with a live context it fails only so.
LEMMA WriteHealth ==
    ASSUME TypeInv, NEW alive \in BOOLEAN, NEW r \in StoreResults(alive), CountFault(r)
    PROVE  faults' = 0 => faults = 0 /\ (alive => r = "ok")
BY ConstantsAssumption DEF StoreResults, CountFault, TypeInv, TypeOK, StoreTypeOK

LEMMA UpdateTransitionTaskRow ==
    ASSUME TypeInv, NEW t \in Transitions, NEW n \in Nodes, NEW s, NEW r,
           UpdateTransitionTask(t, n, s, r)
    PROVE  /\ \A u \in Transitions, k \in Nodes : <<u, k>> # <<t, n>> =>
                 taskRow'[u][k] = taskRow[u][k] /\ taskResults'[u][k] = taskResults[u][k]
           /\ taskRow'[t][n] = IF Commits(r) THEN s ELSE taskRow[t][n]
           /\ taskResults'[t][n] = IF Commits(r) /\ s.state \in TerminalTaskStates
                                   THEN Append(taskResults[t][n], s) ELSE taskResults[t][n]
           /\ UNCHANGED <<row, lifecycle>>
<1>1. /\ taskRow \in [Transitions -> [Nodes -> TaskRows]]
      /\ taskResults \in [Transitions -> [Nodes -> Seq(TaskRows)]]
  BY DEF TypeInv, TypeOK, StoreTypeOK
<1> QED
  BY <1>1 DEF UpdateTransitionTask, WriteTaskResultEvent

\* A worker that retires leaves nothing behind.
LEMMA RetireClears ==
    ASSUME TypeInv, NEW w \in Workers, Retire(w)
    PROVE  /\ ~Busy(w)' /\ attempt'[w] = 0 /\ outcome'[w] = "none"
           /\ \A v \in Workers \ {w} : SameWorker(v)
BY DEF Retire, TypeInv, TypeOK, WorkerTypeOK, Busy, SameWorker

\* The steps of a worker that leave its task's actions, rows and outcome
\* alone.
Quiets(w) ==
    \/ MarkTransitionRunning(w) \/ CancelBeforeStart(w) \/ AcquireBMCLimiter(w)
    \/ ExecuteAnswer(w) \/ Backoff(w) \/ Verify(w) \/ UpdateNodePowerState(w)
    \/ \E class \in ErrorClasses : ExecuteRefused(w, class)
    \/ \E r \in Results : PersistRunning(w, r) \/ PersistFinal(w, r)

LEMMA QuietsTouches ==
    ASSUME TypeInv, NEW w \in Workers, Quiets(w)
    PROVE  \E t, n : Touches(w, t, n) /\ SameTask(t, n)
<1>a. Busy(w)
  BY DEF Quiets, MarkTransitionRunning, CancelBeforeStart, AcquireBMCLimiter, ExecuteAnswer,
         Backoff, Verify, UpdateNodePowerState, ExecuteRefused, PersistRunning, PersistFinal, Busy
<1>b. PICK t \in Transitions, n \in Nodes : task[w] = <<t, n>>
  BY <1>a, BusyTask DEF TypeInv
<1>c. UNCHANGED <<taskRow, taskResults, ctxDone, queue, running, call, request, toEnqueue, abort,
                  actions, outcomes>>
  BY DEF Quiets, MarkTransitionRunning, CancelBeforeStart, AcquireBMCLimiter, ExecuteAnswer,
         Backoff, Verify, UpdateNodePowerState, ExecuteRefused, PersistRunning, PersistFinal,
         UpdateTransition, storeVars, engineVars, callVars, worldVars
<1>d. patched \subseteq patched'
  BY DEF Quiets, MarkTransitionRunning, CancelBeforeStart, AcquireBMCLimiter, ExecuteAnswer,
         Backoff, Verify, UpdateNodePowerState, ExecuteRefused, PersistRunning, PersistFinal,
         worldVars
<1>e. \A v \in Workers \ {w} : SameWorker(v)
  <2>1. CASE MarkTransitionRunning(w) \/ \E r \in Results : PersistRunning(w, r) \/ PersistFinal(w, r)
    BY <2>1, RetireClears DEF MarkTransitionRunning, PersistRunning, PersistFinal, SameWorker,
       TypeInv, TypeOK, WorkerTypeOK
  <2>2. CASE \/ CancelBeforeStart(w) \/ AcquireBMCLimiter(w) \/ ExecuteAnswer(w) \/ Backoff(w)
             \/ Verify(w) \/ UpdateNodePowerState(w)
             \/ \E class \in ErrorClasses : ExecuteRefused(w, class)
    BY <2>2 DEF CancelBeforeStart, AcquireBMCLimiter, ExecuteAnswer, Backoff, Verify,
         UpdateNodePowerState, ExecuteRefused, AttemptFailed, Complete, SameWorker,
         TypeInv, TypeOK, WorkerTypeOK
  <2> QED
    BY <2>1, <2>2 DEF Quiets
<1>f. StaysUnhealthy
  <2>1. CASE \E r \in Results : PersistRunning(w, r) \/ PersistFinal(w, r)
    <3>1. PICK r \in Results : r \in StoreResults(running) /\ CountFault(r)
      BY <2>1 DEF PersistRunning, PersistFinal, UpdateTransition
    <3>2. running \in BOOLEAN
      BY DEF TypeInv, TypeOK, FlagsTypeOK
    <3> QED
      BY <1>c, <3>1, <3>2, WriteHealth DEF StaysUnhealthy, Healthy
  <2>2. CASE ~ \E r \in Results : PersistRunning(w, r) \/ PersistFinal(w, r)
    <3>1. UNCHANGED faults
      BY <2>2 DEF Quiets, MarkTransitionRunning, CancelBeforeStart, AcquireBMCLimiter,
         ExecuteAnswer, Backoff, Verify, UpdateNodePowerState, ExecuteRefused, storeVars
    <3> QED
      BY <1>c, <3>1 DEF StaysUnhealthy, Healthy
  <2> QED
    BY <2>1, <2>2
<1>g. Touches(w, t, n)
  BY <1>a, <1>b, <1>c, <1>d, <1>e, <1>f DEF Touches, SameTask
<1> QED
  BY <1>c, <1>g DEF SameTask

\* Each of them keeps what is true of the worker's task.
LEMMA QuietsEffectInv ==
    ASSUME TypeInv, FlowInv, EffectInv, NEW w \in Workers, Quiets(w)
    PROVE  EffectInv'
<1>a. PICK t, n : Touches(w, t, n) /\ SameTask(t, n)
  BY QuietsTouches
<1>b. /\ Busy(w) /\ task[w] = <<t, n>> /\ t \in Transitions /\ n \in Nodes
      /\ patched \subseteq patched' /\ StaysUnhealthy
  BY <1>a DEF Touches
<1>c. TaskTrue(t, n)'
  BY <1>a, <1>b, SameTaskTrue DEF EffectInv, TasksTrue
<1>d. WorkTrue(w, t, n)
  BY <1>b DEF EffectInv, WorkersTrue
<1>e. /\ actions'[t][n] = actions[t][n] /\ taskRow'[t][n] = taskRow[t][n]
      /\ actions[t][n] \in Nat /\ attempt[w] \in Nat /\ RetryAttempts \in Nat \ {0}
  BY <1>a, <1>b, ConstantsAssumption DEF SameTask, TypeInv, TypeOK, WorldTypeOK, WorkerTypeOK
<1> USE DEF TypeInv, TypeOK, WorkerTypeOK
<1>1. CASE Retire(w)
  BY <1>a, <1>c, <1>1, RetireClears, TouchesEffectInv
<1>2. CASE ~Retire(w)
  <2>1. task'[w] = task[w]
    BY <1>2 DEF Quiets, MarkTransitionRunning, CancelBeforeStart, AcquireBMCLimiter, ExecuteAnswer,
       Backoff, Verify, UpdateNodePowerState, ExecuteRefused, PersistRunning, PersistFinal
  <2>2. CASE MarkTransitionRunning(w) \/ \E r \in Results : PersistRunning(w, r) \/ PersistFinal(w, r)
    <3>1. /\ pc[w] \in {"mark", "persistRunning"}
          /\ pc'[w] \in {"persistRunning", "begin"}
          /\ attempt'[w] = attempt[w] /\ outcome'[w] = outcome[w]
      BY <1>2, <2>2 DEF MarkTransitionRunning, PersistRunning, PersistFinal
    <3>2. WorkTrue(w, t, n)' /\ Busy(w)'
      BY <1>b, <1>d, <1>e, <3>1 DEF WorkTrue, Finished, Busy
    <3> QED
      BY <1>a, <1>c, <2>1, <3>2, TouchesEffectInv
  <2>3. CASE CancelBeforeStart(w) \/ AcquireBMCLimiter(w)
    <3>1. /\ pc[w] \in {"begin", "acquire"}
          /\ attempt'[w] = attempt[w]
          /\ \/ pc'[w] = "execute" /\ outcome'[w] = outcome[w]
             \/ pc'[w] = "persistTask" /\ outcome'[w] = "canceled"
      BY <2>3 DEF CancelBeforeStart, AcquireBMCLimiter, Complete
    <3>2. WorkTrue(w, t, n)' /\ Busy(w)'
      BY <1>b, <1>d, <1>e, <3>1 DEF WorkTrue, Finished, Busy
    <3> QED
      BY <1>a, <1>c, <2>1, <3>2, TouchesEffectInv
  <2>4. CASE ExecuteAnswer(w) \/ Backoff(w) \/ Verify(w)
    <3>1. /\ pc[w] \in {"inflight", "backoff", "verify"}
          /\ attempt'[w] = attempt[w]
          /\ \/ /\ outcome'[w] = outcome[w]
                /\ \/ pc[w] = "inflight" /\ pc'[w] = "verify"
                   \/ pc[w] = "inflight" /\ pc'[w] = "backoff" /\ attempt[w] < RetryAttempts
                   \/ pc[w] = "backoff" /\ pc'[w] = "execute"
                   \/ pc[w] = "verify" /\ pc'[w] = "patch"
             \/ pc'[w] = "persistTask" /\ outcome'[w] \in {"failed", "canceled"}
      BY <2>4 DEF ExecuteAnswer, Backoff, Verify, AttemptFailed, Complete
    <3>2. WorkTrue(w, t, n)' /\ Busy(w)'
      BY <1>b, <1>d, <1>e, <3>1 DEF WorkTrue, Finished, Busy
    <3> QED
      BY <1>a, <1>c, <2>1, <3>2, TouchesEffectInv
  <2>5. CASE \E class \in ErrorClasses : ExecuteRefused(w, class)
    <3>1. /\ pc[w] = "execute"
          /\ attempt'[w] = attempt[w] + 1
          /\ \/ pc'[w] = "backoff" /\ outcome'[w] = outcome[w] /\ attempt[w] + 1 < RetryAttempts
             \/ pc'[w] = "persistTask" /\ outcome'[w] \in {"failed", "canceled"}
      BY <2>5 DEF ExecuteRefused, AttemptFailed, Complete
    <3>2. WorkTrue(w, t, n)' /\ Busy(w)'
      BY <1>b, <1>d, <1>e, <3>1 DEF WorkTrue, Finished, Busy
    <3> QED
      BY <1>a, <1>c, <2>1, <3>2, TouchesEffectInv
  <2>6. CASE UpdateNodePowerState(w)
    <3>1. /\ pc[w] = "patch" /\ pc'[w] = "persistTask" /\ attempt'[w] = attempt[w]
          /\ \/ outcome'[w] = "succeeded" /\ <<t, n>> \in patched'
             \/ outcome'[w] = "failed"
      BY <1>b, <2>6 DEF UpdateNodePowerState, Complete
    <3>2. WorkTrue(w, t, n)' /\ Busy(w)'
      BY <1>b, <1>d, <1>e, <3>1 DEF WorkTrue, Finished, Busy
    <3> QED
      BY <1>a, <1>c, <2>1, <3>2, TouchesEffectInv
  <2> QED
    BY <2>2, <2>3, <2>4, <2>5, <2>6 DEF Quiets
<1> QED
  BY <1>1, <1>2

\* The two writes of a task's row: "running", over a row that is not
\* terminal, and the result, once.
LEMMA TaskWriteEffectInv ==
    ASSUME TypeInv, FlowInv, EffectInv, NEW w \in Workers, NEW r \in Results,
           BeginTask(w, r) \/ PersistTask(w, r)
    PROVE  EffectInv'
<1> DEFINE s == IF pc[w] = "begin" THEN [state |-> "running", attempts |-> 0]
                ELSE [state |-> outcome[w], attempts |-> attempt[w]]
<1>a. /\ pc[w] \in {"begin", "persistTask"} /\ Busy(w)
      /\ r \in StoreResults(running)
      /\ pc' = [pc EXCEPT ![w] = IF pc[w] = "begin" THEN "acquire" ELSE "record"]
      /\ UNCHANGED <<ctxDone, queue, running, call, request, toEnqueue, abort, task, attempt,
                     outcome, actions, patched, outcomes>>
  BY DEF BeginTask, PersistTask, engineVars, callVars, worldVars, Busy
<1>b. PICK t \in Transitions, n \in Nodes : task[w] = <<t, n>>
  BY <1>a, BusyTask DEF TypeInv
<1>c. UpdateTransitionTask(t, n, s, r) /\ CountFault(r)
  BY <1>b DEF BeginTask, PersistTask, UpdateTransitionTask
<1>d. /\ \A u \in Transitions, k \in Nodes : <<u, k>> # <<t, n>> =>
            taskRow'[u][k] = taskRow[u][k] /\ taskResults'[u][k] = taskResults[u][k]
      /\ taskRow'[t][n] = IF Commits(r) THEN s ELSE taskRow[t][n]
      /\ taskResults'[t][n] = IF Commits(r) /\ s.state \in TerminalTaskStates
                              THEN Append(taskResults[t][n], s) ELSE taskResults[t][n]
  BY <1>c, UpdateTransitionTaskRow
<1>e. faults' = 0 => faults = 0 /\ (running => r = "ok")
  BY <1>a, <1>c, WriteHealth DEF TypeInv, TypeOK, FlagsTypeOK
<1>f. Touches(w, t, n)
  BY <1>a, <1>b, <1>d, <1>e
     DEF Touches, SameTask, SameWorker, StaysUnhealthy, Healthy, TypeInv, TypeOK, WorkerTypeOK
<1>g. TaskTrue(t, n) /\ WorkTrue(w, t, n)
  BY <1>a, <1>b DEF EffectInv, TasksTrue, WorkersTrue
<1>h. /\ ~Finished(t, n) /\ taskResults[t][n] = <<>> /\ outcomes[t][n] = "none"
      /\ actions[t][n] <= attempt[w]
  BY <1>a, <1>b, <1>g DEF TaskTrue, WorkTrue, FlowInv, TasksToCount, ToCount
<1>i. outcome[w] \in Outcomes /\ (pc[w] = "persistTask" => outcome[w] # "none")
  BY DEF TypeInv, TypeOK, WorkerTypeOK, WorkerShape
<1>j. /\ pc[w] = "begin" => s.state = "running"
      /\ pc[w] = "persistTask" => s.state = outcome[w] /\ s.attempts = attempt[w]
                                  /\ s.state \in TerminalTaskStates
  BY <1>i DEF Outcomes, TerminalTaskStates
<1>k. Append(<<>>, s) = <<s>> /\ "running" \notin TerminalTaskStates
  BY DEF TerminalTaskStates
<1> HIDE DEF s
<1>1. TaskTrue(t, n)'
  <2>1. CASE ~Commits(r)
    BY <1>a, <1>d, <1>g, <1>h, <2>1 DEF TaskTrue, Finished
  <2>2. CASE Commits(r) /\ pc[w] = "begin"
    <3>1. taskRow'[t][n] = s /\ taskResults'[t][n] = <<>> /\ ~Finished(t, n)'
      BY <1>d, <1>h, <1>j, <1>k, <2>2 DEF Finished
    <3> QED
      BY <1>a, <1>g, <1>h, <1>j, <2>2, <3>1 DEF TaskTrue
  <2>3. CASE Commits(r) /\ pc[w] = "persistTask"
    <3>1. taskRow'[t][n] = s /\ taskResults'[t][n] = <<s>> /\ Finished(t, n)'
      BY <1>d, <1>h, <1>j, <1>k, <2>3 DEF Finished
    <3>2. outcome[w] = "succeeded" => <<t, n>> \in patched /\ actions[t][n] > 0
      BY <1>g DEF WorkTrue
    <3> QED
      BY <1>a, <1>g, <1>h, <1>j, <2>3, <3>1, <3>2 DEF TaskTrue
  <2> QED
    BY <1>a, <2>1, <2>2, <2>3
<1>2. WorkTrue(w, t, n)'
  <2>1. CASE pc[w] = "begin"
    <3>1. pc'[w] = "acquire" /\ attempt[w] = 0 /\ ~Finished(t, n)'
      BY <1>a, <1>d, <1>g, <1>h, <1>j, <1>k, <2>1
         DEF WorkTrue, Finished, TypeInv, TypeOK, WorkerTypeOK
    <3> QED
      BY <1>a, <1>g, <3>1 DEF WorkTrue
  <2>2. CASE pc[w] = "persistTask"
    <3>1. pc'[w] = "record"
      BY <1>a, <2>2 DEF TypeInv, TypeOK, WorkerTypeOK
    <3>2. Healthy' => taskRow'[t][n].state = outcome[w]
      BY <1>a, <1>d, <1>e, <1>j, <2>2 DEF Healthy, Commits
    <3> QED
      BY <1>a, <1>g, <3>1, <3>2 DEF WorkTrue
  <2> QED
    BY <1>a, <2>1, <2>2
<1>3. Busy(w)' /\ task'[w] = task[w]
  BY <1>a DEF Busy, TypeInv, TypeOK, WorkerTypeOK
<1> QED
  BY <1>1, <1>2, <1>3, <1>f, TouchesEffectInv

\* A reset action is sent within the attempts, for a task that is to be
\* counted.
LEMMA ExecuteSendEffectInv ==
    ASSUME TypeInv, FlowInv, EffectInv, NEW w \in Workers, ExecuteSend(w)
    PROVE  EffectInv'
<1>a. /\ pc[w] = "execute" /\ Busy(w) /\ pc' = [pc EXCEPT ![w] = "inflight"]
      /\ attempt' = [attempt EXCEPT ![w] = @ + 1]
      /\ UNCHANGED <<taskRow, taskResults, faults, ctxDone, queue, running, call, request, toEnqueue,
                     abort, task, outcome, patched, outcomes>>
  BY DEF ExecuteSend, storeVars, engineVars, callVars, Busy
<1>b. PICK t \in Transitions, n \in Nodes : task[w] = <<t, n>>
  BY <1>a, BusyTask DEF TypeInv
<1>c. actions' = [actions EXCEPT ![t][n] = @ + 1]
  BY <1>b DEF ExecuteSend
<1>d. /\ \A u \in Transitions, k \in Nodes : <<u, k>> # <<t, n>> => actions'[u][k] = actions[u][k]
      /\ actions'[t][n] = actions[t][n] + 1 /\ actions[t][n] \in Nat
  BY <1>c DEF TypeInv, TypeOK, WorldTypeOK
<1>e. attempt'[w] = attempt[w] + 1 /\ attempt[w] \in Nat /\ RetryAttempts \in Nat /\ pc'[w] = "inflight"
  BY <1>a, ConstantsAssumption DEF TypeInv, TypeOK, WorkerTypeOK
<1>f. Touches(w, t, n)
  BY <1>a, <1>b, <1>d
     DEF Touches, SameTask, SameWorker, StaysUnhealthy, Healthy, TypeInv, TypeOK, WorkerTypeOK
<1>g. TaskTrue(t, n) /\ WorkTrue(w, t, n)
  BY <1>a, <1>b DEF EffectInv, TasksTrue, WorkersTrue
<1>h. n \in Mapped(request[t].targets, request[t].bmc) /\ ~request[t].dry
  BY <1>a, <1>b DEF FlowInv, TasksToCount, ToCount, EntriesOfMapped
<1>i. attempt[w] < RetryAttempts /\ actions[t][n] <= attempt[w] /\ ~Finished(t, n)
  BY <1>a, <1>g DEF WorkTrue
<1>1. TaskTrue(t, n)'
  BY <1>a, <1>d, <1>e, <1>g, <1>h, <1>i DEF TaskTrue, Finished, Healthy
<1>2. WorkTrue(w, t, n)'
  BY <1>a, <1>d, <1>e, <1>g, <1>i DEF WorkTrue, Finished, Healthy
<1>3. Busy(w)' /\ task'[w] = task[w]
  BY <1>a, <1>e DEF Busy
<1> QED
  BY <1>1, <1>2, <1>3, <1>f, TouchesEffectInv

\* The outcome that is counted is the one the task's row shows.
LEMMA RecordTaskOutcomeEffectInv ==
    ASSUME TypeInv, FlowInv, EffectInv, NEW w \in Workers, RecordTaskOutcome(w)
    PROVE  EffectInv'
<1>r. PICK t, n, o : Records(w, t, n, o) /\ o = outcome[w]
  BY RecordTaskOutcomeRecords
<1>a. /\ pc[w] = "record" /\ Busy(w) /\ task[w] = <<t, n>> /\ t \in Transitions /\ n \in Nodes
      /\ outcomes' = [outcomes EXCEPT ![t][n] = o]
      /\ UNCHANGED <<call, queue, request, toEnqueue, abort>>
  BY <1>r DEF Records
<1>b. /\ UNCHANGED <<taskRow, taskResults, faults, running, actions, patched>>
      /\ \A u \in Transitions : ctxDone[u] => ctxDone'[u]
  BY <1>a DEF RecordTaskOutcome, storeVars, TypeInv, TypeOK, FlagsTypeOK
<1>c. \/ Retire(w)
      \/ /\ pc' = [pc EXCEPT ![w] = "persistFinal"]
         /\ UNCHANGED <<task, attempt, outcome>>
  BY <1>r DEF Records, RecordTaskOutcome
<1>d. /\ \A u \in Transitions, k \in Nodes : <<u, k>> # <<t, n>> => outcomes'[u][k] = outcomes[u][k]
      /\ outcomes'[t][n] = o
  BY <1>a DEF TypeInv, TypeOK, WorldTypeOK
<1>e. \A v \in Workers \ {w} : SameWorker(v)
  BY <1>c, RetireClears DEF SameWorker, TypeInv, TypeOK, WorkerTypeOK
<1>f. Touches(w, t, n)
  BY <1>a, <1>b, <1>d, <1>e DEF Touches, SameTask, StaysUnhealthy, Healthy
<1>g. TaskTrue(t, n) /\ WorkTrue(w, t, n)
  BY <1>a DEF EffectInv, TasksTrue, WorkersTrue
<1>1. TaskTrue(t, n)'
  BY <1>r, <1>a, <1>b, <1>d, <1>g DEF TaskTrue, WorkTrue, Finished, Healthy
<1>2. CASE Retire(w)
  BY <1>1, <1>f, <1>2, RetireClears, TouchesEffectInv
<1>3. CASE pc' = [pc EXCEPT ![w] = "persistFinal"] /\ UNCHANGED <<task, attempt, outcome>>
  <2>1. pc'[w] = "persistFinal"
    BY <1>3 DEF TypeInv, TypeOK, WorkerTypeOK
  <2>2. WorkTrue(w, t, n)' /\ Busy(w)' /\ task'[w] = task[w]
    BY <1>b, <1>g, <1>3, <2>1 DEF WorkTrue, Finished, Healthy, Busy
  <2> QED
    BY <1>1, <1>f, <2>2, TouchesEffectInv
<1> QED
  BY <1>c, <1>2, <1>3

-----------------------------------------------------------------------------
(* The steps of calls, of the process, and of idle workers.                *)

LEMMA InitEffectInv == Init => EffectInv
<1> SUFFICES ASSUME Init PROVE EffectInv
  OBVIOUS
<1>1. NothingBeforeBegun
  BY DEF Init, NothingBeforeBegun
<1>2. WaitingUntouched
  BY DEF Init, WaitingUntouched, Queued
<1>3. TasksTrue
  BY ConstantsAssumption DEF Init, TasksTrue, TaskTrue, Finished, TerminalTaskStates
<1>4. WorkersTrue
  BY DEF Init, WorkersTrue, Busy
<1> QED
  BY <1>1, <1>2, <1>3, <1>4 DEF EffectInv

\* A step that changes nothing about any task or any busy worker.
LEMMA StillTrue ==
    ASSUME EffectInv, StaysUnhealthy, \A w \in Workers : SameWorker(w),
           UNCHANGED <<actions, taskRow, taskResults, outcomes, request, patched>>
    PROVE  TasksTrue' /\ WorkersTrue'
<1>1. \A t \in Transitions, n \in Nodes : SameTask(t, n)
  BY DEF SameTask
<1>2. TasksTrue'
  BY <1>1, SameTaskTrue DEF EffectInv, TasksTrue
<1>3. WorkersTrue'
  <2>1. \A w \in Workers : ~Busy(w)' => attempt'[w] = 0 /\ outcome'[w] = "none"
    BY DEF EffectInv, WorkersTrue, SameWorker, Busy
  <2>2. ASSUME NEW w \in Workers, NEW t \in Transitions, NEW n \in Nodes,
               Busy(w)', task'[w] = <<t, n>>
        PROVE  WorkTrue(w, t, n)'
    <3>1. WorkTrue(w, t, n)
      BY <2>2 DEF EffectInv, WorkersTrue, SameWorker, Busy
    <3> QED
      BY <1>1, <3>1, SameWorkTrue
  <2> QED
    BY <2>1, <2>2 DEF WorkersTrue
<1> QED
  BY <1>2, <1>3

\* The steps of calls and of the process that concern no task.
LEMMA CallsEffectInv ==
    ASSUME TypeInv, EffectInv,
           \/ Shutdown \/ CloseQueue \/ Wait \/ UNCHANGED vars
           \/ \E t \in Transitions :
                 \/ EnqueueCheck(t) \/ EnqueueCanceled(t) \/ EnqueuePanic(t) \/ AbortTransition(t)
                 \/ \E r \in Results : ReturnTerminal(t, r) \/ PersistAbort(t, r)
    PROVE  EffectInv'
<1>1. UNCHANGED <<actions, taskRow, taskResults, outcomes, request, patched, toEnqueue, queue,
                  pc, task, attempt, outcome>>
  BY DEF Shutdown, CloseQueue, Wait, vars, EnqueueCheck, EnqueueCanceled, EnqueuePanic,
         AbortTransition, ReturnTerminal, PersistAbort, UpdateTransition,
         storeVars, engineVars, callVars, workerVars, worldVars
<1>2. \A t \in Transitions : (Begun(t) => Begun(t)') /\ (call'[t] = "created" => call[t] = "created")
  BY ZenonT(60) DEF Begun, Shutdown, CloseQueue, Wait, vars, EnqueueCheck, EnqueueCanceled, EnqueuePanic,
         AbortTransition, ReturnTerminal, PersistAbort, callVars, TypeInv, TypeOK, CallTypeOK
<1>3. StaysUnhealthy
  <2>1. ASSUME NEW t \in Transitions, NEW r \in Results, ReturnTerminal(t, r) \/ PersistAbort(t, r)
        PROVE  StaysUnhealthy
    <3>1. r \in StoreResults(TRUE) /\ CountFault(r) /\ UNCHANGED running
      BY <2>1 DEF ReturnTerminal, PersistAbort, UpdateTransition, engineVars
    <3> QED
      BY <3>1, WriteHealth DEF StaysUnhealthy, Healthy
  <2>2. CASE \/ Shutdown \/ CloseQueue \/ Wait \/ UNCHANGED vars
             \/ \E t \in Transitions :
                   EnqueueCheck(t) \/ EnqueueCanceled(t) \/ EnqueuePanic(t) \/ AbortTransition(t)
    BY <2>2 DEF StaysUnhealthy, Healthy, Shutdown, CloseQueue, Wait, vars, EnqueueCheck,
       EnqueueCanceled, EnqueuePanic, AbortTransition, storeVars, engineVars
  <2> QED
    BY <2>1, <2>2
<1>5. NothingBeforeBegun' /\ WaitingUntouched'
  BY <1>1, <1>2 DEF EffectInv, NothingBeforeBegun, WaitingUntouched, Untouched, Finished, Queued
<1>6. TasksTrue' /\ WorkersTrue'
  BY <1>1, <1>3, StillTrue DEF SameWorker
<1> QED
  BY <1>5, <1>6 DEF EffectInv

\* The tasks a call is about to enqueue, enqueues, and a worker takes are
\* untouched.
LEMMA HandoverEffectInv ==
    ASSUME TypeInv, FlowInv, EffectInv,
           \/ \E t \in Transitions : RegisterProgress(t) \/ EnqueueSend(t)
           \/ \E w \in Workers : Dequeue(w) \/ WorkerExit(w)
    PROVE  EffectInv'
<1>1. UNCHANGED <<actions, taskRow, taskResults, outcomes, request, patched, abort, ctxDone,
                  faults, running, attempt, outcome>>
  BY DEF RegisterProgress, EnqueueSend, Dequeue, WorkerExit, storeVars, engineVars, callVars,
         workerVars, worldVars
<1>2. StaysUnhealthy
  BY <1>1 DEF StaysUnhealthy, Healthy
<1>3. NothingBeforeBegun'
  <2>1. \A t \in Transitions : (Begun(t) => Begun(t)') /\ (call'[t] = "created" => call[t] = "created")
    BY DEF Begun, RegisterProgress, EnqueueSend, Dequeue, WorkerExit, callVars, TypeInv, TypeOK,
           CallTypeOK
  <2> QED
    BY <1>1, <2>1 DEF EffectInv, NothingBeforeBegun, Finished
<1>4. \A t \in Transitions, n \in Nodes : SameTask(t, n)
  BY <1>1 DEF SameTask
<1>5. \A t \in Transitions, n \in Nodes : Untouched(t, n)' <=> Untouched(t, n)
  BY <1>1 DEF Untouched, Finished
<1>6. ASSUME NEW t \in Transitions, RegisterProgress(t) PROVE EffectInv'
  <2>1. /\ call[t] = "created" /\ ~row[t].completed /\ UNCHANGED queue
        /\ toEnqueue'[t] = Mapped(request[t].targets, request[t].bmc)
        /\ \A u \in Transitions \ {t} : toEnqueue'[u] = toEnqueue[u]
        /\ \A w \in Workers : SameWorker(w)
    BY <1>6 DEF RegisterProgress, workerVars, SameWorker, TypeInv, TypeOK, CallTypeOK
  <2>2. ~request[t].dry /\ ~Begun(t)
    <3>1. row[t] = NewTransition(request[t].targets, request[t].dry, request[t].bmc)
      BY <2>1 DEF FlowInv, CallsNotBegun
    <3>2. ~request[t].dry
      BY <2>1, <3>1, NewTransitionFields
    <3> QED
      BY <2>1, <3>2 DEF Begun
  <2>3. Mapped(request[t].targets, request[t].bmc) \subseteq Nodes
    BY DEF TypeInv, TypeOK, CallTypeOK, Requests, Mapped
  <2>4. \A n \in toEnqueue'[t] : Untouched(t, n)
    BY <2>1, <2>2, <2>3 DEF EffectInv, NothingBeforeBegun, Untouched
  <2>5. \A u \in Transitions, n \in Nodes : Queued(u, n)' <=> Queued(u, n)
    BY <2>1 DEF Queued
  <2>6. \A u \in Transitions : toEnqueue[u] \subseteq Nodes
    BY DEF TypeInv, TypeOK, CallTypeOK
  <2>7. WaitingUntouched'
    BY <1>5, <2>1, <2>3, <2>4, <2>5, <2>6 DEF EffectInv, WaitingUntouched
  <2>8. TasksTrue' /\ WorkersTrue'
    BY <1>1, <1>2, <2>1, StillTrue
  <2> QED
    BY <1>2, <1>3, <2>7, <2>8 DEF EffectInv
<1>7. ASSUME NEW t \in Transitions, EnqueueSend(t) PROVE EffectInv'
  <2>1. PICK n \in toEnqueue[t] :
          /\ queue' = Append(queue, <<t, n>>)
          /\ toEnqueue' = [toEnqueue EXCEPT ![t] = @ \ {n}]
          /\ \A w \in Workers : SameWorker(w)
    BY <1>7 DEF EnqueueSend, workerVars, SameWorker
  <2>2. queue \in Seq(Transitions \X Nodes) /\ \A u \in Transitions : toEnqueue[u] \subseteq Nodes
    BY DEF TypeInv, TypeOK, EngineTypeOK, CallTypeOK
  <2>3. \A u \in Transitions : toEnqueue'[u] \subseteq toEnqueue[u]
    BY <2>1 DEF TypeInv, TypeOK, CallTypeOK
  <2>4. \A u \in Transitions, k \in Nodes : Queued(u, k)' => Queued(u, k) \/ (u = t /\ k = n)
    BY <2>1, <2>2 DEF Queued
  <2>5. WaitingUntouched'
    <3>1. Untouched(t, n)
      BY <2>1 DEF EffectInv, WaitingUntouched
    <3> QED
      BY <1>5, <2>2, <2>3, <2>4, <3>1 DEF EffectInv, WaitingUntouched
  <2>6. TasksTrue' /\ WorkersTrue'
    BY <1>1, <1>2, <2>1, StillTrue
  <2> QED
    BY <1>2, <1>3, <2>5, <2>6 DEF EffectInv
<1>8. ASSUME NEW w \in Workers, Dequeue(w) \/ WorkerExit(w) PROVE EffectInv'
  <2>1. /\ pc[w] = "idle" /\ UNCHANGED toEnqueue
        /\ \A v \in Workers \ {w} : SameWorker(v)
    BY <1>1, <1>8 DEF Dequeue, WorkerExit, callVars, SameWorker, TypeInv, TypeOK, WorkerTypeOK
  <2>2. queue \in Seq(Transitions \X Nodes) /\ \A u \in Transitions : toEnqueue[u] \subseteq Nodes
    BY DEF TypeInv, TypeOK, EngineTypeOK, CallTypeOK
  <2>3. \/ pc'[w] = "exited" /\ UNCHANGED queue
        \/ /\ pc'[w] = "mark" /\ queue # <<>> /\ queue' = Tail(queue) /\ task'[w] = queue[1]
    BY <1>8, <2>2 DEF Dequeue, WorkerExit, engineVars, TypeInv, TypeOK, WorkerTypeOK
  <2>4. \A u \in Transitions, k \in Nodes : Queued(u, k)' => Queued(u, k)
    <3>1. CASE UNCHANGED queue
      BY <3>1 DEF Queued
    <3>2. CASE queue # <<>> /\ queue' = Tail(queue)
      <4>1. \A i \in DOMAIN queue' : i + 1 \in DOMAIN queue /\ queue'[i] = queue[i + 1]
        BY <2>2, <3>2
      <4> QED
        BY <4>1 DEF Queued
    <3> QED
      BY <2>3, <3>1, <3>2
  <2>5. WaitingUntouched'
    BY <1>5, <2>1, <2>2, <2>4 DEF EffectInv, WaitingUntouched
  <2>6. attempt[w] = 0 /\ outcome[w] = "none"
    BY <2>1 DEF EffectInv, WorkersTrue, Busy
  <2>7. TasksTrue'
    BY <1>1, <1>2, <1>4, SameTaskTrue DEF EffectInv, TasksTrue
  <2>8. ASSUME NEW v \in Workers, NEW t \in Transitions, NEW n \in Nodes,
               Busy(v)', task'[v] = <<t, n>>
        PROVE  WorkTrue(v, t, n)'
    <3>1. CASE v # w
      <4>1. SameWorker(v) /\ WorkTrue(v, t, n)
        BY <2>1, <2>8, <3>1 DEF EffectInv, WorkersTrue, SameWorker, Busy
      <4> QED
        BY <1>1, <1>2, <1>4, <4>1, SameWorkTrue
    <3>2. CASE v = w
      <4>1. pc'[w] = "mark" /\ queue[1] = <<t, n>> /\ 1 \in DOMAIN queue
        BY <2>2, <2>3, <2>8, <3>2 DEF Busy
      <4>2. Untouched(t, n)
        BY <4>1 DEF EffectInv, WaitingUntouched, Queued
      <4> QED
        BY <1>1, <2>6, <3>2, <4>1, <4>2, ConstantsAssumption DEF WorkTrue, Untouched, Finished
    <3> QED
      BY <3>1, <3>2
  <2>9. \A v \in Workers : ~Busy(v)' => attempt'[v] = 0 /\ outcome'[v] = "none"
    BY <1>1, <2>1, <2>6 DEF EffectInv, WorkersTrue, SameWorker, Busy
  <2> QED
    BY <1>2, <1>3, <2>5, <2>7, <2>8, <2>9 DEF EffectInv, WorkersTrue
<1> QED
  BY <1>6, <1>7, <1>8

\* A transition is created with the tasks whose node has no mapping, or all
\* of a dry run, finished, each with its event.
LEMMA StartTransitionEffectInv ==
    ASSUME TypeInv, FlowInv, EffectInv, NEW t \in Transitions, NEW targets \in TargetSets,
           NEW dry \in DryRuns, NEW m \in Mappings, NEW r \in Results,
           StartTransition(t, targets, dry, m, r)
    PROVE  EffectInv'
<1> DEFINE s(n) == [state |-> NewTaskState(n, targets, dry, m), attempts |-> 0]
<1>a. /\ call[t] = "idle" /\ r \in StoreResults(TRUE) /\ CountFault(r)
      /\ call'[t] = "created" => r = "ok"
      /\ request'[t] = [targets |-> targets, dry |-> dry, bmc |-> m]
      /\ outcomes'[t] = [n \in Nodes |-> IF n \in Unmapped(targets, m) THEN "failed" ELSE "none"]
      /\ UNCHANGED <<actions, patched, toEnqueue, queue, abort, ctxDone, running,
                     pc, task, attempt, outcome>>
      /\ \A u \in Transitions \ {t} :
            /\ call'[u] = call[u] /\ request'[u] = request[u] /\ outcomes'[u] = outcomes[u]
  BY DEF StartTransition, CreateTransition, engineVars, workerVars,
         TypeInv, TypeOK, CallTypeOK, WorldTypeOK
<1>b. /\ \A u \in Transitions \ {t} : taskRow'[u] = taskRow[u] /\ taskResults'[u] = taskResults[u]
      /\ \A n \in Nodes :
            IF Commits(r)
            THEN /\ taskRow'[t][n] = s(n)
                 /\ taskResults'[t][n] = IF s(n).state \in TerminalTaskStates THEN <<s(n)>> ELSE <<>>
            ELSE taskRow'[t][n] = taskRow[t][n] /\ taskResults'[t][n] = taskResults[t][n]
  BY DEF StartTransition, CreateTransition, InsertTransitionTasks, TypeInv, TypeOK, StoreTypeOK
<1>c. \A n \in Nodes : s(n).state = NewTaskState(n, targets, dry, m)
  OBVIOUS
<1>d. Unmapped(targets, m) \subseteq targets /\ targets \subseteq Nodes
  BY ConstantsAssumption DEF Unmapped
<1>e. ASSUME NEW n \in Nodes
      PROVE  /\ n \in Unmapped(targets, m) => s(n).state = "failed"
             /\ s(n).state # "succeeded"
             /\ ~dry /\ n \in Mapped(targets, m) => s(n).state \notin TerminalTaskStates
  BY <1>d DEF NewTaskState, Mapped, TerminalTaskStates
<1> HIDE DEF s
<1>f. ~Begun(t) /\ \A u \in Transitions : (Begun(u) => u # t /\ Begun(u)')
  BY <1>a DEF Begun
<1>g. faults' = 0 => faults = 0 /\ r = "ok"
  BY <1>a, WriteHealth
<1>h. StaysUnhealthy
  BY <1>a, <1>g DEF StaysUnhealthy, Healthy
<1>i. \A u \in Transitions \ {t}, n \in Nodes : SameTask(u, n)
  BY <1>a, <1>b DEF SameTask
<1>j. /\ toEnqueue[t] = {} /\ \A n \in Nodes : ~Queued(t, n)
      /\ \A w \in Workers, n \in Nodes : Busy(w) => task[w] # <<t, n>>
  <2>1. /\ toEnqueue[t] = {} /\ \A i \in DOMAIN queue : queue[i][1] # t
        /\ \A w \in Workers : Busy(w) => task[w][1] # t
    BY <1>f, NoTaskBeforeBegun
  <2> QED
    BY <2>1 DEF Queued
<1>k. \A w \in Workers : SameWorker(w)
  BY <1>a DEF SameWorker
<1>2. NothingBeforeBegun'
  <2> SUFFICES ASSUME NEW u \in Transitions, NEW n \in Nodes
               PROVE  /\ ~Begun(u)' => actions[u][n] = 0
                      /\ call'[u] = "created" /\ ~request'[u].dry
                            /\ n \in Mapped(request'[u].targets, request'[u].bmc) => ~Finished(u, n)'
    BY <1>a DEF NothingBeforeBegun, Mapped, Unmapped
  <2>1. actions[u][n] = 0 \/ Begun(u)'
    BY <1>f DEF EffectInv, NothingBeforeBegun
  <2>2. CASE u = t
    <3>1. ASSUME call'[t] = "created", ~dry, n \in Mapped(targets, m) PROVE ~Finished(t, n)'
      <4>1. taskRow'[t][n] = s(n)
        BY <1>a, <1>b, <3>1 DEF Commits
      <4> QED
        BY <1>e, <3>1, <4>1 DEF Finished
    <3>2. request'[t].targets = targets /\ request'[t].bmc = m /\ request'[t].dry = dry
      BY <1>a
    <3> QED
      BY <2>1, <2>2, <3>1, <3>2
  <2>3. CASE u # t
    BY <1>a, <1>i, <2>1, <2>3 DEF EffectInv, NothingBeforeBegun, SameTask, Finished
  <2> QED
    BY <2>2, <2>3
<1>3. WaitingUntouched'
  <2>1. \A u \in Transitions, n \in Nodes : Queued(u, n)' <=> Queued(u, n)
    BY <1>a DEF Queued
  <2>2. \A u \in Transitions : toEnqueue[u] \subseteq Nodes
    BY DEF TypeInv, TypeOK, CallTypeOK
  <2> QED
    BY <1>a, <1>i, <1>j, <2>1, <2>2 DEF EffectInv, WaitingUntouched, Untouched, Finished, SameTask
<1>4. TasksTrue'
  <2> SUFFICES ASSUME NEW u \in Transitions, NEW n \in Nodes
               PROVE  TaskTrue(u, n)'
    BY DEF TasksTrue
  <2>1. TaskTrue(u, n)
    BY DEF EffectInv, TasksTrue
  <2>2. CASE u # t
    BY <1>a, <1>h, <1>i, <2>1, <2>2, SameTaskTrue
  <2>3. CASE u = t
    <3>1. /\ actions'[t][n] = 0 /\ 0 <= RetryAttempts
      BY <1>a, <1>f, ConstantsAssumption DEF EffectInv, NothingBeforeBegun
    <3>2. outcomes'[t][n] \in {"failed", "none"} /\ (outcomes'[t][n] = "failed" => n \in Unmapped(targets, m))
      BY <1>a
    <3>3. CASE Commits(r)
      <4>1. /\ taskRow'[t][n] = s(n) /\ taskRow'[t][n].attempts = 0
            /\ taskResults'[t][n] = IF s(n).state \in TerminalTaskStates THEN <<s(n)>> ELSE <<>>
        BY <1>b, <3>3 DEF s
      <4> QED
        BY <1>e, <2>3, <3>1, <3>2, <4>1 DEF TaskTrue, Finished
    <3>4. CASE ~Commits(r)
      <4>1. taskRow'[t][n] = taskRow[t][n] /\ taskResults'[t][n] = taskResults[t][n]
        BY <1>b, <3>4
      <4>2. ~Healthy'
        BY <1>g, <3>4 DEF Healthy, Commits
      <4>3. /\ taskRow'[t][n].state = "succeeded" => FALSE
            /\ Finished(t, n)' => 0 <= taskRow'[t][n].attempts
        BY <1>a, <2>1, <2>3, <3>1, <4>1 DEF TaskTrue, Finished
      <4> QED
        BY <2>1, <2>3, <3>1, <3>2, <4>1, <4>2, <4>3 DEF TaskTrue, Finished
    <3> QED
      BY <3>3, <3>4
  <2> QED
    BY <2>2, <2>3
<1>5. WorkersTrue'
  <2>1. \A w \in Workers : ~Busy(w)' => attempt'[w] = 0 /\ outcome'[w] = "none"
    BY <1>a DEF EffectInv, WorkersTrue, Busy
  <2>2. ASSUME NEW w \in Workers, NEW u \in Transitions, NEW n \in Nodes,
               Busy(w)', task'[w] = <<u, n>>
        PROVE  WorkTrue(w, u, n)'
    <3>1. WorkTrue(w, u, n) /\ u # t
      BY <1>a, <1>j, <2>2 DEF EffectInv, WorkersTrue, Busy
    <3> QED
      BY <1>a, <1>h, <1>i, <1>k, <3>1, SameWorkTrue
  <2> QED
    BY <2>1, <2>2 DEF WorkersTrue
<1> QED
  BY <1>2, <1>3, <1>4, <1>5 DEF EffectInv

LEMMA NextEffectInv ==
    ASSUME TypeInv, FlowInv, EffectInv, [Next]_vars
    PROVE  EffectInv'
<1>1. CASE \E t \in Transitions : CallStep(t)
  BY <1>1, CallsEffectInv, HandoverEffectInv DEF CallStep
<1>2. CASE \E w \in Workers : WorkerStep(w)
  <2> PICK w \in Workers : WorkerStep(w)
    BY <1>2
  <2> QED
    BY HandoverEffectInv, QuietsEffectInv, TaskWriteEffectInv, ExecuteSendEffectInv,
       RecordTaskOutcomeEffectInv DEF WorkerStep, Quiets
<1>3. CASE \/ Shutdown \/ CloseQueue \/ Wait \/ UNCHANGED vars
           \/ \E t \in Transitions : EnqueueCanceled(t) \/ AbortTransition(t)
           \/ \E t \in Transitions, r \in Results : PersistAbort(t, r)
  BY <1>3, CallsEffectInv
<1>4. CASE \E t \in Transitions, targets \in TargetSets, dry \in DryRuns,
              m \in Mappings, r \in Results : StartTransition(t, targets, dry, m, r)
  BY <1>4, StartTransitionEffectInv
<1> QED
  BY <1>1, <1>2, <1>3, <1>4 DEF Next

LEMMA EffectInvariant == Spec => [](TypeInv /\ FlowInv /\ EffectInv)
<1>1. Init => EffectInv
  BY InitEffectInv
<1>2. TypeInv /\ FlowInv /\ EffectInv /\ [Next]_vars => EffectInv'
  BY NextEffectInv
<1> QED
  BY <1>1, <1>2, FlowInvariant, PTL DEF Spec

\* No node is sent more than retryAttempts reset actions for one transition,
\* a dry run or an unmapped node none, and the attempts the API shows for a
\* finished task cover every action sent, whatever was retried, aborted or
\* failed to be written.
THEOREM ActionsAreBounded == Spec => []ActionsBounded
<1>1. TypeInv /\ FlowInv /\ EffectInv => ActionsBounded
  BY DEF EffectInv, TasksTrue, TaskTrue, Finished, ActionsBounded
<1> QED
  BY <1>1, EffectInvariant, PTL

\* A node that is reported as succeeded, in its task row or in the counters,
\* was sent an action and has its SMD component patched.
THEOREM SuccessIsPatched == Spec => []SuccessMeansPatched
<1>1. TypeInv /\ FlowInv /\ EffectInv => SuccessMeansPatched
  BY DEF EffectInv, TasksTrue, TaskTrue, SuccessMeansPatched
<1> QED
  BY <1>1, EffectInvariant, PTL

\* A reset action is sent only for a transition that has its entry and whose
\* context is not cancelled.
LEMMA ActionsAreOfLive ==
    ASSUME TypeInv, FlowInv, [Next]_vars, NEW t \in Transitions, actions'[t] # actions[t]
    PROVE  progress[t].live /\ ~ctxDone[t]
<1>1. ASSUME NEW w \in Workers, ExecuteSend(w) PROVE progress[t].live /\ ~ctxDone[t]
  <2>1. ~ctxDone[task[w][1]] /\ Busy(w) /\ pc[w] # "persistFinal"
    BY <1>1 DEF ExecuteSend, CtxDone, Busy
  <2>2. PICK u \in Transitions, n \in Nodes : task[w] = <<u, n>>
    BY <2>1, BusyTask DEF TypeInv
  <2>3. u = t
    BY <1>1, <2>2 DEF ExecuteSend, TypeInv, TypeOK, WorldTypeOK
  <2>4. task[w][1] = t
    BY <2>2, <2>3
  <2> QED
    BY <2>1, <2>4, Zenon DEF FlowInv, TasksToCount, ToCount
<1>2. CASE ~ \E w \in Workers : ExecuteSend(w)
  <2>1. UNCHANGED actions
    <3>1. CASE \E w \in Workers : WorkerStep(w)
      BY <1>2, <3>1 DEF WorkerStep, Dequeue, WorkerExit, MarkTransitionRunning, PersistRunning,
         CancelBeforeStart, BeginTask, AcquireBMCLimiter, ExecuteRefused, ExecuteAnswer, Backoff,
         Verify, UpdateNodePowerState, PersistTask, RecordTaskOutcome, PersistFinal, worldVars
    <3>2. CASE \/ \E u \in Transitions : CallStep(u) \/ EnqueueCanceled(u) \/ AbortTransition(u)
               \/ \E u \in Transitions, r \in Results : PersistAbort(u, r)
      BY <3>2 DEF CallStep, ReturnTerminal, RegisterProgress, EnqueueCheck, EnqueueSend,
         EnqueuePanic, EnqueueCanceled, AbortTransition, PersistAbort, worldVars
    <3>3. CASE \/ Shutdown \/ CloseQueue \/ Wait \/ UNCHANGED vars
               \/ \E u \in Transitions, targets \in TargetSets, dry \in DryRuns,
                     m \in Mappings, r \in Results : StartTransition(u, targets, dry, m, r)
      BY <3>3 DEF Shutdown, CloseQueue, Wait, vars, worldVars, StartTransition
    <3> QED
      BY <3>1, <3>2, <3>3 DEF Next
  <2> QED
    BY <2>1
<1> QED
  BY <1>1, <1>2

\* A cancelled context stays cancelled.
LEMMA CancelledForGood ==
    ASSUME TypeInv, [Next]_vars, NEW t \in Transitions, ctxDone[t]
    PROVE  ctxDone'[t]
<1> USE DEF TypeInv, TypeOK, FlagsTypeOK
<1>1. CASE \E w \in Workers : WorkerStep(w)
  <2>1. ASSUME NEW w \in Workers, RecordTaskOutcome(w) PROVE ctxDone'[t]
    BY <2>1 DEF RecordTaskOutcome
  <2>2. CASE UNCHANGED ctxDone
    BY <2>2
  <2> QED
    BY <1>1, <2>1, <2>2 DEF WorkerStep, Dequeue, WorkerExit, MarkTransitionRunning, PersistRunning,
       CancelBeforeStart, BeginTask, AcquireBMCLimiter, ExecuteRefused, ExecuteSend, ExecuteAnswer,
       Backoff, Verify, UpdateNodePowerState, PersistTask, PersistFinal, engineVars
<1>2. CASE \/ \E u \in Transitions : CallStep(u) \/ EnqueueCanceled(u) \/ AbortTransition(u)
           \/ \E u \in Transitions, r \in Results : PersistAbort(u, r)
  BY <1>2 DEF CallStep, ReturnTerminal, RegisterProgress, EnqueueCheck, EnqueueSend,
     EnqueuePanic, EnqueueCanceled, AbortTransition, PersistAbort, engineVars
<1>3. CASE \/ Shutdown \/ CloseQueue \/ Wait \/ UNCHANGED vars
           \/ \E u \in Transitions, targets \in TargetSets, dry \in DryRuns,
                 m \in Mappings, r \in Results : StartTransition(u, targets, dry, m, r)
  BY <1>3 DEF Shutdown, CloseQueue, Wait, vars, engineVars, StartTransition
<1> QED
  BY <1>1, <1>2, <1>3 DEF Next

\* A call that has begun stays so and its entry, once gone, does not return:
\* only RegisterProgress makes one; an abort that was made stays made, and
\* only AbortTransition makes one.
LEMMA MarksStay ==
    ASSUME TypeInv, [Next]_vars, NEW t \in Transitions
    PROVE  /\ Begun(t) => Begun(t)' /\ (progress'[t].live => progress[t].live)
           /\ progress'[t].live => progress[t].live \/ RegisterProgress(t)
           /\ abort[t] # "idle" => abort'[t] # "idle"
           /\ abort'[t] # "idle" => abort[t] # "idle" \/ AbortTransition(t)
<1> USE DEF TypeInv, TypeOK, CallTypeOK, EngineTypeOK
<1>1. CASE \E u \in Transitions, targets \in TargetSets, dry \in DryRuns,
              m \in Mappings, r \in Results : StartTransition(u, targets, dry, m, r)
  BY <1>1 DEF StartTransition, Begun, engineVars
<1>2. CASE \E u \in Transitions : RegisterProgress(u) \/ EnqueueSend(u) \/ AbortTransition(u)
  <2>1. CASE \E u \in Transitions : RegisterProgress(u)
    BY <2>1 DEF RegisterProgress, Begun
  <2>2. CASE \E u \in Transitions : EnqueueSend(u)
    BY <2>2 DEF EnqueueSend, Begun
  <2>3. CASE \E u \in Transitions : AbortTransition(u)
    BY <2>3 DEF AbortTransition, Begun
  <2> QED
    BY <1>2, <2>1, <2>2, <2>3
<1>3. CASE \E u \in Transitions, r \in Results : ReturnTerminal(u, r) \/ PersistAbort(u, r)
  BY <1>3 DEF ReturnTerminal, PersistAbort, Begun, engineVars
<1>4. CASE \E w \in Workers : Dequeue(w) \/ \E r \in Results : PersistRunning(w, r) \/ PersistFinal(w, r)
  BY <1>4 DEF Dequeue, PersistRunning, PersistFinal, Begun, callVars
<1>5. CASE \E w \in Workers : MarkTransitionRunning(w)
  BY <1>5 DEF MarkTransitionRunning, Begun, callVars, Progress
<1>6. CASE \E w \in Workers : RecordTaskOutcome(w)
  BY <1>6 DEF RecordTaskOutcome, Counted, NoProgress, Begun, callVars
<1>7. CASE Unmoved
  BY <1>7 DEF Unmoved, Begun
<1> QED
  BY <1>1, <1>2, <1>3, <1>4, <1>5, <1>6, <1>7, StepKinds

\* As long as an aborted transition has its entry, its context is cancelled.
AbortsCancel ==
    \A t \in Transitions : progress[t].live /\ abort[t] # "idle" => ctxDone[t]

LEMMA NextAbortsCancel ==
    ASSUME TypeInv, FlowInv, AbortsCancel, [Next]_vars
    PROVE  AbortsCancel'
<1> SUFFICES ASSUME NEW t \in Transitions, progress'[t].live, abort'[t] # "idle"
             PROVE  ctxDone'[t]
  BY DEF AbortsCancel
<1>1. CASE AbortTransition(t)
  BY <1>1 DEF AbortTransition, TypeInv, TypeOK, FlagsTypeOK
<1>2. CASE ~AbortTransition(t)
  <2>1. abort[t] # "idle"
    BY <1>2, MarksStay
  <2>2. Begun(t)
    BY <2>1, Zenon DEF FlowInv, CallsNotBegun
  <2>3. progress[t].live
    BY <2>2, MarksStay
  <2> QED
    BY <2>1, <2>3, CancelledForGood DEF AbortsCancel
<1> QED
  BY <1>1, <1>2

LEMMA AbortInvariant == Spec => []AbortsCancel
<1>1. Init => AbortsCancel
  BY DEF Init, AbortsCancel
<1> QED
  BY <1>1, NextAbortsCancel, FlowInvariant, PTL DEF Spec

\* Once AbortTransition has marked a transition no further reset action is
\* sent for any of its nodes.
THEOREM AbortStopsActions == Spec => NoActionAfterAbort
<1>1. TypeInv /\ FlowInv /\ AbortsCancel /\ [Next]_vars =>
        [\A t \in Transitions : actions'[t] # actions[t] => abort[t] = "idle"]_vars
  BY ActionsAreOfLive, Zenon DEF AbortsCancel
<1> QED
  BY <1>1, FlowInvariant, AbortInvariant, PTL DEF Spec, NoActionAfterAbort

-----------------------------------------------------------------------------
(* What the row of a transition and its events say in the end.             *)

\* Some worker is about to write the final row.
Closing(t) == \E w \in Workers : pc[w] = "persistFinal" /\ task[w][1] = t

\* The last lifecycle event carries the row.
OutboxTrue(t) ==
    IF row[t] = NoRow THEN lifecycle[t] = <<>>
    ELSE lifecycle[t] # <<>> /\ lifecycle[t][Len(lifecycle[t])] = row[t]

\* A row that reads as final is completed, unless an abort wrote it; a dry
\* run is planned.  Once the entry of a transition is gone its nodes are
\* decided, and the row shows it when nobody is left to write it.
EndTrue(t) ==
    /\ request[t].dry => row[t].state \in {"absent", "planned"}
    /\ row[t].state \in FinalStates /\ abort[t] = "idle" => row[t].completed
    /\ Begun(t) /\ ~progress[t].live /\ ~request[t].dry /\ faults = 0 => Decided(t)
    /\ Begun(t) /\ ~progress[t].live /\ ~request[t].dry /\ Healthy /\ ~Closing(t) =>
          /\ row[t].state \in {Verdict(t)} \cup (IF abort[t] = "idle" THEN {} ELSE {"canceled"})
          /\ abort[t] = "idle" => row[t].completed /\ Exact(row[t], t)

OutboxInv == \A t \in Transitions : OutboxTrue(t)

EndInv == \A t \in Transitions : EndTrue(t)

\* Failed transactions stay counted, and a process that was told to stop
\* stays so.
LEMMA StepsCount ==
    ASSUME TypeInv, [Next]_vars
    PROVE  (faults' = 0 => faults = 0) /\ (running' => running)
<1>1. UNCHANGED faults \/ \E r \in Results : CountFault(r)
  <2>1. CASE \E w \in Workers : WorkerStep(w)
    BY ZenonT(60), <2>1 DEF WorkerStep, Dequeue, WorkerExit, MarkTransitionRunning, PersistRunning,
       CancelBeforeStart, BeginTask, AcquireBMCLimiter, ExecuteRefused, ExecuteSend, ExecuteAnswer,
       Backoff, Verify, UpdateNodePowerState, PersistTask, RecordTaskOutcome, PersistFinal,
       UpdateTransition, UpdateTransitionTask, storeVars
  <2>2. CASE \/ \E t \in Transitions : CallStep(t) \/ EnqueueCanceled(t) \/ AbortTransition(t)
             \/ \E t \in Transitions, r \in Results : PersistAbort(t, r)
    <3>1. CASE \E t \in Transitions, r \in Results : ReturnTerminal(t, r) \/ PersistAbort(t, r)
      BY <3>1 DEF ReturnTerminal, PersistAbort, UpdateTransition
    <3>2. CASE \E t \in Transitions :
                 \/ RegisterProgress(t) \/ EnqueueCheck(t) \/ EnqueueSend(t) \/ EnqueuePanic(t)
                 \/ EnqueueCanceled(t) \/ AbortTransition(t)
      BY <3>2 DEF RegisterProgress, EnqueueCheck, EnqueueSend, EnqueuePanic, EnqueueCanceled,
         AbortTransition, storeVars
    <3> QED
      BY <2>2, <3>1, <3>2 DEF CallStep
  <2>3. CASE \/ Shutdown \/ CloseQueue \/ Wait \/ UNCHANGED vars
             \/ \E t \in Transitions, targets \in TargetSets, dry \in DryRuns,
                   m \in Mappings, r \in Results : StartTransition(t, targets, dry, m, r)
    <3>1. ASSUME NEW t \in Transitions, NEW targets \in TargetSets, NEW dry \in DryRuns,
                 NEW m \in Mappings, NEW r \in Results, StartTransition(t, targets, dry, m, r)
          PROVE  CountFault(r)
      BY <3>1 DEF StartTransition, CreateTransition
    <3>2. CASE Shutdown \/ CloseQueue \/ Wait \/ UNCHANGED vars
      BY <3>2 DEF Shutdown, CloseQueue, Wait, vars, storeVars
    <3> QED
      BY <2>3, <3>1, <3>2
  <2> QED
    BY <2>1, <2>2, <2>3 DEF Next
<1>2. faults' = 0 => faults = 0
  BY <1>1 DEF CountFault, TypeInv, TypeOK, StoreTypeOK
<1>3. UNCHANGED running \/ ~running'
  <2>1. CASE \E w \in Workers : WorkerStep(w)
    BY ZenonT(60), <2>1 DEF WorkerStep, Dequeue, WorkerExit, MarkTransitionRunning, PersistRunning,
       CancelBeforeStart, BeginTask, AcquireBMCLimiter, ExecuteRefused, ExecuteSend, ExecuteAnswer,
       Backoff, Verify, UpdateNodePowerState, PersistTask, RecordTaskOutcome, PersistFinal,
       engineVars
  <2>2. CASE \/ \E t \in Transitions : CallStep(t) \/ EnqueueCanceled(t) \/ AbortTransition(t)
             \/ \E t \in Transitions, r \in Results : PersistAbort(t, r)
    BY <2>2 DEF CallStep, ReturnTerminal, RegisterProgress, EnqueueCheck, EnqueueSend,
       EnqueuePanic, EnqueueCanceled, AbortTransition, PersistAbort, engineVars
  <2>3. CASE \/ Shutdown \/ CloseQueue \/ Wait \/ UNCHANGED vars
             \/ \E t \in Transitions, targets \in TargetSets, dry \in DryRuns,
                   m \in Mappings, r \in Results : StartTransition(t, targets, dry, m, r)
    BY <2>3 DEF Shutdown, CloseQueue, Wait, vars, engineVars, StartTransition
  <2> QED
    BY <2>1, <2>2, <2>3 DEF Next
<1>4. running' => running
  BY <1>3, Zenon
<1> QED
  BY <1>2, <1>4

\* What the row of a new transition says of it.
LEMMA NewRowStates ==
    ASSUME NEW targets, NEW dry \in BOOLEAN, NEW m, NEW s, s = NewTransition(targets, dry, m)
    PROVE  /\ s # NoRow
           /\ dry => s.state = "planned"
           /\ s.state \in FinalStates => s.completed
           /\ ~dry /\ s.completed => Mapped(targets, m) = {} /\ s.state = "failed"
<1>1. /\ s.completed = (dry \/ Mapped(targets, m) = {})
      /\ s.state = IF dry THEN "planned"
                   ELSE IF dry \/ Mapped(targets, m) = {} THEN "failed" ELSE "pending"
  BY DEF NewTransition
<1>2. s.state \in {"planned", "failed", "pending"} /\ NoRow.state = "absent"
  BY <1>1 DEF NoRow
<1>3. s # NoRow
  BY <1>2
<1>4. dry => s.state = "planned"
  BY <1>1
<1>5. s.state # "pending" => s.completed
  <2>1. s.state # "pending" => dry \/ Mapped(targets, m) = {}
    BY <1>1
  <2> QED
    BY <1>1, <2>1, Zenon
<1>6. ~dry /\ s.completed => Mapped(targets, m) = {}
  BY <1>1, Zenon
<1>7. ~dry /\ Mapped(targets, m) = {} => s.state = "failed"
  BY <1>1
<1>8. "pending" \notin FinalStates
  BY DEF FinalStates
<1> QED
  BY <1>3, <1>4, <1>5, <1>6, <1>7, <1>8

\* Every write of a row goes with its event.
LEMMA RowWrites ==
    ASSUME TypeInv, FlowInv, RowInv, [Next]_vars
    PROVE  \/ UNCHANGED <<row, lifecycle>>
           \/ \E t \in Transitions, s \in Rows, r \in Results :
                 /\ s # NoRow
                 /\ row' = IF Commits(r) THEN [row EXCEPT ![t] = s] ELSE row
                 /\ WriteLifecycleEvent(t, s, r)
<1> DEFINE Writes(t, s, r) == /\ row' = IF Commits(r) THEN [row EXCEPT ![t] = s] ELSE row
                              /\ WriteLifecycleEvent(t, s, r)
           Some == \E t \in Transitions, s \in Rows, r \in Results : s # NoRow /\ Writes(t, s, r)
<1>1. ASSUME NEW t \in Transitions, NEW targets \in TargetSets, NEW dry \in DryRuns,
             NEW m \in Mappings, NEW r \in Results, StartTransition(t, targets, dry, m, r)
      PROVE  Some
  <2>1. Writes(t, NewTransition(targets, dry, m), r)
    BY <1>1 DEF StartTransition, CreateTransition, InsertTransition
  <2>2. dry \in BOOLEAN /\ targets \in SUBSET Nodes /\ m \in [Nodes -> BMCs \cup {NoBMC}]
    BY ConstantsAssumption
  <2>3. NewTransition(targets, dry, m) \in Rows
    <3>1. Cardinality(Unmapped(targets, m)) \in Nat
      BY <2>2, MappedFinite
    <3>2. (dry \/ Mapped(targets, m) = {}) \in BOOLEAN
      BY Zenon
    <3> QED
      BY <3>1, <3>2 DEF NewTransition, Rows, TransitionStates, FinalStates
  <2>4. NewTransition(targets, dry, m) # NoRow
    BY <2>2, NewRowStates
  <2> QED
    BY <2>1, <2>3, <2>4
<1>2. ASSUME NEW t \in Transitions, NEW s \in Rows, NEW r \in Results,
             s.state # "absent", UpdateTransition(t, s, r)
      PROVE  Some
  <2>1. s # NoRow
    BY <1>2 DEF NoRow
  <2> QED
    BY <1>2, <2>1 DEF UpdateTransition
<1>3. ASSUME NEW t \in Transitions, NEW r \in Results, ReturnTerminal(t, r) PROVE Some
  <2>1. call[t] = "created" /\ row[t] \in Rows /\ UpdateTransition(t, row[t], r)
    BY <1>3 DEF ReturnTerminal, TypeInv, TypeOK, StoreTypeOK
  <2>2. row[t] = NewTransition(request[t].targets, request[t].dry, request[t].bmc)
    BY <2>1 DEF FlowInv, CallsNotBegun
  <2>3. row[t].state # "absent"
    BY <2>2 DEF NewTransition
  <2> QED
    BY <1>2, <2>1, <2>3
<1>4. ASSUME NEW t \in Transitions, NEW r \in Results, PersistAbort(t, r) PROVE Some
  <2>1. abort[t] = "persist" /\ abortSnap[t] \in Rows /\ UpdateTransition(t, abortSnap[t], r)
    BY <1>4 DEF PersistAbort, TypeInv, TypeOK, CallTypeOK
  <2>2. abortSnap[t].state # "absent"
    BY <2>1 DEF RowInv, RowsOpen, RowOpen
  <2> QED
    BY <1>2, <2>1, <2>2
<1>5. ASSUME NEW w \in Workers, NEW r \in Results, PersistRunning(w, r) \/ PersistFinal(w, r)
      PROVE  Some
  <2>1. /\ pc[w] \in {"persistRunning", "persistFinal"} /\ Busy(w) /\ snap[w] \in Rows
        /\ UpdateTransition(task[w][1], snap[w], r)
    BY <1>5 DEF PersistRunning, PersistFinal, Busy, TypeInv, TypeOK, WorkerTypeOK
  <2>2. PICK t \in Transitions : task[w][1] = t
    BY <2>1, BusyTask DEF TypeInv
  <2>3. snap[w].state \in {"running", Verdict(t)}
    BY <2>1, <2>2 DEF RowInv, SnapshotsTrue, SnapshotTrue
  <2>4. Verdict(t) # "absent"
    BY DEF Verdict
  <2>5. snap[w].state # "absent"
    BY <2>3, <2>4
  <2> QED
    BY <1>2, <2>1, <2>2, <2>5
<1>6. ASSUME ~ \E t \in Transitions, r \in Results : ReturnTerminal(t, r) \/ PersistAbort(t, r),
             ~ \E w \in Workers, r \in Results : PersistRunning(w, r) \/ PersistFinal(w, r),
             ~ \E t \in Transitions, targets \in TargetSets, dry \in DryRuns,
                  m \in Mappings, r \in Results : StartTransition(t, targets, dry, m, r)
      PROVE  UNCHANGED <<row, lifecycle>>
  <2>1. CASE \E w \in Workers : WorkerStep(w)
    BY ZenonT(60), <1>6, <2>1 DEF WorkerStep, Dequeue, WorkerExit, MarkTransitionRunning,
       CancelBeforeStart, BeginTask, AcquireBMCLimiter, ExecuteRefused, ExecuteSend, ExecuteAnswer,
       Backoff, Verify, UpdateNodePowerState, PersistTask, RecordTaskOutcome,
       UpdateTransitionTask, storeVars
  <2>2. CASE \E t \in Transitions : CallStep(t) \/ EnqueueCanceled(t) \/ AbortTransition(t)
    BY <1>6, <2>2 DEF CallStep, RegisterProgress, EnqueueCheck, EnqueueSend,
       EnqueuePanic, EnqueueCanceled, AbortTransition, storeVars
  <2>3. CASE Shutdown \/ CloseQueue \/ Wait \/ UNCHANGED vars
    BY <2>3 DEF Shutdown, CloseQueue, Wait, vars, storeVars
  <2> QED
    BY <1>6, <2>1, <2>2, <2>3 DEF Next
<1> QED
  BY <1>1, <1>3, <1>4, <1>5, <1>6

LEMMA NextOutboxInv ==
    ASSUME TypeInv, FlowInv, RowInv, OutboxInv, [Next]_vars
    PROVE  OutboxInv'
<1> USE DEF OutboxInv
<1>1. CASE UNCHANGED <<row, lifecycle>>
  BY <1>1 DEF OutboxTrue
<1>2. ASSUME NEW t \in Transitions, NEW s \in Rows, NEW r \in Results, s # NoRow,
             row' = IF Commits(r) THEN [row EXCEPT ![t] = s] ELSE row,
             WriteLifecycleEvent(t, s, r)
      PROVE  OutboxInv'
  <2>1. CASE ~Commits(r)
    BY <1>2, <2>1 DEF OutboxTrue, WriteLifecycleEvent
  <2>2. CASE Commits(r)
    <3>1. row \in [Transitions -> Rows] /\ lifecycle \in [Transitions -> Seq(Rows)]
      BY DEF TypeInv, TypeOK, StoreTypeOK
    <3>2. /\ row'[t] = s /\ lifecycle'[t] = Append(lifecycle[t], s)
          /\ \A u \in Transitions \ {t} : row'[u] = row[u] /\ lifecycle'[u] = lifecycle[u]
      BY <1>2, <2>2, <3>1 DEF WriteLifecycleEvent
    <3>3. lifecycle[t] \in Seq(Rows)
      BY <3>1
    <3>4. lifecycle'[t] # <<>> /\ lifecycle'[t][Len(lifecycle'[t])] = s
      BY <3>2, <3>3
    <3>5. OutboxTrue(t)'
      BY <1>2, <3>2, <3>4 DEF OutboxTrue
    <3>6. \A u \in Transitions \ {t} : OutboxTrue(u)'
      BY <3>2 DEF OutboxTrue
    <3> QED
      BY <3>5, <3>6
  <2> QED
    BY <2>1, <2>2
<1> QED
  BY <1>1, <1>2, RowWrites

\* Nothing changes that the end of the transition depends on.
SameEnd(t) ==
    /\ row'[t] = row[t] /\ progress'[t].live = progress[t].live
    /\ request'[t] = request[t] /\ outcomes'[t] = outcomes[t] /\ abort'[t] = abort[t]
    /\ Begun(t)' => Begun(t)
    /\ Closing(t) => Closing(t)'

LEMMA SameEndTrue ==
    ASSUME TypeInv, [Next]_vars, NEW t \in Transitions, EndTrue(t), SameEnd(t)
    PROVE  EndTrue(t)'
<1>1. (faults' = 0 => faults = 0) /\ (Healthy' => Healthy)
  BY StepsCount DEF Healthy
<1>2. Decided(t)' <=> Decided(t)
  BY DEF SameEnd, Decided
<1>3. Verdict(t)' = Verdict(t)
  BY DEF SameEnd, Verdict
<1>4. Exact(row[t], t)' <=> Exact(row[t], t)
  BY DEF SameEnd, Exact, WithOutcome
<1> QED
  BY <1>1, <1>2, <1>3, <1>4 DEF SameEnd, EndTrue

LEMMA OneEndConcerned ==
    ASSUME TypeInv, EndInv, [Next]_vars, NEW t \in Transitions,
           \A u \in Transitions \ {t} : SameEnd(u), EndTrue(t)'
    PROVE  EndInv'
BY SameEndTrue DEF EndInv

LEMMA NoEndConcerned ==
    ASSUME TypeInv, EndInv, [Next]_vars, \A u \in Transitions : SameEnd(u)
    PROVE  EndInv'
BY SameEndTrue DEF EndInv

LEMMA InitEndInv == Init => OutboxInv /\ EndInv
<1> SUFFICES ASSUME Init PROVE OutboxInv /\ EndInv
  OBVIOUS
<1>1. OutboxInv
  BY DEF Init, OutboxInv, OutboxTrue
<1>2. EndInv
  BY DEF Init, EndInv, EndTrue, Begun, NoRow, NoRequest, FinalStates
<1> QED
  BY <1>1, <1>2

\* The steps that write no row and count nothing.
LEMMA MovesEndInv ==
    ASSUME TypeInv, EndInv, [Next]_vars,
           \/ Unmoved
           \/ \E t \in Transitions : EnqueueSend(t)
           \/ \E w \in Workers : Dequeue(w) \/ MarkTransitionRunning(w)
    PROVE  EndInv'
<1>1. CASE Unmoved
  <2>1. \A t \in Transitions : SameEnd(t)
    BY <1>1 DEF Unmoved, SameEnd, Begun, Closing, Working
  <2> QED
    BY <2>1, NoEndConcerned
<1>2. CASE \E t \in Transitions : EnqueueSend(t)
  <2>1. \A t \in Transitions : SameEnd(t)
    BY <1>2 DEF EnqueueSend, SameEnd, Begun, Closing, storeVars, workerVars, worldVars,
       TypeInv, TypeOK, CallTypeOK
  <2> QED
    BY <2>1, NoEndConcerned
<1>3. ASSUME NEW w \in Workers, Dequeue(w) \/ MarkTransitionRunning(w) PROVE EndInv'
  <2>1. /\ pc[w] \in {"idle", "mark"}
        /\ \A v \in Workers \ {w} : pc'[v] = pc[v] /\ task'[v] = task[v]
    BY ZenonT(60), <1>3, RetireDrops DEF Dequeue, MarkTransitionRunning, TypeInv, TypeOK, WorkerTypeOK
  <2>2. \A t \in Transitions : Closing(t) => Closing(t)'
    BY <2>1 DEF Closing
  <2>3. UNCHANGED <<row, call, request, outcomes, abort>>
    BY <1>3 DEF Dequeue, MarkTransitionRunning, storeVars, callVars, worldVars
  <2>4. \A t \in Transitions : progress'[t].live = progress[t].live
    <3>1. CASE UNCHANGED progress
      BY <3>1
    <3>2. CASE progress' # progress
      <4>1. MarkTransitionRunning(w)
        BY <1>3, <3>2 DEF Dequeue
      <4>2. PICK t \in Transitions : task[w][1] = t
        BY <4>1, BusyTask DEF MarkTransitionRunning, Busy, TypeInv
      <4>3. \E s : progress' = [progress EXCEPT ![t] = [progress[t] EXCEPT !.row = s]]
        BY <3>2, <4>1, <4>2 DEF MarkTransitionRunning
      <4>4. progress \in [Transitions -> Progress]
        BY DEF TypeInv, TypeOK, EngineTypeOK
      <4> QED
        BY <4>3, <4>4 DEF Progress
    <3> QED
      BY <3>1, <3>2
  <2>5. \A t \in Transitions : SameEnd(t)
    BY <2>2, <2>3, <2>4 DEF SameEnd, Begun
  <2> QED
    BY <2>5, NoEndConcerned
<1> QED
  BY <1>1, <1>2, <1>3

\* A transition is created with the row of what is known of it; a call that
\* failed to is a failed transaction.
LEMMA StartTransitionEndInv ==
    ASSUME TypeInv, FlowInv, RowInv, EndInv, [Next]_vars,
           NEW t \in Transitions, NEW targets \in TargetSets,
           NEW dry \in DryRuns, NEW m \in Mappings, NEW r \in Results,
           StartTransition(t, targets, dry, m, r)
    PROVE  EndInv'
<1>a. /\ call[t] = "idle" /\ r \in StoreResults(TRUE) /\ CountFault(r)
      /\ r = "ok" => call'[t] = "created"
      /\ request'[t].dry = dry
      /\ row'[t] = IF Commits(r) THEN NewTransition(targets, dry, m) ELSE row[t]
      /\ UNCHANGED <<progress, abort, pc, task>>
      /\ \A u \in Transitions \ {t} :
            /\ call'[u] = call[u] /\ request'[u] = request[u]
            /\ outcomes'[u] = outcomes[u] /\ row'[u] = row[u]
  BY DEF StartTransition, CreateTransition, InsertTransition, engineVars, workerVars,
         TypeInv, TypeOK, CallTypeOK, WorldTypeOK, StoreTypeOK
<1>1. \A u \in Transitions \ {t} : SameEnd(u)
  BY <1>a DEF SameEnd, Begun, Closing
<1>2. faults' = 0 => r = "ok"
  BY <1>a, WriteHealth
<1>3. faults' = 0 => ~Begun(t)'
  BY <1>a, <1>2 DEF Begun
<1>4. /\ dry => row'[t].state \in {"absent", "planned"}
      /\ row'[t].state \in FinalStates => row'[t].completed
  <2>1. CASE Commits(r)
    <3>1. row'[t] = NewTransition(targets, dry, m) /\ dry \in BOOLEAN
      BY <1>a, <2>1, ConstantsAssumption
    <3>2. (dry => row'[t].state = "planned") /\ (row'[t].state \in FinalStates => row'[t].completed)
      BY <3>1, NewRowStates
    <3> QED
      BY <3>2
  <2>2. CASE ~Commits(r)
    <3>1. row'[t] = NoRow
      BY <1>a, <2>2 DEF RowInv, RowsOpen, RowOpen
    <3> QED
      BY <3>1 DEF NoRow, FinalStates
  <2> QED
    BY <2>1, <2>2
<1>5. EndTrue(t)'
  BY <1>a, <1>3, <1>4 DEF EndTrue, Healthy
<1> QED
  BY <1>1, <1>5, OneEndConcerned

\* A call that is over when it is created leaves a dry run, or a row that
\* shows the failure of every node; any other gets its entry.
LEMMA CreatedEndInv ==
    ASSUME TypeInv, FlowInv, RowInv, EndInv, [Next]_vars, NEW t \in Transitions, NEW r \in Results,
           ReturnTerminal(t, r) \/ RegisterProgress(t)
    PROVE  EndInv'
<1>a. /\ call[t] = "created" /\ ~Begun(t) /\ UNCHANGED <<row, request, outcomes, abort, pc, task>>
      /\ \A u \in Transitions \ {t} : progress'[u] = progress[u] /\ call'[u] = call[u]
      /\ progress'[t].live \/ row[t].completed
  <2>1. CASE ReturnTerminal(t, r)
    <3>1. UNCHANGED row
      BY <2>1, UpdateTransitionRow DEF ReturnTerminal, UpdateTransition, TypeInv, TypeOK, StoreTypeOK
    <3> QED
      BY <2>1, <3>1 DEF ReturnTerminal, engineVars, workerVars, worldVars, Begun,
         TypeInv, TypeOK, CallTypeOK
  <2>2. CASE RegisterProgress(t)
    BY <2>2 DEF RegisterProgress, storeVars, workerVars, worldVars, Begun,
       TypeInv, TypeOK, CallTypeOK, EngineTypeOK
  <2> QED
    BY <2>1, <2>2
<1>1. \A u \in Transitions \ {t} : SameEnd(u)
  BY <1>a DEF SameEnd, Begun, Closing
<1>b. EndTrue(t)
  BY DEF EndInv
<1>c. /\ abort[t] = "idle"
      /\ row[t] = NewTransition(request[t].targets, request[t].dry, request[t].bmc)
      /\ outcomes[t] = [n \in Nodes |-> IF n \in Unmapped(request[t].targets, request[t].bmc)
                                        THEN "failed" ELSE "none"]
  BY <1>a DEF FlowInv, CallsNotBegun
<1>d. request[t].dry \in BOOLEAN /\ request[t].targets \subseteq Nodes
  BY DEF TypeInv, TypeOK, CallTypeOK, Requests
<1>2. CASE row[t].completed /\ ~request[t].dry
  <2>1. /\ Mapped(request[t].targets, request[t].bmc) = {} /\ row[t].state = "failed"
        /\ row[t].success = 0
        /\ row[t].failure = Cardinality(Unmapped(request[t].targets, request[t].bmc))
    BY <1>2, <1>c, <1>d, NewRowStates, NewTransitionFields
  <2>2. Unmapped(request[t].targets, request[t].bmc) = request[t].targets
    BY <2>1 DEF Mapped, Unmapped
  <2>3. \A n \in request[t].targets : outcomes[t][n] = "failed"
    BY <1>c, <1>d, <2>2
  <2>4. Decided(t)
    BY <2>3 DEF Decided
  <2>5. Verdict(t) = "failed"
    <3>1. \A o \in {outcomes[t][n] : n \in request[t].targets} : o = "failed"
      BY <2>3
    <3>2. /\ {outcomes[t][n] : n \in request[t].targets} # {"canceled"}
          /\ {outcomes[t][n] : n \in request[t].targets} # {"succeeded"}
          /\ "succeeded" \notin {outcomes[t][n] : n \in request[t].targets}
      BY <3>1
    <3> QED
      BY <3>2 DEF Verdict
  <2>6. WithOutcome(t, {"succeeded"}) = {} /\ WithOutcome(t, {"failed", "canceled"}) = request[t].targets
    BY <2>3 DEF WithOutcome
  <2>7. Exact(row[t], t)
    BY <2>1, <2>2, <2>6, FS_EmptySet DEF Exact
  <2>8. Decided(t)' /\ Verdict(t)' = Verdict(t) /\ Exact(row[t], t)'
    BY <1>a, <2>4, <2>7 DEF Decided, Verdict, Exact, WithOutcome
  <2>9. EndTrue(t)'
    BY <1>2, <1>a, <1>c, <2>1, <2>5, <2>8 DEF EndTrue
  <2> QED
    BY <1>1, <2>9, OneEndConcerned
<1>3. CASE ~(row[t].completed /\ ~request[t].dry)
  <2>1. request[t].dry \/ progress'[t].live
    BY <1>3, <1>a
  <2>2. EndTrue(t)'
    BY <1>a, <1>b, <2>1 DEF EndTrue
  <2> QED
    BY <1>1, <2>2, OneEndConcerned
<1> QED
  BY <1>2, <1>3

\* An abort concerns a transition with an entry; its write says "canceled".
LEMMA AbortEndInv ==
    ASSUME TypeInv, FlowInv, RowInv, EndInv, [Next]_vars, NEW t \in Transitions,
           AbortTransition(t) \/ \E r \in Results : PersistAbort(t, r)
    PROVE  EndInv'
<1>b. EndTrue(t)
  BY DEF EndInv
<1>1. CASE AbortTransition(t)
  <2>1. /\ UNCHANGED <<row, call, request, outcomes, pc, task>> /\ progress[t].live
        /\ abort'[t] = "persist"
        /\ \A u \in Transitions \ {t} : progress'[u] = progress[u] /\ abort'[u] = abort[u]
        /\ progress'[t] = [progress[t] EXCEPT !.aborted = TRUE,
                                              !.row = [progress[t].row EXCEPT !.state = "canceled"]]
    BY <1>1 DEF AbortTransition, storeVars, workerVars, worldVars,
       TypeInv, TypeOK, CallTypeOK, EngineTypeOK
  <2>2. progress'[t].live
    BY <2>1 DEF TypeInv, TypeOK, EngineTypeOK, Progress
  <2>3. EndTrue(t)'
    BY <1>b, <2>1, <2>2 DEF EndTrue
  <2>4. \A u \in Transitions \ {t} : SameEnd(u)
    BY <2>1 DEF SameEnd, Begun, Closing
  <2> QED
    BY <2>3, <2>4, OneEndConcerned
<1>2. ASSUME NEW r \in Results, PersistAbort(t, r) PROVE EndInv'
  <2>1. /\ UNCHANGED <<progress, call, request, outcomes, pc, task>>
        /\ abort[t] = "persist" /\ abort'[t] = "done"
        /\ row'[t] \in {row[t], abortSnap[t]}
        /\ \A u \in Transitions \ {t} : row'[u] = row[u] /\ abort'[u] = abort[u]
    BY <1>2, UpdateTransitionRow DEF PersistAbort, engineVars, workerVars, worldVars,
       TypeInv, TypeOK, CallTypeOK
  <2>2. ~request[t].dry /\ abortSnap[t].state = "canceled"
    BY <2>1 DEF RowInv, RowsOpen, RowOpen
  <2>3. (faults' = 0 => faults = 0) /\ (Healthy' => Healthy)
    BY StepsCount DEF Healthy
  <2>4. /\ Decided(t)' <=> Decided(t)
        /\ Verdict(t)' = Verdict(t)
        /\ Begun(t)' <=> Begun(t)
        /\ Closing(t)' <=> Closing(t)
    BY <2>1 DEF Decided, Verdict, Begun, Closing
  <2>5. EndTrue(t)'
    BY <1>b, <2>1, <2>2, <2>3, <2>4 DEF EndTrue
  <2>6. \A u \in Transitions \ {t} : SameEnd(u)
    BY <2>1 DEF SameEnd, Begun, Closing
  <2> QED
    BY <2>5, <2>6, OneEndConcerned
<1> QED
  BY <1>1, <1>2

\* The last outcome leaves a worker about to write the final row ...
LEMMA RecordTaskOutcomeEndInv ==
    ASSUME TypeInv, FlowInv, RowInv, RowInv', EndInv, [Next]_vars,
           NEW w \in Workers, RecordTaskOutcome(w)
    PROVE  EndInv'
<1>r. PICK t, n, o : Records(w, t, n, o)
  BY RecordTaskOutcomeRecords
<1>a. /\ t \in Transitions /\ task[w][1] = t /\ Busy(w) /\ pc[w] = "record"
      /\ progress[t].live
      /\ outcomes' = [outcomes EXCEPT ![t][n] = o]
      /\ UNCHANGED <<row, call, request, abort>>
  BY <1>r DEF Records, ToCount
<1>b. \/ progress' = [progress EXCEPT ![t] = Counted(progress[t], o)]
      \/ /\ progress' = [progress EXCEPT ![t] = NoProgress]
         /\ pc'[w] = "persistFinal" /\ task'[w] = task[w]
  BY <1>r DEF Records, TypeInv, TypeOK, WorkerTypeOK
<1>c. \A v \in Workers \ {w} : pc'[v] = pc[v] /\ task'[v] = task[v]
  BY <1>r, RetireDrops DEF Records, TypeInv, TypeOK, WorkerTypeOK
<1>1. \A u \in Transitions \ {t} : SameEnd(u)
  <2>1. \A u \in Transitions \ {t} : progress'[u] = progress[u] /\ outcomes'[u] = outcomes[u]
    BY <1>a, <1>b DEF TypeInv, TypeOK, EngineTypeOK, WorldTypeOK
  <2>2. \A u \in Transitions : Closing(u) => Closing(u)'
    BY <1>a, <1>c DEF Closing
  <2> QED
    BY <1>a, <2>1, <2>2 DEF SameEnd, Begun
<1>2. progress'[t].live \/ (pc'[w] = "persistFinal" /\ task'[w][1] = t)
  BY <1>a, <1>b DEF Counted, TypeInv, TypeOK, EngineTypeOK
<1>3. ~progress'[t].live => Closing(t)' /\ Decided(t)'
  <2> SUFFICES ASSUME ~progress'[t].live PROVE Closing(t)' /\ Decided(t)'
    OBVIOUS
  <2>1. pc'[w] = "persistFinal" /\ task'[w][1] = t /\ Busy(w)'
    BY <1>2 DEF Busy
  <2>2. SnapshotTrue(w, t)'
    BY <1>a, <2>1 DEF RowInv, SnapshotsTrue
  <2> QED
    BY <2>1, <2>2 DEF SnapshotTrue, Closing
<1>4. EndTrue(t)
  BY <1>a DEF EndInv
<1>5. EndTrue(t)'
  BY <1>a, <1>3, <1>4 DEF EndTrue
<1> QED
  BY <1>a, <1>1, <1>5, OneEndConcerned

\* ... whose write shows the verdict, unless it fails.
LEMMA PersistEndInv ==
    ASSUME TypeInv, FlowInv, RowInv, EndInv, [Next]_vars, NEW w \in Workers, NEW r \in Results,
           PersistRunning(w, r) \/ PersistFinal(w, r)
    PROVE  EndInv'
<1>a. PICK t \in Transitions :
        /\ task[w][1] = t /\ Busy(w)
        /\ \A u \in Transitions \ {t} : SameRow(u)
        /\ row'[t] = row[t] \/ row'[t] = snap[w]
        /\ \A v \in Workers \ {w} : pc'[v] = pc[v] /\ task'[v] = task[v]
        /\ UNCHANGED <<progress, call, request, outcomes, abort>>
  BY PersistRow
<1>1. \A u \in Transitions \ {t} : SameEnd(u)
  BY <1>a DEF SameEnd, SameRow, Begun, Closing
<1>b. EndTrue(t) /\ SnapshotTrue(w, t)
  BY <1>a DEF EndInv, RowInv, SnapshotsTrue
<1>c. /\ Decided(t)' <=> Decided(t)
      /\ Verdict(t)' = Verdict(t)
      /\ \A s : Exact(s, t)' <=> Exact(s, t)
  <2>1. Decided(t)' <=> Decided(t)
    BY <1>a DEF Decided
  <2>2. Verdict(t)' = Verdict(t)
    BY <1>a DEF Verdict
  <2>3. \A s : Exact(s, t)' <=> Exact(s, t)
    BY <1>a DEF Exact, WithOutcome
  <2> QED
    BY <2>1, <2>2, <2>3
<1>2. CASE PersistRunning(w, r)
  <2>1. pc[w] = "persistRunning"
    BY <1>2 DEF PersistRunning
  <2>2. progress[t].live /\ ~request[t].dry
    BY <1>a, <2>1 DEF FlowInv, TasksToCount, ToCount, EntriesOfMapped
  <2>3. snap[w].state = "running"
    BY <1>b, <2>1 DEF SnapshotTrue
  <2>4. EndTrue(t)'
    BY <1>a, <1>b, <2>2, <2>3 DEF EndTrue, FinalStates
  <2> QED
    BY <1>1, <2>4, OneEndConcerned
<1>3. CASE PersistFinal(w, r)
  <2>1. pc[w] = "persistFinal" /\ r \in StoreResults(running) /\ UNCHANGED running
        /\ UpdateTransition(t, snap[w], r) /\ CountFault(r)
    BY <1>3, <1>a DEF PersistFinal, UpdateTransition
  <2>2. /\ ~progress[t].live /\ ~request[t].dry /\ Decided(t) /\ snap[w].completed
        /\ snap[w].state = Verdict(t) /\ Exact(snap[w], t)
    BY <1>b, <2>1 DEF SnapshotTrue
  <2>3. Healthy' => row'[t] = snap[w]
    <3>1. running \in BOOLEAN
      BY DEF TypeInv, TypeOK, FlagsTypeOK
    <3>2. Healthy' => r = "ok"
      BY <2>1, <3>1, WriteHealth DEF Healthy
    <3>3. r = "ok" => row'[t] = snap[w]
      BY <2>1, UpdateTransitionRow DEF Commits
    <3> QED
      BY <3>2, <3>3
  <2>4. Healthy' => row'[t].completed /\ row'[t].state = Verdict(t)' /\ Exact(row[t], t)'
    BY <1>c, <2>2, <2>3 DEF Exact
  <2>5. row'[t].state \in FinalStates /\ abort'[t] = "idle" => row'[t].completed
    BY <1>a, <1>b, <2>2 DEF EndTrue
  <2>6. Decided(t)' /\ ~request'[t].dry
    BY <1>a, <1>c, <2>2
  <2>7. EndTrue(t)'
    BY <2>4, <2>5, <2>6 DEF EndTrue
  <2> QED
    BY <1>1, <2>7, OneEndConcerned
<1> QED
  BY <1>2, <1>3

LEMMA NextEndInv ==
    ASSUME TypeInv, FlowInv, RowInv, RowInv', EndInv, [Next]_vars
    PROVE  EndInv'
<1>1. CASE \E t \in Transitions, targets \in TargetSets, dry \in DryRuns,
              m \in Mappings, r \in Results : StartTransition(t, targets, dry, m, r)
  BY <1>1, StartTransitionEndInv
<1>2. CASE \E t \in Transitions :
              \/ RegisterProgress(t) \/ EnqueueSend(t) \/ AbortTransition(t)
              \/ \E r \in Results : ReturnTerminal(t, r) \/ PersistAbort(t, r)
  <2>1. "ok" \in Results
    BY DEF Results
  <2> QED
    BY <1>2, <2>1, CreatedEndInv, MovesEndInv, AbortEndInv
<1>3. CASE \E w \in Workers :
              \/ Dequeue(w) \/ MarkTransitionRunning(w) \/ RecordTaskOutcome(w)
              \/ \E r \in Results : PersistRunning(w, r) \/ PersistFinal(w, r)
  BY <1>3, MovesEndInv, RecordTaskOutcomeEndInv, PersistEndInv
<1>4. CASE Unmoved
  BY <1>4, MovesEndInv
<1> QED
  BY <1>1, <1>2, <1>3, <1>4, StepKinds

LEMMA EndInvariant == Spec => [](OutboxInv /\ EndInv)
<1>1. Init => OutboxInv /\ EndInv
  BY InitEndInv
<1>2. TypeInv /\ FlowInv /\ RowInv /\ RowInv' /\ OutboxInv /\ EndInv /\ [Next]_vars
        => OutboxInv' /\ EndInv'
  BY NextOutboxInv, NextEndInv
<1> QED
  BY <1>1, <1>2, RowInvariant, PTL DEF Spec

\* The outbox never disagrees with the tables, whatever transactions fail or
\* lose their acknowledgement: a consumer of the events learns the row.
THEOREM OutboxIsTrue == Spec => []OutboxFollowsRows
<1>1. EffectInv /\ OutboxInv => OutboxFollowsRows
  <2> SUFFICES ASSUME EffectInv, OutboxInv PROVE OutboxFollowsRows
    OBVIOUS
  <2>1. \A t \in Transitions :
           IF row[t] = NoRow THEN lifecycle[t] = <<>>
           ELSE lifecycle[t] # <<>> /\ lifecycle[t][Len(lifecycle[t])] = row[t]
    BY DEF OutboxInv, OutboxTrue
  <2>2. \A t \in Transitions, n \in Nodes :
           taskResults[t][n] = IF taskRow[t][n].state \in TerminalTaskStates
                               THEN <<taskRow[t][n]>> ELSE <<>>
    BY DEF EffectInv, TasksTrue, TaskTrue, Finished
  <2> QED
    BY <2>1, <2>2, Zenon DEF OutboxFollowsRows
<1> QED
  BY <1>1, EffectInvariant, EndInvariant, PTL

\* Once a transition that was really run has settled, with the database and
\* the process healthy, its task rows carry the outcomes of its nodes and
\* its row their verdict, its counts and a completion time.
THEOREM SettledRowShowsVerdict == Spec => []SettledRowIsVerdict
<1>1. TypeInv /\ EffectInv /\ EndInv => SettledRowIsVerdict
  <2> SUFFICES ASSUME TypeInv, EffectInv, EndInv, NEW t \in Transitions,
                      Settled(t), ~request[t].dry, faults = 0, running
               PROVE  /\ \A n \in request[t].targets : taskRow[t][n].state = outcomes[t][n]
                      /\ row[t].state \in {Verdict(t)} \cup
                            (IF abort[t] = "idle" THEN {} ELSE {"canceled"})
                      /\ abort[t] = "idle" => row[t].completed /\ Exact(row[t], t)
    BY DEF SettledRowIsVerdict, Exact
  <2>1. Begun(t) /\ ~progress[t].live /\ ~Closing(t) /\ Healthy
    BY DEF Settled, Begun, Closing, Busy, Healthy
  <2>2. EndTrue(t)
    BY DEF EndInv
  <2>3. Decided(t)
    BY <2>1, <2>2 DEF EndTrue
  <2>4. \A n \in request[t].targets : n \in Nodes /\ TaskTrue(t, n)
    BY DEF EffectInv, TasksTrue, TypeInv, TypeOK, CallTypeOK, Requests
  <2>5. \A n \in request[t].targets : taskRow[t][n].state = outcomes[t][n]
    BY <2>1, <2>3, <2>4 DEF Decided, TaskTrue
  <2> QED
    BY <2>1, <2>2, <2>5 DEF EndTrue
<1> QED
  BY <1>1, EffectInvariant, EndInvariant, PTL

-----------------------------------------------------------------------------
(* A client that waits for a transition.                                   *)

\* Everything known of the engine.
EngineInv == TypeInv /\ FlowInv /\ RowInv /\ EffectInv /\ EndInv

\* A client waits for a transition whose call has returned, and its answer
\* is the state of the row.
WaitInv ==
    /\ waiter \in [Transitions -> {"idle", "polling", "error"} \cup TransitionStates]
    /\ \A t \in Transitions :
          /\ waiter[t] # "idle" => call[t] = "returned"
          /\ Answered(t) /\ waiter[t] # "error" /\ abort[t] = "idle" =>
                IsTransitionTerminalState(waiter[t]) /\ row[t].state = waiter[t]

LEMMA NextEngineInv ==
    ASSUME EngineInv, [Next]_vars
    PROVE  EngineInv'
<1>1. TypeInv' /\ FlowInv'
  BY NextTypeInv, NextFlowInv DEF EngineInv
<1>2. RowInv'
  BY <1>1, NextRowInv DEF EngineInv
<1> QED
  BY <1>1, <1>2, NextEffectInv, NextEndInv DEF EngineInv

\* A call that has returned stays so, and an abort is not taken back.
LEMMA ReturnedStays ==
    ASSUME TypeInv, [Next]_vars, NEW t \in Transitions
    PROVE  /\ call[t] = "returned" => call'[t] = "returned"
           /\ abort'[t] = "idle" => abort[t] = "idle"
<1>1. CASE \E u \in Transitions, targets \in TargetSets, dry \in DryRuns,
              m \in Mappings, r \in Results : StartTransition(u, targets, dry, m, r)
  BY <1>1 DEF StartTransition, TypeInv, TypeOK, CallTypeOK
<1>2. CASE \E u \in Transitions :
              \/ RegisterProgress(u) \/ EnqueueSend(u) \/ AbortTransition(u)
              \/ \E r \in Results : ReturnTerminal(u, r) \/ PersistAbort(u, r)
  BY <1>2 DEF RegisterProgress, EnqueueSend, AbortTransition, ReturnTerminal, PersistAbort,
     TypeInv, TypeOK, CallTypeOK
<1>3. CASE \E w \in Workers :
              \/ Dequeue(w) \/ MarkTransitionRunning(w) \/ RecordTaskOutcome(w)
              \/ \E r \in Results : PersistRunning(w, r) \/ PersistFinal(w, r)
  BY <1>3 DEF Dequeue, MarkTransitionRunning, RecordTaskOutcome, PersistRunning, PersistFinal,
     callVars
<1>4. CASE Unmoved
  BY <1>4 DEF Unmoved
<1> QED
  BY <1>1, <1>2, <1>3, <1>4, StepKinds

\* A state that reads as final, of a transition that nobody aborted, is that
\* of a completed row.
LEMMA AnswerIsCompleted ==
    ASSUME EngineInv, NEW t \in Transitions, call[t] = "returned", abort[t] = "idle",
           IsTransitionTerminalState(row[t].state)
    PROVE  /\ row[t].completed
           /\ Healthy => row[t].state = Verdict(t)
<1>1. EndTrue(t) /\ RowOpen(t)
  BY DEF EngineInv, EndInv, RowInv, RowsOpen
<1>2. row[t].completed /\ ~request[t].dry
  BY <1>1 DEF EndTrue, IsTransitionTerminalState, FinalStates
<1>3. ~progress[t].live
  BY <1>1, <1>2 DEF RowOpen
<1>4. ~Closing(t)
  BY <1>2 DEF EngineInv, RowInv, SnapshotsTrue, SnapshotTrue, Closing, Busy
<1>5. Begun(t)
  BY DEF Begun
<1> QED
  BY <1>1, <1>2, <1>3, <1>4, <1>5 DEF EndTrue

LEMMA NextWaitInv ==
    ASSUME EngineInv, WaitInv, [WaitNext]_waitVars
    PROVE  WaitInv'
<1>1. CASE [Next]_vars /\ UNCHANGED waiter
  <2> SUFFICES ASSUME NEW t \in Transitions
               PROVE  /\ waiter[t] # "idle" => call'[t] = "returned"
                      /\ Answered(t) /\ waiter[t] # "error" /\ abort'[t] = "idle" =>
                            IsTransitionTerminalState(waiter[t]) /\ row'[t].state = waiter[t]
    BY <1>1 DEF WaitInv, Answered
  <2>1. /\ call[t] = "returned" => call'[t] = "returned"
        /\ abort'[t] = "idle" => abort[t] = "idle"
    BY <1>1, ReturnedStays DEF EngineInv
  <2>2. waiter[t] # "idle" => call[t] = "returned"
    BY DEF WaitInv
  <2>3. ASSUME Answered(t), waiter[t] # "error", abort'[t] = "idle"
        PROVE  IsTransitionTerminalState(waiter[t]) /\ row'[t].state = waiter[t]
    <3>1. IsTransitionTerminalState(waiter[t]) /\ row[t].state = waiter[t] /\ call[t] = "returned"
      BY <2>1, <2>2, <2>3 DEF WaitInv, Answered
    <3>2. row[t].completed
      BY <2>1, <2>3, <3>1, AnswerIsCompleted
    <3>3. row'[t] = row[t]
      BY <1>1, <2>1, <2>3, <3>2, StepRewritesByAbort DEF EngineInv
    <3> QED
      BY <3>1, <3>3
  <2> QED
    BY <2>1, <2>2, <2>3
<1>2. ASSUME NEW t \in Transitions, BeginWait(t) \/ Poll(t) \/ WaitFails(t)
      PROVE  WaitInv'
  <2>1. UNCHANGED <<call, abort, row>>
    BY <1>2 DEF BeginWait, Poll, WaitFails, vars, callVars, storeVars
  <2>2. row[t].state \in TransitionStates
    BY DEF EngineInv, TypeInv, TypeOK, StoreTypeOK, Rows
  <2>3. CASE BeginWait(t)
    BY <2>1, <2>3 DEF BeginWait, WaitInv, Answered
  <2>4. CASE Poll(t)
    BY <2>1, <2>2, <2>4 DEF Poll, WaitInv, Answered
  <2>5. CASE WaitFails(t)
    BY <2>1, <2>5 DEF WaitFails, WaitInv, Answered
  <2> QED
    BY <1>2, <2>3, <2>4, <2>5
<1> QED
  BY <1>1, <1>2 DEF WaitNext, waitVars

\* What WaitTransition returned for a transition nobody aborted stays true,
\* and with the database and the process healthy it is the verdict of the
\* nodes' outcomes.
THEOREM WaitAnswerIsFinal == WaitSpec => []AnswerIsFinal
<1>1. WaitInit => EngineInv /\ WaitInv
  <2> SUFFICES ASSUME WaitInit PROVE EngineInv /\ WaitInv
    OBVIOUS
  <2>1. EngineInv
    BY InitTypeInv, InitFlowInv, InitRowInv, InitEffectInv, InitEndInv DEF WaitInit, EngineInv
  <2>2. WaitInv
    BY DEF WaitInit, WaitInv, Answered
  <2> QED
    BY <2>1, <2>2
<1>2. EngineInv /\ WaitInv /\ [WaitNext]_waitVars => EngineInv' /\ WaitInv'
  <2>1. [WaitNext]_waitVars => [Next]_vars
    BY DEF WaitNext, BeginWait, Poll, WaitFails, waitVars
  <2> QED
    BY <2>1, NextEngineInv, NextWaitInv
<1>3. EngineInv /\ WaitInv => AnswerIsFinal
  <2> SUFFICES ASSUME EngineInv, WaitInv, NEW t \in Transitions,
                      Answered(t), waiter[t] # "error", abort[t] = "idle"
               PROVE  row[t].state = waiter[t] /\ (faults = 0 /\ running => waiter[t] = Verdict(t))
    BY DEF AnswerIsFinal
  <2>1. /\ IsTransitionTerminalState(waiter[t]) /\ row[t].state = waiter[t] /\ call[t] = "returned"
    BY DEF WaitInv, Answered
  <2>2. Healthy => row[t].state = Verdict(t)
    BY <2>1, AnswerIsCompleted
  <2> QED
    BY <2>1, <2>2 DEF Healthy
<1> QED
  BY <1>1, <1>2, <1>3, PTL DEF WaitSpec

=============================================================================
