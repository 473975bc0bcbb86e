------------------------ MODULE TransitionRowProofs ------------------------
(***************************************************************************)
(* What the transition row says and when, for any number of transitions,   *)
(* nodes, workers and faults.                                              *)
(*                                                                         *)
(* The engine writes a row long after it took the snapshot it writes, so   *)
(* the invariant is about snapshots: what a worker or an abort is about to *)
(* write is still true, or modest, when it is written.  RowInv says so; it *)
(* needs FlowInv, because the last outcome makes the final snapshot from   *)
(* counters that FlowInv knows to be exact.                                *)
(***************************************************************************)
EXTENDS TaskFlowProofs, TransitionRefinement

\* Every node of the transition has an outcome.
Decided(t) == \A n \in request[t].targets : outcomes[t][n] # "none"

\* The counters of a row are the outcomes reported so far, or fewer.
Exact(s, t) ==
    /\ s.success = Cardinality(WithOutcome(t, {"succeeded"}))
    /\ s.failure = Cardinality(WithOutcome(t, {"failed", "canceled"}))

Modest(s, t) ==
    /\ s.success <= Cardinality(WithOutcome(t, {"succeeded"}))
    /\ s.failure <= Cardinality(WithOutcome(t, {"failed", "canceled"}))

\* Before its call a transition is nothing; as long as it has its entry, its
\* row is there and is not completed; an abort is about to write "canceled"
\* and never a completion time.
RowOpen(t) ==
    /\ call[t] = "idle" => request[t].targets = {} /\ row[t] = NoRow
    /\ progress[t].live =>
          /\ ~progress[t].row.completed
          /\ ~row[t].completed
          /\ row[t].state # "absent"
          /\ progress[t].aborted <=> abort[t] # "idle"
    /\ abort[t] = "persist" =>
          /\ ~request[t].dry
          /\ abortSnap[t].state = "canceled"
          /\ ~abortSnap[t].completed
          /\ Modest(abortSnap[t], t)

\* What a worker is about to write of its transition is true: "running" with
\* counters that do not run ahead, or the verdict, once, after the last
\* outcome.
SnapshotTrue(w, t) ==
    /\ pc[w] = "persistRunning" =>
          /\ snap[w].state = "running"
          /\ ~snap[w].completed
          /\ Modest(snap[w], t)
    /\ pc[w] = "persistFinal" =>
          /\ ~progress[t].live
          /\ ~row[t].completed
          /\ ~request[t].dry
          /\ Decided(t)
          /\ snap[w].completed
          /\ snap[w].state = Verdict(t)
          /\ Exact(snap[w], t)

RowsOpen == \A t \in Transitions : RowOpen(t)

SnapshotsTrue ==
    \A w \in Workers, t \in Transitions :
        Busy(w) /\ task[w][1] = t => SnapshotTrue(w, t)

OneFinalWrite ==
    \A v, w \in Workers :
        pc[v] = "persistFinal" /\ pc[w] = "persistFinal" /\ task[v][1] = task[w][1]
        => v = w

RowInv == RowsOpen /\ SnapshotsTrue /\ OneFinalWrite

-----------------------------------------------------------------------------
(* What a step leaves alone.                                               *)

\* Nothing that the row of the transition depends on changes.
SameRow(t) ==
    /\ row'[t] = row[t] /\ progress'[t] = progress[t]
    /\ request'[t] = request[t] /\ outcomes'[t] = outcomes[t]
    /\ abort'[t] = abort[t] /\ abortSnap'[t] = abortSnap[t]
    /\ call'[t] = "idle" => call[t] = "idle"

\* A worker that is about to write a row was about to before.
SameSnapshot(w) ==
    pc'[w] \in {"persistRunning", "persistFinal"} =>
        pc'[w] = pc[w] /\ task'[w] = task[w] /\ snap'[w] = snap[w]

LEMMA SameRowOpen ==
    ASSUME NEW t \in Transitions, RowOpen(t), SameRow(t)
    PROVE  RowOpen(t)'
BY DEF RowOpen, SameRow, Modest, WithOutcome

LEMMA SameSnapshotTrue ==
    ASSUME NEW w \in Workers, NEW t \in Transitions, SameRow(t),
           SnapshotTrue(w, t), SameSnapshot(w)
    PROVE  SnapshotTrue(w, t)'
<1>1. /\ row'[t] = row[t] /\ progress'[t] = progress[t]
      /\ request'[t] = request[t] /\ outcomes'[t] = outcomes[t]
  BY DEF SameRow
<1>2. \A S : WithOutcome(t, S)' = WithOutcome(t, S)
  BY <1>1 DEF WithOutcome
<1>3. Decided(t)' = Decided(t) /\ Verdict(t)' = Verdict(t)
  BY <1>1 DEF Decided, Verdict
<1>4. CASE pc'[w] \in {"persistRunning", "persistFinal"}
  <2>1. pc'[w] = pc[w] /\ snap'[w] = snap[w]
    BY <1>4 DEF SameSnapshot
  <2>2. Modest(snap[w], t) => Modest(snap[w], t)'
    BY <1>2, <2>1 DEF Modest
  <2>3. Exact(snap[w], t) => Exact(snap[w], t)'
    BY <1>2, <2>1 DEF Exact
  <2> QED
    BY <1>1, <1>3, <2>1, <2>2, <2>3 DEF SnapshotTrue
<1>5. CASE pc'[w] \notin {"persistRunning", "persistFinal"}
  BY <1>5 DEF SnapshotTrue
<1> QED
  BY <1>4, <1>5

LEMMA SameFinalWrite ==
    ASSUME OneFinalWrite, \A w \in Workers : SameSnapshot(w)
    PROVE  OneFinalWrite'
BY DEF OneFinalWrite, SameSnapshot

\* A step in which nobody takes a snapshot, and only one transition is
\* concerned.
LEMMA OneRowConcerned ==
    ASSUME RowInv, NEW t \in Transitions,
           \A u \in Transitions \ {t} : SameRow(u),
           \A w \in Workers : SameSnapshot(w),
           RowOpen(t)',
           \A w \in Workers : pc[w] \in {"persistRunning", "persistFinal"}
               /\ task[w][1] = t /\ SnapshotTrue(w, t) /\ SameSnapshot(w)
               => SnapshotTrue(w, t)'
    PROVE  RowInv'
<1>1. RowsOpen'
  BY SameRowOpen DEF RowInv, RowsOpen
<1>2. SnapshotsTrue'
  <2> SUFFICES ASSUME NEW w \in Workers, NEW u \in Transitions, Busy(w)', task'[w][1] = u
               PROVE  SnapshotTrue(w, u)'
    BY DEF SnapshotsTrue
  <2>1. CASE pc'[w] \notin {"persistRunning", "persistFinal"}
    BY <2>1 DEF SnapshotTrue
  <2>2. CASE pc'[w] \in {"persistRunning", "persistFinal"}
    <3>1. pc[w] \in {"persistRunning", "persistFinal"} /\ task[w][1] = u /\ Busy(w)
      BY <2>2 DEF SameSnapshot, Busy
    <3>2. SnapshotTrue(w, u)
      BY <3>1 DEF RowInv, SnapshotsTrue
    <3> QED
      BY <3>1, <3>2, SameSnapshotTrue
  <2> QED
    BY <2>1, <2>2
<1>3. OneFinalWrite'
  BY SameFinalWrite DEF RowInv
<1> QED
  BY <1>1, <1>2, <1>3 DEF RowInv

LEMMA NoRowConcerned ==
    ASSUME RowInv, \A u \in Transitions : SameRow(u), \A w \in Workers : SameSnapshot(w)
    PROVE  RowInv'
<1>1. RowsOpen'
  BY SameRowOpen DEF RowInv, RowsOpen
<1>2. SnapshotsTrue'
  <2> SUFFICES ASSUME NEW w \in Workers, NEW u \in Transitions, Busy(w)', task'[w][1] = u
               PROVE  SnapshotTrue(w, u)'
    BY DEF SnapshotsTrue
  <2>1. CASE pc'[w] \notin {"persistRunning", "persistFinal"}
    BY <2>1 DEF SnapshotTrue
  <2>2. CASE pc'[w] \in {"persistRunning", "persistFinal"}
    <3>1. pc[w] \in {"persistRunning", "persistFinal"} /\ task[w][1] = u /\ Busy(w)
      BY <2>2 DEF SameSnapshot, Busy
    <3>2. SnapshotTrue(w, u)
      BY <3>1 DEF RowInv, SnapshotsTrue
    <3> QED
      BY <3>2, SameSnapshotTrue
  <2> QED
    BY <2>1, <2>2
<1>3. OneFinalWrite'
  BY SameFinalWrite DEF RowInv
<1> QED
  BY <1>1, <1>2, <1>3 DEF RowInv

-----------------------------------------------------------------------------
(* The steps.                                                              *)

LEMMA InitRowInv == Init => RowInv
<1> SUFFICES ASSUME Init PROVE RowInv
  OBVIOUS
<1>1. RowsOpen
  BY DEF Init, RowsOpen, RowOpen, NoRow, NoRequest, NoProgress
<1>2. SnapshotsTrue /\ OneFinalWrite
  BY DEF Init, SnapshotsTrue, OneFinalWrite, SnapshotTrue
<1> QED
  BY <1>1, <1>2 DEF RowInv

\* The steps that move a task, or nothing, and write no row.
LEMMA MovesRowInv ==
    ASSUME TypeInv, RowInv,
           \/ Unmoved
           \/ \E t \in Transitions : EnqueueSend(t)
           \/ \E w \in Workers : Dequeue(w)
    PROVE  RowInv'
<1>1. CASE Unmoved
  <2>1. \A t \in Transitions : SameRow(t)
    BY <1>1 DEF Unmoved, SameRow
  <2>2. \A w \in Workers : SameSnapshot(w)
    BY <1>1 DEF Unmoved, SameSnapshot, Working
  <2> QED
    BY <2>1, <2>2, NoRowConcerned
<1>2. CASE \E t \in Transitions : EnqueueSend(t)
  <2>1. \A t \in Transitions : SameRow(t)
    BY <1>2 DEF EnqueueSend, SameRow, storeVars, worldVars, TypeInv, TypeOK, CallTypeOK
  <2>2. \A w \in Workers : SameSnapshot(w)
    BY <1>2 DEF EnqueueSend, SameSnapshot, workerVars
  <2> QED
    BY <2>1, <2>2, NoRowConcerned
<1>3. CASE \E w \in Workers : Dequeue(w)
  <2>1. \A t \in Transitions : SameRow(t)
    BY <1>3 DEF Dequeue, SameRow, storeVars, callVars, worldVars
  <2>2. \A w \in Workers : SameSnapshot(w)
    BY <1>3 DEF Dequeue, SameSnapshot, TypeInv, TypeOK, WorkerTypeOK
  <2> QED
    BY <2>1, <2>2, NoRowConcerned
<1> QED
  BY <1>1, <1>2, <1>3

\* A call that begins finds no worker with a task of its transition.
LEMMA StartTransitionRowInv ==
    ASSUME TypeInv, FlowInv, RowInv, NEW t \in Transitions, NEW targets \in TargetSets,
           NEW dry \in DryRuns, NEW m \in Mappings, NEW r \in Results,
           StartTransition(t, targets, dry, m, r)
    PROVE  RowInv'
<1>1. \A u \in Transitions \ {t} : SameRow(u)
  BY DEF StartTransition, CreateTransition, InsertTransition, SameRow, engineVars,
         TypeInv, TypeOK, CallTypeOK, WorldTypeOK, StoreTypeOK
<1>2. \A w \in Workers : SameSnapshot(w)
  BY DEF StartTransition, SameSnapshot, workerVars
<1>3. /\ call[t] = "idle" /\ call'[t] # "idle"
      /\ UNCHANGED <<progress, abort>>
  BY DEF StartTransition, engineVars, TypeInv, TypeOK, CallTypeOK
<1>4. ~Begun(t)
  BY <1>3 DEF Begun
<1>5. RowOpen(t)'
  BY <1>3, <1>4 DEF RowOpen, FlowInv, CallsNotBegun
<1>6. \A w \in Workers : ~(pc[w] \in {"persistRunning", "persistFinal"} /\ task[w][1] = t)
  BY <1>4, NoTaskBeforeBegun DEF Busy
<1> QED
  BY <1>1, <1>2, <1>5, <1>6, OneRowConcerned

\* A dry run's second write repeats the row; the entry of a transition that
\* really runs starts with a row that is not completed.
LEMMA CreatedRowInv ==
    ASSUME TypeInv, FlowInv, RowInv, NEW t \in Transitions, NEW r \in Results,
           ReturnTerminal(t, r) \/ RegisterProgress(t)
    PROVE  RowInv'
<1>1. \A u \in Transitions \ {t} : SameRow(u)
  BY ZenonT(40), UpdateTransitionRow
     DEF ReturnTerminal, RegisterProgress, SameRow, storeVars, engineVars, worldVars,
         TypeInv, TypeOK, CallTypeOK, EngineTypeOK
<1>2. \A w \in Workers : SameSnapshot(w)
  BY DEF ReturnTerminal, RegisterProgress, SameSnapshot, workerVars
<1>3. call[t] = "created" /\ call'[t] # "idle" /\ ~Begun(t) /\ UNCHANGED <<abort, request>>
  BY DEF ReturnTerminal, RegisterProgress, TypeInv, TypeOK, CallTypeOK, Begun
<1>4. ~progress[t].live /\ abort[t] = "idle"
  BY <1>3 DEF FlowInv, CallsNotBegun
<1>5. progress'[t].live =>
        /\ ~progress'[t].row.completed
        /\ ~row'[t].completed
        /\ row'[t].state # "absent"
        /\ ~progress'[t].aborted
  <2>1. CASE ReturnTerminal(t, r)
    BY <1>4, <2>1 DEF ReturnTerminal, engineVars
  <2>2. CASE RegisterProgress(t)
    <3>1. row[t].state # "absent"
      <4>1. row[t] = NewTransition(request[t].targets, request[t].dry, request[t].bmc)
        BY <1>3 DEF FlowInv, CallsNotBegun
      <4>2. \A targets, dry, m : NewTransition(targets, dry, m).state # "absent"
        BY DEF NewTransition
      <4> QED
        BY <4>1, <4>2
    <3>2. ~row[t].completed /\ UNCHANGED row
      BY <2>2 DEF RegisterProgress, storeVars
    <3>3. progress'[t].row = row[t] /\ progress'[t].aborted = FALSE
      BY <2>2 DEF RegisterProgress, TypeInv, TypeOK, EngineTypeOK
    <3> QED
      BY <3>1, <3>2, <3>3
  <2> QED
    BY <2>1, <2>2
<1>6. RowOpen(t)'
  BY <1>3, <1>4, <1>5 DEF RowOpen
<1>7. \A w \in Workers : ~(pc[w] \in {"persistRunning", "persistFinal"} /\ task[w][1] = t)
  BY <1>3, NoTaskBeforeBegun DEF Busy
<1> QED
  BY <1>1, <1>2, <1>6, <1>7, OneRowConcerned

\* An abort takes its snapshot of an open entry with exact counters ...
LEMMA AbortTransitionRowInv ==
    ASSUME TypeInv, FlowInv, RowInv, NEW t \in Transitions, AbortTransition(t)
    PROVE  RowInv'
<1> DEFINE p == progress[t]
           canceled == [p.row EXCEPT !.state = "canceled"]
<1>1. \A u \in Transitions \ {t} : SameRow(u)
  BY DEF AbortTransition, SameRow, storeVars, worldVars, TypeInv, TypeOK, CallTypeOK, EngineTypeOK
<1>2. \A w \in Workers : SameSnapshot(w)
  BY DEF AbortTransition, SameSnapshot, workerVars
<1>3. /\ p.live /\ abort'[t] = "persist"
      /\ UNCHANGED <<row, call, request, outcomes, pc, task, snap>>
      /\ abortSnap'[t] = canceled
      /\ progress'[t] = [p EXCEPT !.aborted = TRUE, !.row = canceled]
  BY DEF AbortTransition, storeVars, workerVars, worldVars, TypeInv, TypeOK, CallTypeOK, EngineTypeOK
<1>4. p \in Progress /\ p.row \in Rows
  BY DEF TypeInv, TypeOK, EngineTypeOK, Progress
<1>5. /\ canceled.state = "canceled" /\ canceled.completed = p.row.completed
      /\ canceled.success = p.row.success /\ canceled.failure = p.row.failure
  BY <1>4 DEF Rows
<1> HIDE DEF canceled
<1>6. progress'[t].row = canceled /\ progress'[t].aborted
  BY <1>3, <1>4 DEF Progress
<1>7. ~p.row.completed /\ ~row[t].completed /\ row[t].state # "absent"
  BY <1>3 DEF RowInv, RowsOpen, RowOpen
<1>8. Exact(canceled, t)
  BY <1>3, <1>5 DEF Exact, FlowInv, ProgressCountsOutcomes
<1>9. Modest(abortSnap[t], t)'
  <2>1. \A S : WithOutcome(t, S)' = WithOutcome(t, S)
    BY <1>3 DEF WithOutcome
  <2>2. \A S : Cardinality(WithOutcome(t, S)) \in Nat
    BY WithOutcomeFinite
  <2> QED
    BY <1>3, <1>8, <2>1, <2>2 DEF Exact, Modest
<1>10. call[t] # "idle"
  BY <1>3 DEF FlowInv, CallsNotBegun, Begun
<1>11. RowOpen(t)'
  BY <1>3, <1>5, <1>6, <1>7, <1>9, <1>10 DEF RowOpen, FlowInv, EntriesOfMapped
<1>12. ASSUME NEW w \in Workers, SnapshotTrue(w, t)
       PROVE  SnapshotTrue(w, t)'
  <2>1. pc[w] # "persistFinal"
    BY <1>3, <1>12 DEF SnapshotTrue
  <2> QED
    BY <1>3, <1>12, <2>1 DEF SnapshotTrue, Modest, WithOutcome
<1> QED
  BY <1>1, <1>2, <1>11, <1>12, OneRowConcerned

\* ... and writes it without a completion time, whatever happened since.
LEMMA PersistAbortRowInv ==
    ASSUME TypeInv, FlowInv, RowInv, NEW t \in Transitions, NEW r \in Results,
           PersistAbort(t, r)
    PROVE  RowInv'
<1>1. \A u \in Transitions \ {t} : SameRow(u)
  BY UpdateTransitionRow
     DEF PersistAbort, SameRow, engineVars, worldVars, TypeInv, TypeOK, CallTypeOK
<1>2. \A w \in Workers : SameSnapshot(w)
  BY DEF PersistAbort, SameSnapshot, workerVars
<1>3. /\ abort[t] = "persist" /\ abort'[t] = "done"
      /\ UNCHANGED <<call, request, outcomes, progress, pc, task, snap>>
  BY DEF PersistAbort, engineVars, workerVars, worldVars, TypeInv, TypeOK, CallTypeOK
<1>4. row'[t] = row[t] \/ row'[t] = abortSnap[t]
  BY UpdateTransitionRow DEF PersistAbort
<1>5. abortSnap[t].state = "canceled" /\ ~abortSnap[t].completed
  BY <1>3 DEF RowInv, RowsOpen, RowOpen
<1>6. call[t] # "idle"
  BY <1>3 DEF FlowInv, CallsNotBegun, Begun
<1>7. RowOpen(t)'
  BY <1>3, <1>4, <1>5, <1>6 DEF RowInv, RowsOpen, RowOpen
<1>8. ASSUME NEW w \in Workers, SnapshotTrue(w, t)
      PROVE  SnapshotTrue(w, t)'
  BY SMTT(40), <1>3, <1>4, <1>5, <1>8 DEF SnapshotTrue, Modest, Exact, WithOutcome, Decided, Verdict
<1> QED
  BY <1>1, <1>2, <1>7, <1>8, OneRowConcerned

\* A transition that is not aborted marks its entry running, with counters
\* that are exact at that moment.
LEMMA MarkTransitionRunningRowInv ==
    ASSUME TypeInv, FlowInv, RowInv, NEW w \in Workers, MarkTransitionRunning(w)
    PROVE  RowInv'
<1>a. Busy(w) /\ pc[w] = "mark"
  BY DEF MarkTransitionRunning, Busy
<1>b. PICK t \in Transitions : task[w][1] = t
  BY <1>a, BusyTask DEF TypeInv
<1> DEFINE p == progress[t]
           started == [p.row EXCEPT !.state = "running", !.started = TRUE]
<1>c. /\ UNCHANGED <<row, call, request, outcomes, abort, abortSnap>>
      /\ \A v \in Workers \ {w} : pc'[v] = pc[v] /\ task'[v] = task[v] /\ snap'[v] = snap[v]
  <2>1. UNCHANGED <<row, call, request, outcomes, abort, abortSnap>>
    BY DEF MarkTransitionRunning, storeVars, callVars, worldVars
  <2>2. \A v \in Workers \ {w} : pc'[v] = pc[v] /\ task'[v] = task[v] /\ snap'[v] = snap[v]
    BY RetireDrops DEF MarkTransitionRunning, TypeInv, TypeOK, WorkerTypeOK
  <2> QED
    BY <2>1, <2>2
<1>d. p \in Progress /\ p.row \in Rows /\ progress \in [Transitions -> Progress]
  BY DEF TypeInv, TypeOK, EngineTypeOK, Progress
<1>e. /\ started.state = "running" /\ started.completed = p.row.completed
      /\ started.success = p.row.success /\ started.failure = p.row.failure
  BY <1>d DEF Rows
<1>f. \/ UNCHANGED progress /\ pc'[w] \in {"idle", "begin"}
      \/ /\ p.live /\ task'[w] = task[w] /\ pc'[w] = "persistRunning"
         /\ progress' = [progress EXCEPT ![t] = [p EXCEPT !.row = started]]
         /\ snap'[w] = started
  <2>1. \/ Retire(w) /\ UNCHANGED progress
        \/ UNCHANGED progress /\ pc' = [pc EXCEPT ![w] = "begin"]
        \/ /\ p.live /\ UNCHANGED task
           /\ progress' = [progress EXCEPT ![t] = [p EXCEPT !.row = started]]
           /\ pc' = [pc EXCEPT ![w] = "persistRunning"]
           /\ snap' = [snap EXCEPT ![w] = started]
    BY <1>b, Zenon DEF MarkTransitionRunning
  <2> HIDE DEF started
  <2> QED
    BY <2>1, RetireDrops DEF TypeInv, TypeOK, WorkerTypeOK
<1>g. CASE UNCHANGED progress /\ pc'[w] \in {"idle", "begin"}
  <2>1. \A u \in Transitions : SameRow(u)
    BY <1>c, <1>g DEF SameRow
  <2>2. \A v \in Workers : SameSnapshot(v)
    BY <1>c, <1>g DEF SameSnapshot
  <2> QED
    BY <2>1, <2>2, NoRowConcerned
<1>h. CASE /\ p.live /\ task'[w] = task[w] /\ pc'[w] = "persistRunning"
           /\ progress' = [progress EXCEPT ![t] = [p EXCEPT !.row = started]]
           /\ snap'[w] = started
  <2> HIDE DEF started
  <2>1. progress'[t] = [p EXCEPT !.row = started] /\ \A u \in Transitions \ {t} : progress'[u] = progress[u]
    BY <1>d, <1>h
  <2>2. progress'[t].row = started /\ progress'[t].live = p.live /\ progress'[t].aborted = p.aborted
    BY <1>d, <2>1 DEF Progress
  <2>3. /\ ~p.row.completed /\ ~row[t].completed /\ row[t].state # "absent"
        /\ p.aborted <=> abort[t] # "idle"
    BY <1>h DEF RowInv, RowsOpen, RowOpen
  <2>4. \A u \in Transitions : \A S : WithOutcome(u, S)' = WithOutcome(u, S)
    BY <1>c DEF WithOutcome
  <2>5. RowsOpen'
    <3>1. \A u \in Transitions \ {t} : RowOpen(u)'
      BY <1>c, <2>1, SameRowOpen DEF SameRow, RowInv, RowsOpen
    <3>2. RowOpen(t)'
      BY <1>c, <1>e, <1>h, <2>2, <2>3, <2>4 DEF RowInv, RowsOpen, RowOpen, Modest
    <3> QED
      BY <3>1, <3>2 DEF RowsOpen
  <2>6. SnapshotsTrue'
    <3> SUFFICES ASSUME NEW v \in Workers, NEW u \in Transitions, Busy(v)', task'[v][1] = u
                 PROVE  SnapshotTrue(v, u)'
      BY DEF SnapshotsTrue
    <3>1. CASE v = w
      <4>1. u = t
        BY <1>b, <1>h, <3>1
      <4>2. /\ p.row.success = Cardinality(WithOutcome(t, {"succeeded"}))
            /\ p.row.failure = Cardinality(WithOutcome(t, {"failed", "canceled"}))
            /\ p.row.success \in Nat /\ p.row.failure \in Nat
        BY <1>d, <1>h DEF FlowInv, ProgressCountsOutcomes, Rows
      <4> QED
        BY <1>e, <1>h, <2>3, <2>4, <3>1, <4>1, <4>2 DEF SnapshotTrue, Modest
    <3>2. CASE v # w
      <4>1. SnapshotTrue(v, u)
        BY <1>c, <3>2 DEF RowInv, SnapshotsTrue, Busy
      <4>2. pc'[v] = pc[v] /\ snap'[v] = snap[v]
        BY <1>c, <3>2
      <4>3. pc[v] = "persistFinal" => u # t
        BY <1>h, <4>1 DEF SnapshotTrue
      <4>4. Verdict(u)' = Verdict(u) /\ (Decided(u)' <=> Decided(u))
        BY <1>c DEF Verdict, Decided
      <4> QED
        BY <1>c, <2>1, <2>4, <4>1, <4>2, <4>3, <4>4 DEF SnapshotTrue, Modest, Exact
    <3> QED
      BY <3>1, <3>2
  <2>7. OneFinalWrite'
    BY <1>c, <1>h DEF RowInv, OneFinalWrite
  <2> QED
    BY <2>5, <2>6, <2>7 DEF RowInv
<1> QED
  BY <1>f, <1>g, <1>h

\* What a worker writes of its transition.
LEMMA PersistRow ==
    ASSUME TypeInv, NEW w \in Workers, NEW r \in Results,
           PersistRunning(w, r) \/ PersistFinal(w, r)
    PROVE  \E t \in Transitions :
              /\ task[w][1] = t /\ Busy(w)
              /\ \A u \in Transitions \ {t} : SameRow(u)
              /\ row'[t] = row[t] \/ row'[t] = snap[w]
              /\ pc'[w] \in {"idle", "begin"}
              /\ \A v \in Workers \ {w} : pc'[v] = pc[v] /\ task'[v] = task[v] /\ snap'[v] = snap[v]
              /\ UNCHANGED <<progress, call, request, outcomes, abort, abortSnap>>
<1>a. Busy(w)
  BY DEF PersistRunning, PersistFinal, Busy
<1>b. PICK t \in Transitions : task[w][1] = t
  BY <1>a, BusyTask DEF TypeInv
<1>c. /\ UpdateTransition(t, snap[w], r)
      /\ UNCHANGED <<progress, call, request, outcomes, abort, abortSnap>>
      /\ \/ Retire(w)
         \/ /\ UNCHANGED task /\ pc' = [pc EXCEPT ![w] = "begin"]
            /\ snap' = [snap EXCEPT ![w] = NoRow]
  BY <1>b DEF PersistRunning, PersistFinal, callVars, worldVars
<1>d. /\ pc'[w] \in {"idle", "begin"}
      /\ \A v \in Workers \ {w} : pc'[v] = pc[v] /\ task'[v] = task[v] /\ snap'[v] = snap[v]
  BY <1>c, RetireDrops DEF TypeInv, TypeOK, WorkerTypeOK
<1>e. /\ \A u \in Transitions \ {t} : row'[u] = row[u]
      /\ row'[t] = row[t] \/ row'[t] = snap[w]
  BY <1>c, UpdateTransitionRow
<1> QED
  BY <1>a, <1>b, <1>c, <1>d, <1>e DEF SameRow

\* The "running" write does not complete the row; the final write does, once
\* and only after the entry is gone.
LEMMA PersistRowInv ==
    ASSUME TypeInv, FlowInv, RowInv, NEW w \in Workers, NEW r \in Results,
           PersistRunning(w, r) \/ PersistFinal(w, r)
    PROVE  RowInv'
<1>a. PICK t \in Transitions :
        /\ task[w][1] = t /\ Busy(w)
        /\ \A u \in Transitions \ {t} : SameRow(u)
        /\ row'[t] = row[t] \/ row'[t] = snap[w]
        /\ pc'[w] \in {"idle", "begin"}
        /\ \A v \in Workers \ {w} : pc'[v] = pc[v] /\ task'[v] = task[v] /\ snap'[v] = snap[v]
        /\ UNCHANGED <<progress, call, request, outcomes, abort, abortSnap>>
  BY PersistRow
<1>b. pc[w] \in {"persistRunning", "persistFinal"}
  BY DEF PersistRunning, PersistFinal
<1>c. SnapshotTrue(w, t)
  BY <1>a DEF RowInv, SnapshotsTrue
<1>1. \A v \in Workers : SameSnapshot(v)
  BY <1>a DEF SameSnapshot
<1>2. RowOpen(t)'
  <2>1. call[t] # "idle"
    BY <1>a DEF FlowInv, WorkersBegun, Begun
  <2>2. progress[t].live => ~row'[t].completed /\ row'[t].state # "absent"
    BY <1>a, <1>b, <1>c DEF RowInv, RowsOpen, RowOpen, SnapshotTrue
  <2> QED
    BY <1>a, <2>1, <2>2 DEF RowInv, RowsOpen, RowOpen, Modest, WithOutcome
<1>3. ASSUME NEW v \in Workers, pc[v] \in {"persistRunning", "persistFinal"}, task[v][1] = t,
             SnapshotTrue(v, t)
      PROVE  SnapshotTrue(v, t)'
  <2>1. CASE v = w
    BY <1>a, <2>1 DEF SnapshotTrue
  <2>2. CASE v # w
    <3>1. pc[v] = "persistFinal" => ~row'[t].completed
      <4> SUFFICES ASSUME pc[v] = "persistFinal" PROVE ~row'[t].completed
        OBVIOUS
      <4>1. pc[w] # "persistFinal"
        BY <1>a, <1>3, <2>2 DEF RowInv, OneFinalWrite
      <4> QED
        BY <1>a, <1>b, <1>c, <1>3, <4>1 DEF SnapshotTrue
    <3>2. \A S : WithOutcome(t, S)' = WithOutcome(t, S)
      BY <1>a DEF WithOutcome
    <3>3. Verdict(t)' = Verdict(t) /\ (Decided(t)' <=> Decided(t))
      BY <1>a DEF Verdict, Decided
    <3> QED
      BY <1>a, <1>3, <2>2, <3>1, <3>2, <3>3 DEF SnapshotTrue, Modest, Exact
  <2> QED
    BY <2>1, <2>2
<1> QED
  BY <1>a, <1>1, <1>2, <1>3, OneRowConcerned

\* The verdict as a function of the nodes and their outcomes.
VerdictOf(T, res) ==
    LET seen == {res[n] : n \in T}
    IN  CASE seen = {"canceled"} -> "canceled"
          [] seen = {"succeeded"} -> "completed"
          [] seen # {"canceled"} /\ "succeeded" \notin seen -> "failed"
          [] OTHER -> "partial"

\* finalTransitionState on exact counters is the verdict: T are the nodes of
\* a transition, U those without a mapping, res what became of each.
LEMMA FinalStateIsVerdict ==
    ASSUME NEW T, IsFiniteSet(T), T # {}, NEW U \in SUBSET T, NEW res,
           \A n \in T : res[n] \in {"succeeded", "failed", "canceled"},
           \A n \in U : res[n] = "failed",
           NEW p, p.total = Cardinality(T \ U),
           p.canceled = Cardinality({n \in T : res[n] \in {"canceled"}}),
           p.row.success = Cardinality({n \in T : res[n] \in {"succeeded"}}),
           p.row.failure = Cardinality({n \in T : res[n] \in {"failed", "canceled"}})
    PROVE  FinalTransitionState(p) = VerdictOf(T, res)
<1> DEFINE C == {n \in T : res[n] \in {"canceled"}}
           S == {n \in T : res[n] \in {"succeeded"}}
           F == {n \in T : res[n] \in {"failed", "canceled"}}
           seen == {res[n] : n \in T}
<1>1. /\ IsFiniteSet(C) /\ IsFiniteSet(S) /\ IsFiniteSet(F) /\ IsFiniteSet(T \ U)
      /\ Cardinality(C) \in Nat /\ Cardinality(S) \in Nat /\ Cardinality(F) \in Nat
      /\ Cardinality(T \ U) \in Nat
  <2>1. C \subseteq T /\ S \subseteq T /\ F \subseteq T /\ T \ U \subseteq T
    OBVIOUS
  <2> QED
    BY <2>1, FS_Subset, FS_CardinalityType
<1>2. (Cardinality(S) = 0 <=> S = {}) /\ (Cardinality(F) = 0 <=> F = {})
      /\ (Cardinality(T \ U) = 0 <=> T \ U = {})
  BY <1>1, FS_EmptySet
<1>3. C \subseteq F /\ (Cardinality(F) = Cardinality(C) => F = C)
  BY <1>1, FS_Subset
<1>4. seen = {"canceled"} <=>
         /\ Cardinality(T \ U) > 0
         /\ Cardinality(C) = Cardinality(T \ U)
         /\ Cardinality(S) = 0
         /\ Cardinality(F) = Cardinality(C)
  <2>1. ASSUME seen = {"canceled"}
        PROVE  /\ Cardinality(T \ U) > 0
               /\ Cardinality(C) = Cardinality(T \ U)
               /\ Cardinality(S) = 0
               /\ Cardinality(F) = Cardinality(C)
    <3>1. \A n \in T : res[n] = "canceled"
      BY <2>1
    <3>2. U = {} /\ C = T /\ F = T /\ S = {} /\ T \ U = T
      BY <3>1
    <3>3. Cardinality(T \ U) # 0
      BY <1>2, <3>2
    <3> QED
      BY <1>1, <1>2, <3>2, <3>3
  <2>2. ASSUME Cardinality(S) = 0, Cardinality(F) = Cardinality(C)
        PROVE  seen = {"canceled"}
    <3>1. S = {} /\ F = C
      BY <1>2, <1>3, <2>2
    <3>2. \A n \in T : res[n] = "canceled"
      BY <3>1
    <3> QED
      BY <3>2
  <2> QED
    BY <2>1, <2>2
<1>5. seen = {"succeeded"} <=> Cardinality(F) = 0
  <2>1. F = {} <=> \A n \in T : res[n] = "succeeded"
    OBVIOUS
  <2> QED
    BY <1>2, <2>1
<1>6. "succeeded" \notin seen <=> Cardinality(S) = 0
  BY <1>2
<1>7. FinalTransitionState(p)
        = IF /\ p.total > 0 /\ p.canceled = p.total
             /\ p.row.success = 0 /\ p.row.failure = p.canceled
          THEN "canceled"
          ELSE IF p.row.failure = 0 THEN "completed"
          ELSE IF p.row.success = 0 THEN "failed" ELSE "partial"
  BY DEF FinalTransitionState
<1>8. /\ p.total = Cardinality(T \ U) /\ p.canceled = Cardinality(C)
      /\ p.row.success = Cardinality(S) /\ p.row.failure = Cardinality(F)
  OBVIOUS
<1> HIDE DEF C, S, F
<1>9. FinalTransitionState(p)
        = IF seen = {"canceled"} THEN "canceled"
          ELSE IF seen = {"succeeded"} THEN "completed"
          ELSE IF "succeeded" \notin seen THEN "failed" ELSE "partial"
  BY <1>4, <1>5, <1>6, <1>7, <1>8, Zenon
<1>10. {"canceled"} # {"succeeded"} /\ "succeeded" \in {"succeeded"} /\ "succeeded" \notin {"canceled"}
  OBVIOUS
<1> HIDE DEF seen
<1>11. (seen = {"canceled"} => seen # {"succeeded"}) /\ (seen = {"succeeded"} => "succeeded" \in seen)
  BY <1>10
<1>12. FinalTransitionState(p)
        = CASE seen = {"canceled"} -> "canceled"
            [] seen = {"succeeded"} -> "completed"
            [] seen # {"canceled"} /\ "succeeded" \notin seen -> "failed"
            [] OTHER -> "partial"
  BY <1>9, <1>11
<1> QED
  BY <1>12 DEF seen, VerdictOf

\* A row that did not run ahead of the outcomes does not after one more.
LEMMA StillModest ==
    ASSUME TypeInv, NEW t \in Transitions, NEW n \in request[t].targets,
           outcomes[t][n] = "none", NEW o \in Outcomes \ {"none"},
           outcomes' = [outcomes EXCEPT ![t][n] = o], UNCHANGED request
    PROVE  \A s \in Rows : Modest(s, t) => Modest(s, t)'
<1>1. \A S : "none" \notin S =>
         Cardinality(WithOutcome(t, S)') = Tick(Cardinality(WithOutcome(t, S)), o \in S)
  BY OneMoreOutcome, Zenon
<1>2. /\ Cardinality(WithOutcome(t, {"succeeded"})')
           = Tick(Cardinality(WithOutcome(t, {"succeeded"})), o \in {"succeeded"})
      /\ Cardinality(WithOutcome(t, {"failed", "canceled"})')
           = Tick(Cardinality(WithOutcome(t, {"failed", "canceled"})), o \in {"failed", "canceled"})
  BY <1>1
<1>3. /\ Cardinality(WithOutcome(t, {"succeeded"})) \in Nat
      /\ Cardinality(WithOutcome(t, {"failed", "canceled"})) \in Nat
  BY WithOutcomeFinite
<1>4. \A s \in Rows : s.success \in Nat /\ s.failure \in Nat
  BY DEF Rows
<1> QED
  BY <1>2, <1>3, <1>4 DEF Modest, Tick

\* The last outcome makes the final snapshot: it carries the verdict and the
\* exact counts.
LEMMA FinalSnapshotTrue ==
    ASSUME TypeInv, FlowInv, NEW w \in Workers, NEW t, NEW n, NEW o, Records(w, t, n, o),
           WithOutcome(t, {"none"}) = {n}, NEW f, f = FinalRow(Counted(progress[t], o))
    PROVE  /\ Decided(t)'
           /\ f.completed
           /\ f.state = Verdict(t)'
           /\ Exact(f, t)'
<1> DEFINE p == progress[t]
           q == Counted(p, o)
<1>a. /\ t \in Transitions /\ n \in Nodes /\ n \in request[t].targets
      /\ p.live /\ outcomes[t][n] = "none" /\ n \in Mapped(request[t].targets, request[t].bmc)
      /\ o \in Outcomes \ {"none"} /\ outcomes' = [outcomes EXCEPT ![t][n] = o]
      /\ UNCHANGED request
  BY DEF Records, ToCount
<1>b. /\ outcomes'[t][n] = o
      /\ \A k \in Nodes \ {n} : outcomes'[t][k] = outcomes[t][k]
      /\ outcomes[t] \in [Nodes -> Outcomes] /\ request[t].targets \subseteq Nodes
  BY <1>a DEF TypeInv, TypeOK, WorldTypeOK, CallTypeOK, Requests
<1>c. p \in Progress /\ q \in Progress /\ q.row \in Rows
  BY <1>a, CountedType DEF TypeInv, TypeOK, EngineTypeOK, Progress
<1>d. /\ q.total = p.total /\ q.canceled = Tick(p.canceled, o = "canceled")
      /\ q.row.success = Tick(p.row.success, o = "succeeded")
      /\ q.row.failure = Tick(p.row.failure, o # "succeeded")
  BY DEF Counted, CountedRow
<1> HIDE DEF q
<1>e. f.completed /\ f.state = FinalTransitionState(q)
      /\ f.success = q.row.success /\ f.failure = q.row.failure
  BY <1>c DEF FinalRow, Rows, q
<1>f. \A k \in request[t].targets : outcomes'[t][k] \in {"succeeded", "failed", "canceled"}
  BY <1>a, <1>b DEF WithOutcome, Outcomes
<1>g. \A S : "none" \notin S =>
         Cardinality(WithOutcome(t, S)') = Tick(Cardinality(WithOutcome(t, S)), o \in S)
  BY <1>a, OneMoreOutcome, ZenonT(60)
<1>h. /\ q.canceled = Cardinality(WithOutcome(t, {"canceled"})')
      /\ q.row.success = Cardinality(WithOutcome(t, {"succeeded"})')
      /\ q.row.failure = Cardinality(WithOutcome(t, {"failed", "canceled"})')
  <2>1. /\ p.row.success = Cardinality(WithOutcome(t, {"succeeded"}))
        /\ p.row.failure = Cardinality(WithOutcome(t, {"failed", "canceled"}))
        /\ p.canceled = Cardinality(WithOutcome(t, {"canceled"}))
    BY <1>a DEF FlowInv, ProgressCountsOutcomes
  <2>2. /\ Cardinality(WithOutcome(t, {"succeeded"})')
             = Tick(Cardinality(WithOutcome(t, {"succeeded"})), o \in {"succeeded"})
        /\ Cardinality(WithOutcome(t, {"failed", "canceled"})')
             = Tick(Cardinality(WithOutcome(t, {"failed", "canceled"})), o \in {"failed", "canceled"})
        /\ Cardinality(WithOutcome(t, {"canceled"})')
             = Tick(Cardinality(WithOutcome(t, {"canceled"})), o \in {"canceled"})
    BY <1>g
  <2>3. o \in {"failed", "canceled"} <=> o # "succeeded"
    BY <1>a DEF Outcomes
  <2> QED
    BY <1>d, <2>1, <2>2, <2>3 DEF Tick
<1>i. f.state = Verdict(t)'
  <2> DEFINE T == request[t].targets
             U == Unmapped(T, request[t].bmc)
             res == outcomes'[t]
  <2>1. IsFiniteSet(T) /\ T # {} /\ U \in SUBSET T
    BY <1>a, <1>b, ConstantsAssumption, FS_Subset DEF Unmapped
  <2>2. \A k \in T : res[k] \in {"succeeded", "failed", "canceled"}
    BY <1>f
  <2>3. \A k \in U : res[k] = "failed"
    <3>1. n \notin U /\ U \subseteq Nodes
      BY <1>a, <1>b DEF Mapped, Unmapped
    <3>2. \A k \in U : outcomes[t][k] = "failed"
      BY <1>a DEF FlowInv, EntriesOfMapped
    <3> QED
      BY <1>b, <3>1, <3>2
  <2>4. q.total = Cardinality(T \ U)
    BY <1>a, <1>d DEF FlowInv, EntriesOfMapped, Mapped
  <2>5. \A S : WithOutcome(t, S)' = {k \in T : res[k] \in S}
    BY <1>a DEF WithOutcome
  <2>6. /\ q.canceled = Cardinality({k \in T : res[k] \in {"canceled"}})
        /\ q.row.success = Cardinality({k \in T : res[k] \in {"succeeded"}})
        /\ q.row.failure = Cardinality({k \in T : res[k] \in {"failed", "canceled"}})
    BY <1>h, <2>5
  <2>7. Verdict(t)' = VerdictOf(T, res)
    BY <1>a DEF Verdict, VerdictOf
  <2> HIDE DEF T, U, res
  <2> QED
    BY SMTT(40), <1>e, <2>1, <2>2, <2>3, <2>4, <2>6, <2>7, FinalStateIsVerdict
<1>j. Exact(f, t)'
  BY <1>e, <1>h DEF Exact
<1>k. Decided(t)'
  BY <1>a, <1>f DEF Decided
<1> QED
  BY <1>e, <1>i, <1>j, <1>k

LEMMA RecordTaskOutcomeRowInv ==
    ASSUME TypeInv, FlowInv, RowInv, NEW w \in Workers, RecordTaskOutcome(w)
    PROVE  RowInv'
<1>r. PICK t, n, o : Records(w, t, n, o)
  BY RecordTaskOutcomeRecords
<1>a. /\ t \in Transitions /\ n \in request[t].targets /\ task[w][1] = t /\ Busy(w) /\ pc[w] = "record"
      /\ progress[t].live /\ outcomes[t][n] = "none"
      /\ o \in Outcomes \ {"none"} /\ outcomes' = [outcomes EXCEPT ![t][n] = o]
      /\ UNCHANGED <<row, call, request, abort, abortSnap>>
  BY <1>r DEF Records, ToCount
<1>b. \/ /\ progress' = [progress EXCEPT ![t] = Counted(progress[t], o)]
         /\ pc'[w] = "idle"
      \/ /\ progress' = [progress EXCEPT ![t] = NoProgress]
         /\ WithOutcome(t, {"none"}) = {n}
         /\ pc'[w] = "persistFinal" /\ task'[w] = task[w]
         /\ snap'[w] = FinalRow(Counted(progress[t], o))
  BY <1>r, RetireDrops DEF Records, TypeInv, TypeOK, WorkerTypeOK
<1>c. \A v \in Workers \ {w} : pc'[v] = pc[v] /\ task'[v] = task[v] /\ snap'[v] = snap[v]
  BY <1>r, RetireDrops DEF Records, TypeInv, TypeOK, WorkerTypeOK
<1>d. \A u \in Transitions \ {t} : SameRow(u)
  BY <1>a, <1>b DEF SameRow, TypeInv, TypeOK, EngineTypeOK, WorldTypeOK
<1>e. \A s \in Rows : Modest(s, t) => Modest(s, t)'
  BY <1>a, StillModest, Zenon
<1>f. progress'[t].live => /\ progress'[t].row.completed = progress[t].row.completed
                           /\ progress'[t].aborted = progress[t].aborted
  <2>1. progress'[t] = Counted(progress[t], o) \/ progress'[t] = NoProgress
    BY <1>a, <1>b DEF TypeInv, TypeOK, EngineTypeOK
  <2>2. /\ Counted(progress[t], o).row.completed = progress[t].row.completed
        /\ Counted(progress[t], o).aborted = progress[t].aborted
    BY DEF Counted, CountedRow
  <2>3. ~NoProgress.live
    BY DEF NoProgress
  <2> QED
    BY <2>1, <2>2, <2>3
<1>g. /\ ~progress[t].row.completed /\ ~row[t].completed /\ row[t].state # "absent"
      /\ progress[t].aborted <=> abort[t] # "idle"
      /\ call[t] # "idle"
  BY <1>a DEF RowInv, RowsOpen, RowOpen, FlowInv, WorkersBegun, Begun
<1>1. RowsOpen'
  <2>1. RowOpen(t)'
    <3>1. abortSnap[t] \in Rows
      BY <1>a DEF TypeInv, TypeOK, CallTypeOK
    <3>2. abort[t] = "persist" => /\ ~request[t].dry
                                  /\ abortSnap[t].state = "canceled"
                                  /\ ~abortSnap[t].completed
                                  /\ Modest(abortSnap[t], t)
      BY <1>a DEF RowInv, RowsOpen, RowOpen
    <3>3. Modest(abortSnap[t], t) => Modest(abortSnap[t], t)'
      BY <1>a, <1>e, <3>1 DEF Modest
    <3> QED
      BY <1>a, <1>f, <1>g, <3>2, <3>3 DEF RowOpen
  <2> QED
    BY <1>d, <2>1, SameRowOpen DEF RowInv, RowsOpen
<1>2. ASSUME NEW v \in Workers, v # w, Busy(v), task[v][1] = t
      PROVE  pc[v] # "persistFinal" /\ SnapshotTrue(v, t)'
  <2>1. SnapshotTrue(v, t) /\ snap[v] \in Rows
    BY <1>a, <1>2 DEF RowInv, SnapshotsTrue, TypeInv, TypeOK, WorkerTypeOK
  <2>2. pc[v] # "persistFinal" /\ pc'[v] = pc[v] /\ snap'[v] = snap[v]
    BY <1>a, <1>c, <1>2, <2>1 DEF SnapshotTrue
  <2>3. Modest(snap[v], t) => Modest(snap[v], t)'
    BY <1>e, <2>1, <2>2 DEF Modest
  <2> QED
    BY <2>1, <2>2, <2>3 DEF SnapshotTrue
<1>3. ASSUME pc'[w] = "persistFinal" PROVE SnapshotTrue(w, t)'
  <2>1. /\ progress' = [progress EXCEPT ![t] = NoProgress]
        /\ WithOutcome(t, {"none"}) = {n}
        /\ snap'[w] = FinalRow(Counted(progress[t], o))
    BY <1>b, <1>3
  <2>2. Decided(t)' /\ snap'[w].completed /\ snap'[w].state = Verdict(t)'
    BY <1>r, <2>1, FinalSnapshotTrue
  <2>3. Exact(snap[w], t)'
    <3>1. PICK f : f = FinalRow(Counted(progress[t], o))
      OBVIOUS
    <3>2. Exact(f, t)'
      BY <1>r, <2>1, <3>1, FinalSnapshotTrue
    <3> QED
      BY <2>1, <3>1, <3>2 DEF Exact
  <2>4. ~progress'[t].live
    BY <1>a, <2>1 DEF TypeInv, TypeOK, EngineTypeOK, NoProgress
  <2>5. ~request[t].dry
    BY <1>a DEF FlowInv, EntriesOfMapped
  <2> QED
    BY <1>a, <1>g, <1>3, <2>2, <2>3, <2>4, <2>5 DEF SnapshotTrue
<1>4. SnapshotsTrue'
  <2> SUFFICES ASSUME NEW v \in Workers, NEW u \in Transitions, Busy(v)', task'[v][1] = u
               PROVE  SnapshotTrue(v, u)'
    BY DEF SnapshotsTrue
  <2>1. CASE v = w
    BY <1>a, <1>b, <1>3, <2>1 DEF Busy
  <2>2. CASE v # w /\ u = t
    BY <1>c, <1>2, <2>2 DEF Busy
  <2>3. CASE v # w /\ u # t
    <3>1. SnapshotTrue(v, u) /\ SameSnapshot(v)
      BY <1>c, <2>3 DEF RowInv, SnapshotsTrue, SameSnapshot, Busy
    <3> QED
      BY <1>d, <2>3, <3>1, SameSnapshotTrue
  <2> QED
    BY <2>1, <2>2, <2>3
<1>5. OneFinalWrite'
  <2> SUFFICES ASSUME NEW v \in Workers, NEW x \in Workers, pc'[v] = "persistFinal",
                      pc'[x] = "persistFinal", task'[v][1] = task'[x][1], v # x
               PROVE  FALSE
    BY DEF OneFinalWrite
  <2>1. CASE v # w /\ x # w
    BY <1>c, <2>1 DEF RowInv, OneFinalWrite
  <2>2. ASSUME NEW y \in Workers, y # w, pc'[w] = "persistFinal", pc'[y] = "persistFinal",
               task'[y][1] = task'[w][1]
        PROVE  FALSE
    <3>1. task'[w][1] = t
      BY <1>a, <1>b, <2>2
    <3>2. Busy(y) /\ task[y][1] = t /\ pc[y] = "persistFinal"
      BY <1>c, <2>2, <3>1 DEF Busy
    <3> QED
      BY <1>2, <2>2, <3>2
  <2> QED
    BY <2>1, <2>2
<1> QED
  BY <1>1, <1>4, <1>5 DEF RowInv

LEMMA NextRowInv ==
    ASSUME TypeInv, FlowInv, RowInv, [Next]_vars
    PROVE  RowInv'
<1>1. CASE \E t \in Transitions, targets \in TargetSets, dry \in DryRuns,
              m \in Mappings, r \in Results : StartTransition(t, targets, dry, m, r)
  BY <1>1, StartTransitionRowInv
<1>2. ASSUME NEW t \in Transitions,
             \/ RegisterProgress(t) \/ EnqueueSend(t) \/ AbortTransition(t)
             \/ \E r \in Results : ReturnTerminal(t, r) \/ PersistAbort(t, r)
      PROVE  RowInv'
  BY <1>2, CreatedRowInv, MovesRowInv, AbortTransitionRowInv, PersistAbortRowInv DEF Results
<1>3. ASSUME NEW w \in Workers,
             \/ Dequeue(w) \/ MarkTransitionRunning(w) \/ RecordTaskOutcome(w)
             \/ \E r \in Results : PersistRunning(w, r) \/ PersistFinal(w, r)
      PROVE  RowInv'
  BY <1>3, MovesRowInv, MarkTransitionRunningRowInv, RecordTaskOutcomeRowInv, PersistRowInv
<1> QED
  BY <1>1, <1>2, <1>3, StepKinds, MovesRowInv

-----------------------------------------------------------------------------
(* The theorems.                                                           *)

LEMMA RowInvariant == Spec => [](TypeInv /\ FlowInv /\ RowInv)
<1>1. Init => RowInv
  BY InitRowInv
<1>2. TypeInv /\ FlowInv /\ RowInv /\ [Next]_vars => RowInv'
  BY NextRowInv
<1> QED
  BY <1>1, <1>2, FlowInvariant, PTL DEF Spec

\* A step that changes a completed row is the write of an abort.
LEMMA StepRewritesByAbort ==
    ASSUME TypeInv, FlowInv, RowInv, [Next]_vars, NEW t \in Transitions,
           row[t].completed, row'[t] # row[t]
    PROVE  abort[t] = "persist" /\ row'[t] = abortSnap[t]
<1>1. CASE \E u \in Transitions, targets \in TargetSets, dry \in DryRuns,
              m \in Mappings, r \in Results : StartTransition(u, targets, dry, m, r)
  <2>1. call[t] = "idle"
    BY <1>1 DEF StartTransition, CreateTransition, InsertTransition, TypeInv, TypeOK, StoreTypeOK
  <2> QED
    BY <2>1 DEF RowInv, RowsOpen, RowOpen, NoRow
<1>2. ASSUME NEW u \in Transitions,
             \/ RegisterProgress(u) \/ EnqueueSend(u) \/ AbortTransition(u)
             \/ \E r \in Results : ReturnTerminal(u, r)
      PROVE  FALSE
  BY <1>2, UpdateTransitionRow
     DEF RegisterProgress, EnqueueSend, AbortTransition, ReturnTerminal, storeVars
<1>3. ASSUME NEW u \in Transitions, NEW r \in Results, PersistAbort(u, r)
      PROVE  abort[t] = "persist" /\ row'[t] = abortSnap[t]
  BY <1>3, UpdateTransitionRow DEF PersistAbort
<1>4. ASSUME NEW w \in Workers,
             Dequeue(w) \/ MarkTransitionRunning(w) \/ RecordTaskOutcome(w)
      PROVE  FALSE
  BY <1>4 DEF Dequeue, MarkTransitionRunning, RecordTaskOutcome, storeVars
<1>5. ASSUME NEW w \in Workers, NEW r \in Results, PersistRunning(w, r)
      PROVE  FALSE
  <2>1. pc[w] = "persistRunning" /\ Busy(w)
    BY <1>5 DEF PersistRunning, Busy
  <2>2. task[w][1] = t
    BY <1>5, PersistRow DEF SameRow
  <2>3. progress[t].live
    BY <2>1, <2>2 DEF FlowInv, TasksToCount, ToCount
  <2> QED
    BY <2>3 DEF RowInv, RowsOpen, RowOpen
<1>6. ASSUME NEW w \in Workers, NEW r \in Results, PersistFinal(w, r)
      PROVE  FALSE
  <2>1. pc[w] = "persistFinal" /\ Busy(w)
    BY <1>6 DEF PersistFinal, Busy
  <2>2. task[w][1] = t
    BY <1>6, PersistRow DEF SameRow
  <2> QED
    BY <2>1, <2>2 DEF RowInv, SnapshotsTrue, SnapshotTrue
<1>7. CASE Unmoved
  BY <1>7 DEF Unmoved
<1> QED
  BY <1>1, <1>2, <1>3, <1>4, <1>5, <1>6, <1>7, StepKinds

\* A completed row is rewritten only by the late write of an abort, for any
\* number of workers and of failed writes: no slow "running" write and no
\* second final write ever reaches it.
THEOREM OnlyAbortRewrites == Spec => OnlyAbortRewritesFinalRow
<1>1. TypeInv /\ FlowInv /\ RowInv /\ [Next]_vars =>
        [\A t \in Transitions :
            row[t].completed /\ row'[t] # row[t] =>
                abort[t] = "persist" /\ row'[t] = abortSnap[t]]_vars
  BY StepRewritesByAbort
<1> QED
  BY <1>1, RowInvariant, PTL DEF Spec, OnlyAbortRewritesFinalRow

-----------------------------------------------------------------------------
(* The engine implements the lifecycle.                                    *)

\* What the lifecycle sees of the engine.
LEMMA LifecycleStutter ==
    ASSUME UNCHANGED <<row, request, outcomes, abort>>
    PROVE  UNCHANGED Lifecycle!lifecycleVars
BY DEF Lifecycle!lifecycleVars, ResultOf

\* The results of a transition that really runs are its outcomes.
LEMMA ResultsAreOutcomes ==
    ASSUME NEW t \in Transitions, ~request[t].dry
    PROVE  \A n : ResultOf(t, n) = outcomes[t][n]
BY DEF ResultOf

LEMMA LifecycleCardinality == \A S : Lifecycle!Cardinality(S) = Cardinality(S)
BY Zenon DEF Lifecycle!Cardinality, Cardinality

LEMMA CountIsCardinality ==
    ASSUME TypeInv, NEW t \in Transitions, ~request[t].dry, NEW S, NEW res,
           res = [u \in Transitions |-> [n \in Nodes |-> ResultOf(u, n)]][t]
    PROVE  Lifecycle!Count(request[t].targets, res, S) = Cardinality(WithOutcome(t, S))
<1>1. request[t].targets \subseteq Nodes
  BY DEF TypeInv, TypeOK, CallTypeOK, Requests
<1>2. \A n \in Nodes : res[n] = outcomes[t][n]
  BY ResultsAreOutcomes
<1>3. {n \in request[t].targets : res[n] \in S} = WithOutcome(t, S)
  BY <1>1, <1>2 DEF WithOutcome
<1> QED
  BY <1>3, LifecycleCardinality DEF Lifecycle!Count

LEMMA InitLifecycle == Init => Lifecycle!LifecycleInit
BY DEF Init, Lifecycle!LifecycleInit, NoRequest, ResultOf, NoRow, Mapped, Unmapped

\* Only one transition is concerned by a step that changes nothing of the
\* others.
LEMMA ConcernsOnly ==
    ASSUME NEW t \in Transitions,
           \A u \in Transitions \ {t} :
              /\ row'[u] = row[u] /\ request'[u] = request[u]
              /\ outcomes'[u] = outcomes[u] /\ abort'[u] = abort[u]
    PROVE  Lifecycle!OnlyConcerns(t)
BY DEF Lifecycle!OnlyConcerns, ResultOf

\* The row a request is created with tells what is known of its nodes.
LEMMA NewRowTells ==
    ASSUME NEW T \in SUBSET Nodes, T # {}, NEW dry \in BOOLEAN, NEW m, NEW res,
           \A n \in T : res[n] = IF n \in Unmapped(T, m) THEN "failed"
                                 ELSE IF dry THEN "planned" ELSE "none"
    PROVE  \/ Lifecycle!TellsTheEnd(NewTransition(T, dry, m), dry, T, res)
           \/ /\ \E n \in T : res[n] = "none"
              /\ Lifecycle!TellsOpen(NewTransition(T, dry, m), "pending", T, res)
<1> DEFINE s == NewTransition(T, dry, m)
           U == Unmapped(T, m)
<1>1. U \subseteq T /\ Mapped(T, m) = T \ U
  BY DEF Unmapped, Mapped
<1>2. {n \in T : res[n] \in {"succeeded"}} = {} /\ {n \in T : res[n] \in {"failed", "canceled"}} = U
  BY <1>1
<1>3. s.success = 0 /\ s.failure = Cardinality(U) /\ Cardinality(U) \in Nat
  BY MappedFinite, NewTransitionFields
<1>4. Lifecycle!ExactCounts(s, T, res)
  BY <1>2, <1>3, LifecycleCardinality, FS_EmptySet DEF Lifecycle!ExactCounts, Lifecycle!Count
<1>5. Lifecycle!ModestCounts(s, T, res)
  BY <1>2, <1>3, LifecycleCardinality, FS_EmptySet DEF Lifecycle!ModestCounts, Lifecycle!Count
<1>6. CASE dry
  <2>1. s.completed /\ s.state = "planned"
    BY <1>6 DEF NewTransition
  <2>2. Lifecycle!FinalState(dry, T, res) = "planned"
    BY <1>6 DEF Lifecycle!FinalState
  <2>3. \A n \in T : res[n] # "none"
    BY <1>6
  <2> QED
    BY <1>4, <2>1, <2>2, <2>3 DEF Lifecycle!TellsTheEnd
<1>7. CASE ~dry /\ T \ U = {}
  <2>1. s.completed /\ s.state = "failed"
    BY <1>1, <1>7 DEF NewTransition
  <2>2. \A n \in T : res[n] = "failed"
    BY <1>7
  <2>3. {res[n] : n \in T} = {"failed"}
    BY <2>2
  <2>4. Lifecycle!FinalState(dry, T, res) = "failed"
    BY <1>7, <2>3 DEF Lifecycle!FinalState
  <2> QED
    BY <1>4, <2>1, <2>2, <2>4 DEF Lifecycle!TellsTheEnd
<1>8. CASE ~dry /\ T \ U # {}
  <2>1. ~s.completed /\ s.state = "pending"
    BY <1>1, <1>8 DEF NewTransition
  <2>2. \E n \in T : res[n] = "none"
    BY <1>8
  <2> QED
    BY <1>5, <2>1, <2>2 DEF Lifecycle!TellsOpen
<1> QED
  BY <1>6, <1>7, <1>8

LEMMA StartTransitionAccepts ==
    ASSUME TypeInv, FlowInv, RowInv, NEW t \in Transitions, NEW targets \in TargetSets,
           NEW dry \in DryRuns, NEW m \in Mappings, NEW r \in Results,
           StartTransition(t, targets, dry, m, r)
    PROVE  Lifecycle!Accept(t)
<1> DEFINE res == [n \in Nodes |-> ResultOf(t, n)]'
<1>1. /\ call[t] = "idle" /\ targets # {} /\ UNCHANGED abort
      /\ request'[t] = [targets |-> targets, dry |-> dry, bmc |-> m]
      /\ outcomes'[t] = [n \in Nodes |-> IF n \in Unmapped(targets, m) THEN "failed" ELSE "none"]
      /\ row'[t] = row[t] \/ row'[t] = NewTransition(targets, dry, m)
      /\ \A u \in Transitions \ {t} :
            /\ row'[u] = row[u] /\ request'[u] = request[u]
            /\ outcomes'[u] = outcomes[u] /\ abort'[u] = abort[u]
  BY DEF StartTransition, CreateTransition, InsertTransition,
         TypeInv, TypeOK, CallTypeOK, WorldTypeOK, StoreTypeOK
<1>2. targets \in SUBSET Nodes /\ dry \in BOOLEAN
  BY ConstantsAssumption
<1>3. /\ request'[t].targets = targets /\ request'[t].dry = dry /\ request'[t].bmc = m
      /\ request[t].targets = {}
  BY <1>1 DEF RowInv, RowsOpen, RowOpen
<1>4. \A n \in Nodes : res[n] = IF dry /\ n \in Mapped(targets, m) THEN "planned"
                                ELSE IF n \in Unmapped(targets, m) THEN "failed" ELSE "none"
  BY <1>1, <1>3 DEF ResultOf
<1>5. \A n \in Nodes : n \notin targets => res[n] = "none"
  BY <1>4 DEF Mapped, Unmapped
<1>6. \A n \in targets : res[n] = IF n \in Unmapped(targets, m) THEN "failed"
                                  ELSE IF dry THEN "planned" ELSE "none"
  BY <1>2, <1>4 DEF Mapped, Unmapped
<1> HIDE DEF res
<1>7. \A n \in Nodes : res[n] \in IF n \notin targets THEN {"none"}
                                  ELSE IF dry THEN {"planned", "failed"} ELSE {"none", "failed"}
  BY <1>5, <1>6
<1>8. \/ row'[t] = row[t]
      \/ Lifecycle!TellsTheEnd(row'[t], dry, targets, res)
      \/ /\ \E n \in targets : res[n] = "none"
         /\ Lifecycle!TellsOpen(row'[t], "pending", targets, res)
  BY <1>1, <1>2, <1>6, NewRowTells
<1>9. Lifecycle!OnlyConcerns(t)
  BY <1>1, ConcernsOnly
<1>10. /\ [u \in Transitions |-> [n \in Nodes |-> ResultOf(u, n)]]'[t] = res
       /\ [u \in Transitions |-> request[u].targets]'[t] = targets
       /\ [u \in Transitions |-> request[u].dry]'[t] = dry
       /\ [u \in Transitions |-> request[u].targets][t] = {}
  BY <1>3 DEF res
<1> QED
  BY <1>1, <1>7, <1>8, <1>9, <1>10 DEF Lifecycle!Accept

\* A transition that has its entry has an undecided node.
LEMMA LiveIsUndecided ==
    ASSUME TypeInv, FlowInv, NEW t \in Transitions, progress[t].live
    PROVE  ~request[t].dry /\ Lifecycle!Undecided(t) # {}
<1>1. ~request[t].dry
  BY DEF FlowInv, EntriesOfMapped
<1>2. Cardinality(WithOutcome(t, {"none"})) > 0
  BY DEF FlowInv, ProgressCountsOutcomes
<1>3. WithOutcome(t, {"none"}) # {}
  BY <1>2, FS_EmptySet
<1>4. PICK n \in request[t].targets : outcomes[t][n] = "none"
  BY <1>3 DEF WithOutcome
<1>5. n \in Nodes
  BY DEF TypeInv, TypeOK, CallTypeOK, Requests
<1>6. n \in Lifecycle!Undecided(t)
  BY <1>1, <1>4, <1>5, ResultsAreOutcomes DEF Lifecycle!Undecided
<1> QED
  BY <1>1, <1>6

LEMMA AbortCancels ==
    ASSUME TypeInv, FlowInv, RowInv, NEW t \in Transitions, AbortTransition(t)
    PROVE  Lifecycle!Cancel(t)
<1>1. /\ progress[t].live /\ ~progress[t].aborted
      /\ abort' = [abort EXCEPT ![t] = "persist"]
      /\ UNCHANGED <<row, request, outcomes>>
  BY DEF AbortTransition, storeVars, worldVars
<1>2. abort[t] = "idle"
  BY <1>1 DEF RowInv, RowsOpen, RowOpen
<1>3. Lifecycle!Undecided(t) # {}
  BY <1>1, LiveIsUndecided
<1> QED
  BY <1>1, <1>2, <1>3 DEF Lifecycle!Cancel, ResultOf

\* Snapshots that do not run ahead of the outcomes tell a transition that is
\* not over.
LEMMA ModestTellsOpen ==
    ASSUME TypeInv, NEW t \in Transitions, ~request[t].dry, NEW s, NEW state,
           s.state = state, ~s.completed, Modest(s, t)
    PROVE  Lifecycle!TellsOpen(s, state, request[t].targets,
                               [u \in Transitions |-> [n \in Nodes |-> ResultOf(u, n)]][t])
<1> DEFINE res == [u \in Transitions |-> [n \in Nodes |-> ResultOf(u, n)]][t]
<1>1. \A S : Lifecycle!Count(request[t].targets, res, S) = Cardinality(WithOutcome(t, S))
  BY CountIsCardinality
<1> HIDE DEF res
<1>2. Lifecycle!ModestCounts(s, request[t].targets, res)
  BY <1>1 DEF Lifecycle!ModestCounts, Modest
<1>3. Lifecycle!TellsOpen(s, state, request[t].targets, res)
  BY <1>2 DEF Lifecycle!TellsOpen
<1> QED
  BY <1>3 DEF res

LEMMA PersistAbortShows ==
    ASSUME TypeInv, FlowInv, RowInv, NEW t \in Transitions, NEW r \in Results,
           PersistAbort(t, r)
    PROVE  Lifecycle!ShowCanceled(t)
<1>1. /\ abort[t] = "persist" /\ abort' = [abort EXCEPT ![t] = "done"]
      /\ UNCHANGED <<request, outcomes>>
      /\ row'[t] = row[t] \/ row'[t] = abortSnap[t]
      /\ \A u \in Transitions \ {t} : row'[u] = row[u]
  BY UpdateTransitionRow DEF PersistAbort, worldVars
<1>2. ~request[t].dry /\ abortSnap[t].state = "canceled" /\ ~abortSnap[t].completed
      /\ Modest(abortSnap[t], t)
  BY <1>1 DEF RowInv, RowsOpen, RowOpen
<1>3. Lifecycle!TellsOpen(abortSnap[t], "canceled", request[t].targets,
                          [u \in Transitions |-> [n \in Nodes |-> ResultOf(u, n)]][t])
  BY <1>2, ModestTellsOpen
<1>4. Lifecycle!OnlyConcerns(t)
  BY <1>1, ConcernsOnly DEF TypeInv, TypeOK, CallTypeOK
<1> QED
  BY <1>1, <1>3, <1>4 DEF Lifecycle!ShowCanceled, ResultOf

\* A step that changes nothing but rows, one of them, to what they were.
LEMMA RowsAsTheyWere ==
    ASSUME TypeInv, StoreTypeOK', NEW t \in Transitions,
           \A u \in Transitions \ {t} : row'[u] = row[u], row'[t] = row[t],
           UNCHANGED <<request, outcomes, abort>>
    PROVE  UNCHANGED Lifecycle!lifecycleVars
<1>1. row \in [Transitions -> Rows] /\ row' \in [Transitions -> Rows]
  BY DEF TypeInv, TypeOK, StoreTypeOK
<1>2. \A u \in Transitions : row'[u] = row[u]
  OBVIOUS
<1>3. UNCHANGED row
  BY <1>1, <1>2
<1> QED
  BY <1>3, LifecycleStutter

LEMMA PersistRunningShows ==
    ASSUME TypeInv, TypeInv', FlowInv, RowInv, NEW w \in Workers, NEW r \in Results,
           PersistRunning(w, r)
    PROVE  \/ \E t \in Transitions : Lifecycle!ShowRunning(t)
           \/ UNCHANGED Lifecycle!lifecycleVars
<1>a. PICK t \in Transitions :
        /\ task[w][1] = t /\ Busy(w)
        /\ \A u \in Transitions \ {t} : SameRow(u)
        /\ row'[t] = row[t] \/ row'[t] = snap[w]
        /\ UNCHANGED <<request, outcomes, abort>>
  BY PersistRow
<1>b. pc[w] = "persistRunning"
  BY DEF PersistRunning
<1>1. CASE row'[t] = row[t]
  BY <1>a, <1>1, RowsAsTheyWere DEF SameRow, TypeInv, TypeOK
<1>2. CASE row'[t] = snap[w]
  <2>1. progress[t].live
    BY <1>a, <1>b DEF FlowInv, TasksToCount, ToCount
  <2>2. ~request[t].dry /\ Lifecycle!Undecided(t) # {}
    BY <2>1, LiveIsUndecided
  <2>3. snap[w].state = "running" /\ ~snap[w].completed /\ Modest(snap[w], t)
    BY <1>a, <1>b DEF RowInv, SnapshotsTrue, SnapshotTrue
  <2>4. Lifecycle!TellsOpen(snap[w], "running", request[t].targets,
                            [u \in Transitions |-> [n \in Nodes |-> ResultOf(u, n)]][t])
    BY <2>2, <2>3, ModestTellsOpen
  <2>5. Lifecycle!OnlyConcerns(t)
    BY <1>a, ConcernsOnly DEF SameRow
  <2> QED
    BY <1>a, <1>2, <2>2, <2>4, <2>5 DEF Lifecycle!ShowRunning, ResultOf
<1> QED
  BY <1>a, <1>1, <1>2

LEMMA PersistFinalShows ==
    ASSUME TypeInv, TypeInv', FlowInv, RowInv, NEW w \in Workers, NEW r \in Results,
           PersistFinal(w, r)
    PROVE  \/ \E t \in Transitions : Lifecycle!ShowEnd(t)
           \/ UNCHANGED Lifecycle!lifecycleVars
<1>a. PICK t \in Transitions :
        /\ task[w][1] = t /\ Busy(w)
        /\ \A u \in Transitions \ {t} : SameRow(u)
        /\ row'[t] = row[t] \/ row'[t] = snap[w]
        /\ UNCHANGED <<request, outcomes, abort>>
  BY PersistRow
<1>b. pc[w] = "persistFinal"
  BY DEF PersistFinal
<1>1. CASE row'[t] = row[t]
  BY <1>a, <1>1, RowsAsTheyWere DEF SameRow, TypeInv, TypeOK
<1>2. CASE row'[t] = snap[w]
  <2> DEFINE T == request[t].targets
             res == [u \in Transitions |-> [n \in Nodes |-> ResultOf(u, n)]][t]
  <2>1. /\ ~row[t].completed /\ ~request[t].dry /\ Decided(t) /\ snap[w].completed
        /\ snap[w].state = Verdict(t) /\ Exact(snap[w], t)
    BY <1>a, <1>b DEF RowInv, SnapshotsTrue, SnapshotTrue
  <2>2. T \subseteq Nodes
    BY DEF TypeInv, TypeOK, CallTypeOK, Requests
  <2>3. \A n \in T : res[n] = outcomes[t][n]
    BY <2>1, <2>2, ResultsAreOutcomes
  <2>4. \A S : Lifecycle!Count(T, res, S) = Cardinality(WithOutcome(t, S))
    BY <2>1, CountIsCardinality
  <2> HIDE DEF res
  <2>5. \A n \in T : res[n] # "none"
    BY <2>1, <2>3 DEF Decided
  <2>6. {res[n] : n \in T} = {outcomes[t][n] : n \in T}
    BY <2>3
  <2>7. Lifecycle!FinalState(request[t].dry, T, res) = Verdict(t)
    BY <2>1, <2>6 DEF Lifecycle!FinalState, Verdict
  <2>8. Lifecycle!ExactCounts(snap[w], T, res)
    BY <2>1, <2>4 DEF Lifecycle!ExactCounts, Exact
  <2>9. Lifecycle!TellsTheEnd(snap[w], request[t].dry, T, res)
    BY <2>1, <2>5, <2>7, <2>8 DEF Lifecycle!TellsTheEnd
  <2>10. Lifecycle!OnlyConcerns(t)
    BY <1>a, ConcernsOnly DEF SameRow
  <2> QED
    BY <1>a, <1>2, <2>1, <2>9, <2>10 DEF Lifecycle!ShowEnd, ResultOf, res
<1> QED
  BY <1>a, <1>1, <1>2

LEMMA RecordTaskOutcomeDecides ==
    ASSUME TypeInv, FlowInv, RowInv, NEW w \in Workers, RecordTaskOutcome(w)
    PROVE  \E t \in Transitions : Lifecycle!Decide(t)
<1>r. PICK t, n, o : Records(w, t, n, o)
  BY RecordTaskOutcomeRecords
<1>a. /\ t \in Transitions /\ n \in Nodes /\ n \in request[t].targets
      /\ progress[t].live /\ outcomes[t][n] = "none"
      /\ o \in Outcomes \ {"none"} /\ outcomes' = [outcomes EXCEPT ![t][n] = o]
      /\ UNCHANGED <<row, request, abort>>
  BY <1>r DEF Records, ToCount
<1>b. ~request[t].dry /\ row[t].state # "absent"
  BY <1>a DEF RowInv, RowsOpen, RowOpen, FlowInv, EntriesOfMapped
<1>c. n \in Lifecycle!Undecided(t)
  BY <1>a, <1>b, ResultsAreOutcomes DEF Lifecycle!Undecided
<1>d. o \in {"succeeded", "failed", "canceled"}
  BY <1>a DEF Outcomes
<1>e. /\ \A u \in Transitions \ {t} : outcomes'[u] = outcomes[u]
      /\ outcomes'[t][n] = o
      /\ \A k \in Nodes \ {n} : outcomes'[t][k] = outcomes[t][k]
  BY <1>a DEF TypeInv, TypeOK, WorldTypeOK
<1>f. /\ \A u \in Transitions \ {t} : \A k \in Nodes : ResultOf(u, k)' = ResultOf(u, k)
      /\ \A k \in Nodes \ {n} : ResultOf(t, k)' = ResultOf(t, k)
      /\ ResultOf(t, n)' = o
  BY <1>a, <1>b, <1>e DEF ResultOf
<1>g. [u \in Transitions |-> [k \in Nodes |-> ResultOf(u, k)]]'
        = [[u \in Transitions |-> [k \in Nodes |-> ResultOf(u, k)]] EXCEPT ![t][n] = o]
  BY ZenonT(40), <1>a, <1>f
<1>h. UNCHANGED <<[u \in Transitions |-> request[u].dry], [u \in Transitions |-> request[u].targets],
                  abort, row>>
  BY <1>a
<1>i. Lifecycle!Decide(t)
  BY <1>b, <1>c, <1>d, <1>g, <1>h DEF Lifecycle!Decide
<1> QED
  BY <1>a, <1>i

LEMMA NextLifecycle ==
    ASSUME TypeInv, TypeInv', FlowInv, RowInv, [Next]_vars
    PROVE  [Lifecycle!LifecycleNext]_(Lifecycle!lifecycleVars)
<1> USE DEF Lifecycle!LifecycleNext
<1>1. CASE \E t \in Transitions, targets \in TargetSets, dry \in DryRuns,
              m \in Mappings, r \in Results : StartTransition(t, targets, dry, m, r)
  BY <1>1, StartTransitionAccepts
<1>2. ASSUME NEW t \in Transitions, RegisterProgress(t) \/ EnqueueSend(t)
      PROVE  UNCHANGED Lifecycle!lifecycleVars
  BY <1>2, LifecycleStutter DEF RegisterProgress, EnqueueSend, storeVars, worldVars
<1>3. ASSUME NEW t \in Transitions, NEW r \in Results, ReturnTerminal(t, r)
      PROVE  UNCHANGED Lifecycle!lifecycleVars
  BY <1>3, UpdateTransitionRow, RowsAsTheyWere DEF ReturnTerminal, worldVars, TypeInv, TypeOK
<1>4. ASSUME NEW t \in Transitions, AbortTransition(t)
      PROVE  Lifecycle!LifecycleNext
  BY <1>4, AbortCancels
<1>5. ASSUME NEW t \in Transitions, NEW r \in Results, PersistAbort(t, r)
      PROVE  Lifecycle!LifecycleNext
  BY <1>5, PersistAbortShows
<1>6. ASSUME NEW w \in Workers, Dequeue(w) \/ MarkTransitionRunning(w)
      PROVE  UNCHANGED Lifecycle!lifecycleVars
  BY <1>6, LifecycleStutter DEF Dequeue, MarkTransitionRunning, storeVars, callVars, worldVars
<1>7. ASSUME NEW w \in Workers, RecordTaskOutcome(w)
      PROVE  Lifecycle!LifecycleNext
  BY <1>7, RecordTaskOutcomeDecides
<1>8. ASSUME NEW w \in Workers, NEW r \in Results, PersistRunning(w, r) \/ PersistFinal(w, r)
      PROVE  [Lifecycle!LifecycleNext]_(Lifecycle!lifecycleVars)
  BY <1>8, PersistRunningShows, PersistFinalShows
<1>9. CASE Unmoved
  BY <1>9, LifecycleStutter DEF Unmoved
<1> HIDE DEF Lifecycle!LifecycleNext
<1> QED
  BY <1>1, <1>2, <1>3, <1>4, <1>5, <1>6, <1>7, <1>8, <1>9, StepKinds

\* The engine implements TransitionLifecycle, for any number of transitions,
\* nodes, workers and faults: every step of the engine is a step of the
\* lifecycle or leaves what it sees alone.
THEOREM EngineImplementsLifecycle == Spec => ImplementsLifecycle
<1>1. Init => Lifecycle!LifecycleInit
  BY InitLifecycle
<1>2. TypeInv /\ TypeInv' /\ FlowInv /\ RowInv /\ [Next]_vars
        => [Lifecycle!LifecycleNext]_(Lifecycle!lifecycleVars)
  BY NextLifecycle
<1> QED
  BY <1>1, <1>2, RowInvariant, PTL DEF Spec, ImplementsLifecycle, Lifecycle!LifecycleSpec

=============================================================================
