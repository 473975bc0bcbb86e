# Verification of Chamicore

TLA+ models of the Chamicore services that have their source in this
repository, checked with TLC on small instances and proved with TLAPS for every
size: every invariant and every step property a passing run checks is a theorem
as well. What is left to TLC is liveness (section 5).

Contents: the system (1), the plan (2), the modules (3), the runs (4), the
proofs (5), what the checks found (6), what is not modelled (7).

## 1. The system

Two services live here; the others (SMD, BSS, auth, cloud-init, discovery, kea
sync, UI, CLI) are submodules and appear only as the environment of these two.

| Part | State it keeps | Operations | Interacts with |
|---|---|---|---|
| Transition engine (`chamicore-power/internal/engine`) | `Runner.progress` under `progressMu`, a bounded task queue, one slot channel per BMC, one execution context per transition | `StartTransition`, `AbortTransition`, worker loop, shutdown | store, BMCs (Redfish), SMD, HTTP handlers |
| Transition store and outbox (`internal/store`) | `power.transitions`, `power.transition_tasks`, outbox table | one transaction per create or update, events in the same transaction | engine, handlers, the outbox relay (library) |
| Mapping sync (`internal/sync`) | tags of the last applied lists, ready flag, ticker interval, forced-sync channel | `Run`, `SyncOnce`, `Trigger` | SMD, mapping store, `POST /admin/mappings/sync` |
| Mapping store | `power.bmc_endpoints`, `power.node_bmc_links` | replace in one transaction, list, resolve | sync, engine, operators who bind credentials |
| Go client (`pkg/client`) | none | `WaitTransition`, plain requests | HTTP API |
| HTTP API (`internal/server`) | none of its own; requests in progress | POST `/transitions` and `/actions/*`, GET and DELETE `/transitions/{id}`, GET `/power-status` | engine, stores, SMD groups |
| MCP server (`chamicore-mcp`) | mode and session token from the start, handlers in progress, the audit log | tool calls over HTTP, event stream and stdin, behind authentication, mode, scopes and confirmation; shutdown | all services, as their client |
| Service template (`templates/service`) | one table whose rows carry a time stamp, from which tags are made | GET, PUT with If-Match, PATCH, DELETE | concurrent HTTP clients |

What is hard about it:

* The engine takes a snapshot under `progressMu` and writes it to the database
  after releasing the lock, in three places (first task running, abort, last
  task done). The writes can be reordered.
* Errors of database writes are ignored (task rows, final row), end a task
  (running row) or end a request (enqueue). A transaction may commit although
  its caller sees an error.
* Aborts, client disconnects, per-transition deadlines and shutdowns cancel
  different contexts at any moment, while workers wait for a slot, back off,
  send, verify, patch or write.
* Handlers read a row and its tasks in two statements, and abort a transition
  by an entry in memory that appears after its row. Transitions overlap on a
  node, and power status takes the task with the newest time stamp for the
  truth, a stamp taken before the work it stands for is visible.
* The process keeps the progress of transitions in memory only and may die at
  any point.
* The sync reads its inputs in three separate calls while SMD changes, trusts
  tags of earlier cycles, and answers forced syncs whose callers may be gone.
* The tools of the MCP server make several calls to other services, each of
  which may fail, or take effect although the server gets an error, while the
  client of the tool may leave; three handlers each defer one audit record, at
  their own place. The checks and the tools read the same arguments differently.
* The template compares a tag in one statement and updates the row in another.

What makes the parts correct is stated as properties in the modules; the
hazards in `PROJECT.json` name, for each risky line, the properties that watch
it.

## 2. Plan

1. `TransitionRunner`: engine and transition store. *Done.*
2. `WaitTransition`: the client's wait composed with the engine. *Done.*
3. `MappingSync`: sync loop and mapping tables. *Done.*
4. Proofs: type correctness and the per-BMC limit. *Done.*
5. `TransitionLifecycle`: an abstract specification of what a client sees of a
   transition, and `TransitionRefinement`, the mapping under which
   `TransitionRunner` implements it. *Done, model-checked and proved.*
6. `PowerAPI`: target resolution and the bulk limit, the abort handler that
   tolerates an unknown transition, torn reads of row and tasks, power status,
   and a process that dies and restarts. *Done.*
7. `ToolServer`: a tool call of the MCP server through authentication, mode,
   scopes, confirmation, execution and audit; the waiting tool. *Done.*
8. `ResourceStore`: the template's handlers with their tags under concurrent
   writers, and the proof that its tags are sound. *Done.*
9. Proofs: where a task is and how it is counted (`TaskFlowProofs`), what the
   row says and the refinement of 5 (`TransitionRowProofs`), what becomes of a
   task, the outbox and the client's wait (`TransitionOutcomeProofs`), the sync
   (`MappingSyncProofs`), the tool server (`ToolServerProofs`). *Done.*
10. Proofs about `PowerAPI` (`PowerAPIProofs`): the engine's invariants under
    steps that include a death of the process, then `AcceptedAbortStops`,
    `AnswerIsConsistent` and `StatusMatchesSMD`. *Done.*

## 3. Modules

### TransitionRunner

One variable per piece of state: the tables and the outbox (`row`, `taskRow`,
`lifecycle`, `taskResults`), the runner's memory (`progress`, `ctxDone`,
`queue`, `closed`, `limiter`, `running`), the program counters and locals of
the `StartTransition` calls (`call`, `request`, `toEnqueue`), of the abort
calls (`abort`, `abortSnap`) and of the workers (`pc`, `task`, `attempt`,
`outcome`, `snap`, `holding`). `actions` and `patched` are the world outside,
`outcomes` is history.

A block under `progressMu` is one step, a store call is one step, a Redfish
action is two (sent, answered). The actions follow the code:

| Code | Actions |
|---|---|
| `StartTransition` | `StartTransition` (resolve, create), `ReturnTerminal` (dry run, or nothing mapped), `RegisterProgress`, `EnqueueCheck`, `EnqueueSend`, `EnqueueCanceled`, `EnqueuePanic` |
| `AbortTransition` | `AbortTransition` (under the lock), `PersistAbort` |
| `worker`, `executeTask` | `Dequeue`, `WorkerExit`, `CancelBeforeStart`, `BeginTask`, `AcquireBMCLimiter`, `ExecuteRefused`, `ExecuteSend`, `ExecuteAnswer`, `Backoff`, `Verify` |
| `markTransitionRunning` | `MarkTransitionRunning`, `PersistRunning` |
| `completeTask` | `UpdateNodePowerState`, `PersistTask` |
| `recordTaskOutcome` | `RecordTaskOutcome`, `PersistFinal` |
| `main`, `Queue.close` | `Shutdown`, `CloseQueue` |

A database transaction ends in one of three ways: it commits, it rolls back, or
it commits and its caller is told of an error (`UpdateTransition` reads the row
back after the commit). With a cancelled context it never begins.

Abstractions. A request names a set of nodes: trimming, deduplication and
sorting are done by the time it is a set of numbers. Time stamps are reduced to
being set or not, error texts to three classes (retryable, permanent, context).
The transition deadline may fire in any step of the traffic with a BMC. The
operation, and with it the expected power state, makes no difference to the
control; `PowerAPI` adds it. Steps named "faulty variant" are plausible mistakes
kept next to the definition they belong to; no specification uses them, they
show that a property would notice.

### TransitionLifecycle and TransitionRefinement

`TransitionLifecycle` knows, per transition, whether it is a dry run, its nodes,
what became of each, whether a cancellation was asked for, and the row somebody
who polls it is shown. Its steps: a request is accepted (`Accept`), a node is
decided (`Decide`), the row says running (`ShowRunning`), a cancellation is
taken and shown (`Cancel`, `ShowCanceled`), the row tells the end (`ShowEnd`).
What it promises: a result never changes; the row tells the end only when every
node has a result, and then its state and its counters are what the results
amount to; before that its counters never exceed the results; it does not say
running once every node is decided; a cancellation is taken only while a node is
undecided, although it may be shown after the end was told (which is what
`abort_counts` finds objectionable).

`TransitionRefinement` instantiates it: the row is `row`, the results are
`outcomes` (a mapped node of a dry run, which has no task that runs, is
planned), a cancellation is `abort`. Queue, workers, slots, snapshots, retries,
events and task rows are hidden; most steps of the engine are stuttering steps.

### PowerAPI

The engine's steps together with the requests that cause them. It adds the
power state each request asked for (`wanted`), the order of the time stamps of
a node's task rows (`order`), what SMD was told (`smd`), a GET between its two
statements (`reader`), the DELETE of each transition (`del`) and a death of the
process.

| Code | Actions |
|---|---|
| `handleCreateTransition`, `handleAction*`, `startTransition`, `resolveTargets` | `HandleAction`, `PostTransition` |
| `loadTransition` | `GetTransition`, `ListTransitionTasks` |
| `handleDeleteTransition` | `DeleteTransition`, `DeletePersist` |
| `executeTask`, `completeTask` with their stamps and the SMD patch | `APIWorkerStep` |
| `handleGetPowerStatus`, `ListLatestTransitionTasksByNode` | operators `PowerStatus`, `LatestTask` |
| the end of the process and `main` | `Crash` |

Time stamps. `updated_at` is read from the clock before the write that stores
it. `order` keeps, per node, the total order of its stamps as the set of pairs
the first of which is not later; the stamp `completeTask` has taken and not yet
written is in it too, marked as being in memory (`"mem"`, the others `"row"`).
The stamps of new rows and of rows set to running may be as old as the request
or the task: they are placed anywhere after the row's earlier stamp
(`TakenBefore`); the one of `completeTask` is the newest when it is taken
(`Newest`) and keeps its place when it is written (`Written`). Stamps of
different tasks are assumed to differ.

`Crash` may come between any two steps. Memory is reset to what `main` builds,
requests in progress end without an answer, tables, outbox, SMD and BMCs stay.
A patch SMD answers with an error may have been applied.

Abstractions. Requests that are refused (scope, body, operation, no target, too
many, an unknown or unresolvable group) change nothing and are not steps. An
operation is the power state it leads to; the inferred and the verified power
state of a task are the same. An answer keeps the counters and the completion
time of a row. A shutdown is `Crash` here; what workers still do between the
signal and the exit is `Shutdown` in `TransitionRunner`.

### WaitTransition

`BeginWait`, `Poll` and `WaitFails` on top of every step of the engine: a
client polls the row until `IsTransitionTerminalState`.

### MappingSync

The program counter `loop` of `Run`/`SyncOnce`, what a cycle has read so far,
the tags, the ready flag and the ticker (`fast`), the tables, and the `Trigger`
calls. SMD's content and the operators who bind credentials are external and
change between any two calls. A tag is represented by the list it was computed
from: equal tags mean equal lists (the code hashes the list). SMD may or may not
answer 304 to a matching tag. Interface lists hold the usable address of a
component, as `endpointFromIPAddrs` would choose it.

### ToolServer

The configuration the process was started with, the state of the process, and
per call the program counter of its handler, what was sent and over which
channel, the row it has looked up, the result of the execution, the audit
records and the writes it has made elsewhere. `rows` and `settled` belong to
other services.

| Code | Actions |
|---|---|
| `config.Load`, `ResolveToken`, `NewGuard` | `Init` |
| `parseCallToolRequest`, `handleRPCRequest` | `ReceiveCall` |
| `handleCallToolSSE`: the accepted event | `WriteAccepted` |
| `decodeArgsStrict` and required arguments | `DecodeArgsFails` |
| upsert and delete of boot parameters and payloads | `BssBootParamsUpsert`, `BssBootParamsDelete`, `CloudInitPayloadsUpsert`, `CloudInitPayloadsDelete`, each a lookup (`LoadExisting`) and a write (`WriteRow`) |
| `smd.groups.members` add and remove | `GroupsMembersAdd`, `GroupsMembersRemove`, `GetGroup` |
| `power.transitions.*` | `TransitionsCreate`, `TransitionsAbort`, `TransitionsWait`, `PollFails`, `WaitTimeout` |
| `discovery.*` | `TargetsCreate`, `TargetsDelete` |
| reads | `BootParamsGet`, `ClusterHealthSummary` |
| the answer over HTTP or on the stream | `Answer` |
| the deferred `Complete` | `Record` |
| `writeRPC` | `WriteRPC` |
| `main` | `Shutdown`, `Stopped`, `ShutdownTimeout`, `StdioEnd` |

A call to another service succeeds, is refused, or takes effect although the
caller gets an error; with its context cancelled it is not sent.

The audit record is a step of its own. An HTTP handler has answered when its
deferred `Complete` runs; the stdio loop writes its answer after
`handleRPCRequest`, and with it `Complete`, has returned. A refused call, and a
stream that does not take its accepted event, goes to the record too (`Fail`).
A line on stdin that is no JSON-RPC 2.0 request is answered before any record is
deferred (`Unframed`): that return has no record, in the code and in the model.

Arguments. `RequireConfirmation` looks for the key `operation` in the map of
arguments; the tool decodes the same map into a struct, for which `encoding/json`
takes a key in any capitalisation. A request therefore has two operations, one
under the key as the check spells it (`operation`) and one under another
capitalisation (`folded`). The check reads the first; `DecodedOperation` is what
the tool executes, the first if there is one, since it is the last of the sorted
keys.

Abstractions. Several tools that make the same calls are one: `bootparams.get`
is every read that makes one call, `targets.create` the discovery writes that
need no confirmation, `targets.delete` the ones that do. A request is a record
of what the checks and the decoder look at (tool, token, body, arguments,
confirmation, the two operations); over HTTP an unframed body is a bad one. A
session token that is no JWT has every scope, as in `deriveSessionPrincipal`; of
a JWT the model keeps the sets of scopes in its three scope claims and its roles
(`Claims`), and reads them in the order of `parseJWTPrincipal`. A component has
at most one cloud-init payload and possibly several rows of boot parameters. A
wait that finds its transition still running changes nothing, so only its last
poll is a step.

### ResourceStore

The table, the number of the next write, per client the write its handler has
prepared and the resource it got last, and the history variable `lost`.
`GetResource` is GET; `UpdateFetch` and `PatchFetch` are PUT and PATCH up to
the update statement, `UpdateResource` is the statement and the answer (which
may be lost), `UpdateFails` every other end; `DeleteResource` is DELETE, one
statement.

Abstractions. Two updates are assumed to get different time stamps; the stamp
is the number of the update. There is no action for POST: the handler passes an
empty id to an insert that names the id column, which is a UUID, so the
statement fails and changes nothing. Rows are in the table from the start.
Requests refused before they reach the database change nothing and are left
out.

### MC modules

`MCTransitionRunner`, `MCPowerAPI`, `MCWaitTransition`, `MCMappingSync`,
`MCToolServer` and `MCResourceStore` define the mappings, target sets, SMD contents, environments,
requests and symmetries the configurations use, and nothing else.

## 4. Runs

Passing runs:

| Run | Instance | Shows |
|---|---|---|
| `runner_faults` | 1 transition of any subset of 2 nodes, one BMC or one node unmapped, 2 workers, 2 attempts, queue of 1, 1 store fault, disconnect, abort, shutdown, dry runs | counters, rows, outbox and actions agree at all times (`ProgressCountsOutcomes`, `SettledRowIsVerdict`, `OutboxFollowsRows`, `ActionsBounded`, `SuccessMeansPatched`, `OutstandingTaskIsLive`); a final row is rewritten only by an abort; no action follows an abort; no slot leaks and no task is in two places (`BMCLimit`, `TaskInOnePlace`); the engine implements the lifecycle (`ImplementsLifecycle`) |
| `api` | 2 transitions on one node, one of them over a group of two nodes; 2 workers, 1 slot, queue of 1, disconnects, a GET and a DELETE of the group's transition at any time; or 1 transition and a death of the process | answers are consistent (`AnswerIsConsistent`), power status agrees with SMD (`StatusMatchesSMD`), an accepted abort stops the transition even across a crash (`AcceptedAbortStops`), `BMCLimit`, `TaskInOnePlace` |
| `runner_live` | 1 transition of 2 nodes (one may be unmapped), 2 workers, 1 slot, queue of 1, an abort, a shutdown, a waiting client | every accepted transition settles, a wait ends and its answer stays true unless there was an abort, a shutdown ends all workers |
| `sync` | 2 nodes, 2 BMCs, 2x2 contents of SMD, one with more components than a page holds, 2 changes, 1 fault (which may be a lost acknowledgement), 1 crash, shutdown, 1 forced sync; fairness | foreign key, bound credentials, mapped nodes stay mapped, the tags describe the tables, a successful forced sync is fresh; tables converge, the loop stops |
| `tools` | every configuration (transport, mode, write switch, three token sources; tokens: none, opaque, a JWT with the role admin, one that lists admin only in a claim that is not read) and 1 call of any tool, good or with one thing wrong; in a read-write service with an opaque token also an upsert or delete of a payload next to an upsert of the same component's; 2 rows, 2 members; fairness | no write without permission (`OnlyAllowedEffects`), one record per call but for an unframed line (`AuditedOnce`), a record of success is true (`SuccessRecordIsTrue`), both transports accept the same calls (`TransportsAgree`), every call ends (`CallEnds`) |
| `resource` | 2 rows, 2 clients, 2 names and a blank one, 2 descriptions, 2 updates | a matching tag means the client has the current content; a late write does not revive a deleted row |

Why the bounds are enough to be interesting: two workers and two nodes of one
transition give every order of the three late writes; a queue of one place makes
the second send block; two transitions on one node behind one slot give every
order of their stamps, patches and writes; two attempts
exercise the retry and its exhaustion; one store fault at any transaction
covers each single failure; two changes of SMD let it go away and come back,
during a cycle or between two; two calls of the tool server on one row give every
order of lookup and write, and two members a removal that stops half-way; the
checks of one call read nothing that another call changes, so the second one is
left out (`CallsMeet`) where the two do not share rows; two
updates let a client's copy be overwritten between its comparison and its
statement, and a second row lets names clash.

Symmetry of the workers is used in the engine's runs without liveness, of the
power states in `api`, and symmetry of clients and of names in `resource`; they are interchangeable.

In the engine's runs a state in which a call or a worker has work left and
nobody can move is a deadlock and reported: `Wait` stutters only when nothing is
under way. The sync may stop for good (its loop ends), so deadlock is not
checked there; `LoopStops` and `TablesConverge` say what must still happen. In
`api` everything comes to rest once the bounded requests are done. The tool
server may exit, and the resource table may become empty, so deadlock is
not checked for them either; `CallEnds` says what must still happen.

Fairness. `CallStep`, `WorkerStep` and `PersistAbort` are weakly fair: they are
goroutines that the scheduler runs, and all their blocking calls have deadlines
or contexts. Requests, aborts, disconnects, timeouts and shutdowns are not
fair. In the sync, the loop is weakly fair; leaving it is strongly fair because
Go's `select` picks a ready case at random, so a cancelled context is not passed
over for ever. In the tool server the steps of a handler are weakly fair,
including the deadline of a wait, which `context.WithTimeout` guarantees; that a
poll fails, a client leaves, a transition settles or a signal arrives is not
counted on.

`MaxEvents` bounds the requests and crashes of `api` together: two
transitions, or one and a crash before or after it. A second transition after a
crash would only meet rows nobody works on any more.

Assumptions of single properties are part of them: `SettledRowIsVerdict` speaks
of a healthy database and process, and of an aborted transition it says only the
state; what the tags and a forced sync say of the tables excludes the time after
a commit whose acknowledgement was lost (`sync_ack` shows why); bound
credentials are kept if they are bound between cycles (`sync_bind` shows why);
`StatusMatchesSMD` needs one slot per BMC, neither crash nor database failure,
since `completeTask` patches SMD before it writes the task, and of a node that
all requests found it behind the same BMC (`OneBMC`: a mapping sync between two
requests may move it, and then two slots serve it);
`AcceptedAbortStops` excludes a DELETE that came too early (`abort_early` shows
why); `EveryTransitionSettles` is checked without database faults and client
disconnects, after which the code leaves a transition running for ever (a
dropped task keeps `remaining` above zero).

## 5. Proofs

All theorems hold for every value of the constants that satisfies the
assumptions named in the modules (`ConstantsAssumption`,
`SyncConstantsAssumption`, ...): any number of transitions, nodes, BMCs, workers,
attempts, faults, callers, calls, clients and rows, any topology, any
configuration. The assumptions say what the constants are (a request is a record
with such fields, a list of SMD maps components to BMCs, an empty tag is no
list), and that bounds and capacities are natural numbers, positive where the
configuration of the service insists on it. TLC evaluates them in every run.

Every proof has the same shape: an inductive invariant, a lemma that each action
preserves it, a theorem that draws the property from it. The invariants were
checked by TLC on the instances of the runs before they were proved.

### The transition engine

The modules build on each other in this order.

`TransitionRunnerProofs`: `TypeCorrect`, `Spec => []TypeOK`. `TypeOK` alone is
not inductive: a worker that is busy must have a task, and one that is about to
write a terminal row must have an outcome. `TypeInv` adds that shape.

In the same module, `PerBMCLimitHolds`, `Spec => []BMCLimit`. The limiter is a
number, the claim is about a set of workers. The invariant `SlotInv` says that
holders are busy and behind a BMC (`SlotShape`), that a task comes from a
request that is fixed from then on, so that the BMC of a holder cannot change
(`TasksBegun`), and that `limiter[b]` is the number of holders of `b` and never
exceeds `PerBMC` (`SlotCount`). Acquiring adds one element to one set and one
to its counter, retiring removes both.

`TaskFlowProofs`: `TasksAreInOnePlace`, `OutstandingTasksAreLive`,
`ProgressIsExact`. The three properties need each other: the last outcome
deletes the progress entry; that no task is left then follows from the count;
the count is right because every outcome is reported once; and that follows
from a task being in one place. `FlowInv` is their conjunction with what a call
has done before it registers its entry. Cardinalities enter through lemmas on
one added or removed node.

`TransitionRowProofs`: `OnlyAbortRewrites` and `EngineImplementsLifecycle`. The
engine writes a row long after it took the snapshot it writes, so `RowInv` is
about snapshots: what a worker or an abort is about to write is exact if it is
final, modest (counters not above the outcomes) otherwise, and only one worker
ever holds a final one. The refinement is shown step by step: `StepKinds` sorts
the steps of the engine into the ones that touch what a client can see and the
rest; each of the former is a step of the lifecycle, the rest are stutters.

`TransitionOutcomeProofs`: `ActionsAreBounded`, `SuccessIsPatched`,
`AbortStopsActions`, `OutboxIsTrue`, `SettledRowShowsVerdict`, and
`WaitAnswerIsFinal` of `WaitSpec`. `EffectInv` relates the actions, the patch
and the row of one task to the attempts and the outcome of the worker that has
it; nobody else touches them because of `FlowInv`. That an abort stops the
actions follows from `AbortsCancel`: a marked transition that still has its entry
has its context cancelled, and without an entry nothing is sent. `EndInv` says that once the
entry is gone and the final write done the row shows the verdict, as long as no
write has failed and the process lives. `WaitInv` carries both through the
client's steps.

The proofs showed that `Verdict`, which says what the outcomes of a transition
amount to, had overlapping `CASE` arms: TLC takes the first that applies, the
semantics allow any. Its arms are disjoint now. The same was true of `WriteRow`
in `ToolServer`.

### The HTTP API and the process around it

`PowerAPIProofs` is about `APISpec`, whose steps are requests, the engine's
steps and deaths of the process. Besides `ConstantsAssumption` it uses
`APIConstants`, of which the proofs need that a request resolves to one of the
target sets the engine knows.

`CoreInv` collects the engine's invariants (`TypeInv`, `FlowInv`, `RowInv`,
`EffectInv`, `SlotInv`, `AbortsCancel`). Every step but a death is a step of the
engine or leaves it alone (`APIStepIsStep`), so the engine's lemmas apply; one
lemma per invariant shows that a death keeps it. `EndInv` is not among them: an
interrupted transition never gets its final row. `SafeAcrossRestarts`
(`BMCLimit`, `TaskInOnePlace`) follows.

`AcceptedDeleteStops`, `APISpec => AcceptedAbortStops`: a transition whose DELETE
was accepted has begun, and as long as it has its entry it is marked
(`AcceptedInv`); a death removes the entry and nothing brings it back.

`AnswersAreConsistent`, `APISpec => []AnswerIsConsistent`: the row a GET has read
may be arbitrarily old when it reads the tasks, so `AnswerInv` says of the
reader's copy what it says of the rows: its counters do not exceed the outcomes,
and if it says completed they are exact and the transition is over (`Over`),
which it stays. Outcomes only grow (`OutcomesGrow`), and with no failed write
the task rows carry them (`TasksCarryOutcomes`).

`PowerStatusMatchesSMD`, `APISpec => []StatusMatchesSMD`. First the operations on
orders: where each puts a stamp and that the result is a total order
(`PlacedPairs` to `WrittenPairs`). `OrderTrue` is the invariant of one node, over
its order, the state SMD has, and the sets of transitions whose task on the node
succeeded, is at its end, is at its end with the slot, is verified and yet to be
written. It says that a task that succeeded either wanted the state SMD has or
is not the newest; that exactly the tasks at their end have a stamp in memory;
that a worker which holds the slot at its end took its stamp after every task
that succeeded so far; and that a stamp in memory is later than the row it will
replace. A patch then makes no newest task wrong, because the patching task's
own stamp is already newer; a write of a verified task finds SMD as it left it,
because there is one slot (`OneHolder`); and a row that is replaced by its later
stamp leaves no older task the newest. The lemmas `NewestTrue`, `TakenTrue`,
`WrittenTrue` and `ToldTrue` say this of the four kinds of change, `StampKinds`
that a worker makes no other.

The order used to be a sequence; as a relation it can be reasoned about without
induction over positions, and the `api` run has the same states.

### The mapping sync

`MappingSyncProofs`: `SyncTypeCorrect`, `TagsNeverLie`, `ForeignKeyHolds`,
`CredentialsAreKept`, `ForcedSyncsAreFresh`, `MappedNodesAreKept`. `SyncInv`
adds to the properties what a cycle has read when it gets to a stage
(`CycleStages`), above all that the copy of the endpoint table it computes with
is still the table, but for credentials; that whatever the cycle holds for its
caller, tag included, was SMD's content after the request (`HeldIsFresh`); and
that credentials are bound only to rows that exist (`BoundRows`). Two theorems
have a condition. `CredentialsAreKept` needs credentials to be bound between
cycles, as `sync_bind` shows. `MappedNodesAreKept` needs that or a default
credential: without a default, a credential bound between the read of the table
and the transaction is overwritten by none, and the node becomes unmapped. The
`sync` run satisfies both conditions.

### The tool server

`ToolServerProofs`: `ToolTypeCorrect`, `EffectsAreAllowed`,
`CallsAreAuditedOnce`, `SuccessRecordsAreTrue`, `TransportsCheckAlike`. The
properties speak of writes and records, which come last. `CallInv` says what a
call has passed and done before: the checks of its transport once it is admitted
(a refused call on its way to its record has passed none and written nothing),
which writes are still to come at each point of the handler, that a call has a
result exactly when it is about to be answered or recorded and no record before,
and that this result is true. `EffectsAreAllowed` then unfolds the checks of both
transports. It says of `transitions.create` what the check compares, the
argument `operation`; what the tool executes may differ, as `tools_confirm`
shows. `CallsAreAuditedOnce` has the unframed line as its one
exception, and shows that such a call has written nothing.

### The service template

`ResourceStoreProofs`: `ResourceTypeCorrect`, `TagsAreSound` and
`DeletedRowsStayAway`. `TagIdentifiesContent` is not inductive: an update whose
stamp some client already holds in a tag would break it. `TagInv` adds
`StampsPast`, which says that every stamp in the table and in a client's tag is
below the next one; an update then takes a stamp nobody holds.

### Only model-checked

* The liveness properties (`EveryTransitionSettles`, `WaitEnds`, `ShutdownEndsWorkers`,
  `TablesConverge`, `LoopStops`, `CallEnds`): liveness under fairness is out of
  the reach of the installed prover.
* What the violation runs show: a counterexample needs no proof.

## 6. What the checks found

Six runs are expected to fail. Each states something the repository says of
itself, quoted in `PROJECT.json`:

* `abort_counts`: the abort's write can land after the final one and leave a
  canceled row without its counts and completion time.
* `abort_early`: a DELETE between the commit of a transition's row and the
  registration of its progress entry is answered 202 and has no effect.
* `sync_ack`: after a commit whose acknowledgement is lost, SMD going back to
  its earlier content leaves the tables stale.
* `sync_bind`: a credential bound while a sync runs is lost.
* `resource_put`: a PUT whose If-Match was accepted overwrites a change made
  between the comparison and the update statement.
* `tools_confirm`: the confirmation check and the decoder of
  `power.transitions.create` do not match keys alike, so the check may not see
  the operation that is executed, and a destructive one needs no confirmation.

Two more disagreements are written into the properties instead of being shown by
runs of their own. `AuditedOnce` excepts a tool call on stdin that is no JSON-RPC
2.0 request: `handleRPCRequest` (stdio.go:174-180) and, for a line that does not
decode, `RunStdio` refuse it without the audit record that ADR-018 promises of
every tool call. `WaitEnds` excepts dry runs: `planned` is not in the client's
list of terminal states (client.go:252), so a wait for one ends only with its
context or an error.

## 7. Not modelled

The choice and the cache of a BMC's system paths (`SystemPathResolver`) is not
modelled: the engine's model does not tell the systems of a BMC apart. The read
that completes the answer of a POST, the paged list of transitions and
the scope checks in front of the handlers of `chamicore-power` change nothing.
Power status reports, for a task that has not succeeded, the power state its
operation leads to, where ADR-017 speaks of the current power state; no property
is stated about it. The lists of the service template read in two statements and write nothing; the
redaction of arguments in audit records and the wording of results are data.
Calls of the tool server that are in progress when its process exits leave no
audit record, over HTTP possibly after their answer was sent: `AuditedOnce`
speaks of calls that ended. The limits on the size of a request, which differ
between HTTP and stdin, are left out. What the sync promises
it promises of one page of SMD's lists (10,000 entries). Configuration parsing, telemetry, request
encoding and list queries keep no state. The outbox relay is a library outside
the repository: the models end where events are in the outbox. The runner does
not persist its progress, so there is no recovery of transitions to model after a
restart: `PowerAPI` shows what is left behind, and the sync's restart is an
action. Scripts, tests, migrations and
deployment files are not part of the running system.
