# Specifications of the framework's services and browser applications

This directory holds TLA+ models of the parts of the repository whose
correctness depends on the order in which threads, tasks, callbacks, user
actions and answers of the database or the server happen. TLC checks each model on small instances, and TLAPS
proves the main safety properties for every instance. The code under `src/` is
the reference: `PROJECT.json` maps every definition to the lines it stands for.

## 1. Inventory of the system

The repository has two halves. One is a set of browser applications in
TypeScript: `DashboardApp`, which shows pages described by configurations that
it loads from a server, and `InterfaceBuilder`, the library that renders and
edits those pages; `GetGotMobile` and `GetGotWeb` are independent of them. The
other is a collection of C# services around databases of stored functions, with
several generations of a common library (`Utility`, earlier
`EAC/Framework.Core`, later `Framework.Core`) and many batch jobs. A host
(`GenericDataService`, `GenericWindowsService`, ...) loads a service library
and calls its `Config`, `OnStart`, `OnStop` and `ProcessRequest`. State lives
in the database and in the memory of the service. The components that have
concurrent state of their own:

| component | state | operations | interacts with | what is hard | what makes it correct |
|---|---|---|---|---|---|
| `DashboardApp`: `state/global-config` | the list of all configs, or pending, or a failure | load, create, update, delete; one local change per accepted write | the server, all pages | nothing orders the calls and their answers; a list of the whole table kept up to date by hand | the list agrees with the table |
| `DashboardApp`: session, `state/apps`, `ThemeLoader`, `SyncConfigButton` | the profile, the list of app configs | log in, log out, load, sync | the server, the globalConfig slice, the page | two loads with answers in any order, twice over when syncs overlap | a page that stays is not mounted half anew |
| `DashboardApp`: Execute component (`ExecuteInterfaceComponent`, `RemoteQuery`, `QueryForm`) | the submit flag, one interval number, a loading flag in the page's model | mount, submit, interval, results, unmount | the list of configs, the page's model, the server | intervals and answers outlive the render that started them | no interval without an owner, the flag goes off |
| `DashboardApp`: Query component (`_shared/query/Query.tsx`) | load status, data, a run count | mount, update, load, retry | the list of configs, the report cache | answers of a former query reset the status of the present one; its config may come after it was mounted | no result is overlooked |
| `DashboardApp`: reports (`ReportBody.tsx`, `use-rematch.ts`) and the report cache (`state/queries/reports.ts`) | results by query and parameters, a flag for all executions, what each report last rendered | mount, effects, submit, answers | the store, Query components, the server | effects run after the render they decide on, and only they subscribe | one automatic execution at a time, no report idle without its result |
| `DashboardApp`: `state/iam` | profile and token | resume a session, sign in, log out | sign-in providers, the server | an answer after logout | no session after logout |
| `InterfaceBuilder`: schema editor (`UserInterface`, `DragAndDrop`, `SettingsModal`) | the schema tree, a placeholder per list, the dragged item, the item being edited | drag, hover, drop, add, edit, delete | the registry of components | places are paths and indexes of an earlier tree; one drop changes two lists | a drop moves one component and nothing else; settings land where they were opened |
| `InterfaceBuilder`: `ComponentRegistry` | loaded modules | look up | the bundler | a module comes late | the module's |
| `InterfaceBuilder`: `withEvents`, plugins | a global list of listeners | raise, listen | components | listeners of components that are gone | the listener's |
| `GetGotMobile`: `loadify` | loading flags per call | call | context providers | a rejected promise leaves its flag on (`loadify.ts:68`) | the flag goes off |
| `QueueProcessorLib`: `QueueRunner`, `QueueItemProducer`, `QueueItemConsumer` | a bounded `BlockingCollection`, the in-flight dictionary, one cancellation token, the producer's batch | `Start`, `Stop`; producer loop, `SaveItemsForRestart`; consumer loop, `Process` | database functions through delegates; the service | four kinds of threads, blocking `Add` and `Take`, cancellation anywhere, delegates that throw | items are neither lost nor doubled, the throttle, what a stop may lose, progress |
| `QueueProcessorLib`: `QueueProcessor` | the list of runners; in the database three queues, the retry queue, the discriminators in retry | `OnStart`, `OnStop`, `ProcessItem`, the callbacks for listing, retrying, restarting | its runners, the LBM evaluator, the database | `OnStop` while `OnStart` runs, process exits, retry numbers that live in memory | an item handled is finished, attempts are bounded, discriminators are released |
| `EdwRollupLib`: `DataService`, `MaintenanceJob` | two counters in the Quartz scheduler's context, `queueId` in each job's data | `InitScheduler`, `/reset`, `/pause`, `/resume`, `/trigger`, `Execute`, `AcquireExclusive`, `ReleaseExclusive` | Quartz, rollup jobs, the database | a hand-made ticket lock with polling, failures while waiting, resets | exclusion, nobody is passed, the queue moves, shutdown ends |
| `EdwRollupLib`: `RollupJob`, `WithEventsMaker` | `_complete`, `_completeRollupCount`, the messages in five dataflow blocks | `Execute`, the five blocks, the start, end and error events | TPL Dataflow, the database, the exclusive queue | a join over parallel messages, a failure of one of them | cleanup last and once, the job ends |
| `EdwRollupLib`: `ClickhouseImport` | none in memory | `Execute` | SSH, ClickHouse | a long sequence of remote commands | the server's |
| `Utility/EDW`: `LoadBalancedWriter`, `ErrorSilo...`, `EdwSilo...` | a concurrent dictionary of endpoints with (alive, delay) | `Write`, `RemoveEndpoint`, `AuditEndpoint`, polling | endpoints (SQL, HTTP) | check-then-set by writes and audits, delays that escalate | an endpoint set aside comes back, writes end |
| `EAC/RedisScheduler` | tasks and claims in Redis, a Lua dispatch script | produce, dispatch, consume | Redis between processes | delivery more than once, lost consumers | a task runs once |
| `EAC/EACServiceLib`: `StickyQueues` | named queues, consumer threads, interrupts | enqueue, consume, `Interrupt` | HTTP requests | interrupts between two reads | an item goes to the queue's consumer |
| `EAC/Framework.Core/ProcessManagement` | stored processes and threads of scripts, continuation pointers | start, suspend, resume, kill | the database, the interpreter | a kill beside a running thread; `CreateThread` never adds to `Process.Threads`, so a kill of a process finds no threads | a killed process stops |
| `SchedulerServiceLib` | Quartz jobs loaded from the database | start, reload, trigger | Quartz | a reload while jobs run | Quartz's |
| `GenericDaemonLib`: `DaemonRunner` | a list of daemon tasks and one cancellation token | `OnStart`, `OnStop` | the evaluator | a stop while `OnStart` is still adding tasks | every task started is cancelled and waited for |
| `Utility`: `AppCache` | cached rows with keys and an expiry | get, set, `IsInCacheKeys` | the database | stale entries; `IsInCacheKeys` (line 71) rejects a key as soon as one part is *equal* | a lookup finds what was stored |
| `Utility`: `ProcessWrapper`, `UnixWrapper` | child processes and their pipes | run with a timeout | the operating system | a timeout beside output still being read | I/O |
| `Utility/LongRunningWorkflow` | rows in the database | wait, signal | the database | all waiting is in the database | the database's |
| `UnsubLib` and its jobs | files, manifests, a local cache | download, diff, publish, query | file servers, SQL | partial failure in a long sequence | files published are complete |
| `EdwServiceLib` | a stack of configuration frames per session | push, publish | the EDW writer | concurrent requests of one session | frames balance |
| `AwsKinesisConsumerDataLib` | the checkpoint of a shard | process records | a vendored Kinesis client | redelivery after a crash | the vendored protocol |

Not listed are parts without concurrent state: parsers and evaluators (`Entity`,
`Evaluatable`, the languages of `EAC/Framework.Core`), the data layer, HTTP,
crypto and configuration helpers, FTP and import/export jobs
(`SimpleImportExport`, ...), views without state of their own, the fork of
`react-awesome-query-builder`, `GetGotWeb`, generated clients, migrations,
backups (`FrameworkNewBakJan17-2023`, `_ARCHIVE`) and testers. `PROJECT.json`
lists every one with the reason it is not modelled.

## 2. Modules

| module | models |
|---|---|
| `ItemCustody` | abstract: what a queue runner promises about its items |
| `QueueRunner` | one runner: producer, bounded queue, consumer, tasks, `Start`, `Stop` |
| `QueueProcessor` | the service over four runners: queues, retries, discriminators, `OnStart`, `OnStop`, exits |
| `ExclusiveJobs` | the ticket lock of maintenance jobs, the check of rollup jobs, `/reset` |
| `RollupFlow` | one execution of a rollup job: five dataflow blocks and the join |
| `EndpointPool` | the load-balanced writer with its audits, for both selectors |
| `MoveInList` | the list arithmetic of the schema editor, as operators |
| `SchemaEditor` | the drag-and-drop editor of a page's schema, with its settings dialog |
| `ConfigStore` | the browser's copy of the table of configs, and the server's table |
| `ExecuteView` | one Execute component on a page, its intervals and executions |
| `Dashboard` | session and syncs, composed of `ConfigStore` and `ExecuteView` |
| `QueryView` | the cache of query results and the Query components that read it |
| `ReportView` | reports beside Query components: renders, effects, subscriptions (extends `QueryView`) |
| `*Proofs` | the inductive invariants and the theorems about each module |
| `MC*` | values for TLC |

How they relate: `QueueRunner` implements `ItemCustody` (the instance `Custody`
at its end gives the refinement mapping), and `QueueProcessor` describes its
runners with the steps that `ItemCustody` allows: list, process, settle, save,
and lose only while closing. `RollupFlow` begins where `CheckIds` of
`ExclusiveJobs` lets a job through, and `JobEnds` there is what
`ShutdownEnds` and `ExclusiveRuns` assume of the work of a job. `Dashboard` is a
composition: it extends `ConfigStore`, adds the slice of apps, and instantiates
`ExecuteView` with the page as `mounted` and the list as `found`; what the page
makes of each change of the stores is part of the action that changes them.
`ReportView` composes reports with the components of `QueryView`: every step of
`QueryView` that changes the store is one that reports may notice.

### QueueRunner

Each thread has a program counter (`producer`, `consumer`, `start`, `stop`,
`task[i]`) whose values name the statement it is about to execute; an action is
the code from one await, blocking call or shared access to the next. The
variables are the code's: `queue` the collection, `inFlight` the dictionary,
`batch` what `ItemGetter` has returned and the loop has not dispatched, `saving`
the ids `SaveItemsForRestart` has collected, `cancelled` the token. `Faults` says
which delegates may throw. An item stands for one delivery: the dictionary is
keyed by object reference. `Start` runs the consumer inline until its first
await, which is why `ConsumerYields` is an action. The `_started` flags are not
variables: they guard only a second `Start`, which `QueueRunner` never makes.

### QueueProcessor

`stored`, `retryRows` and `held` are the tables as the service uses them; the
stored functions are external. Per item the model keeps the runner that has it,
how far it is, and the retry number of the object in memory, which is what
`ListPending` gives it (-1 from a plain queue). `OnStop` enumerates the runners
while `OnStart` may add one. `Start` begins the producer and then the consumer, and a
`Stop` may cancel before either: the states of a runner tell these apart, and whether
the producer has ended by itself (`halted`) and its drain has thrown too (`broken`).
`Exit` ends the process, after `OnStop` or by a
crash, and starts it again. `_discriminatorsInRetry` is never filled in the
code, so the branch that diverts an item is dead in the service; `QueueRunner`
models it, since the runner itself supports it.

### ExclusiveJobs

`nextId` and `runningId` are the counters, `queueId` the ticket in a job's data.
`Execute` is split where the code takes or leaves the lock or polls. Quartz is
external: a job that does not allow concurrent execution fires at any time it is
not executing, counts as executing until `Execute` has returned, and
`Shutdown(true)` waits. One `/reset` is handled at a time. `faults` is chosen
once in the initial state and never changes: the runs explore several fault
scenarios, and properties that need a fault-free wait state that as a premise.

### RollupFlow

Messages of a block are counted for each report sequence, since a block handles
up to `Parallelism` of them at once and in any order. `MessageLost` is an event
or log call that throws around a delegate: the block is faulted, and `_complete`
is not touched. Also in this model `faults` is fixed in the initial state.

### EndpointPool

Every operation on the dictionary is one step, so the tests and assignments of
`RemoveEndpoint` and `AuditEndpoint` interleave. `kind` chooses between the two
writers built on the class: the one for errors has a selector that returns the
last endpoint it looked at when none is valid, gives an endpoint up after the
third walkaway value, and audits that can throw. An endpoint that is down may
give any answer but success. A selector's scan is one step, or throws.

### SchemaEditor

The schema is a function from paths to what is there: the component and the size of
its list. A list is named by its path of indexes, as in the code, and paths are
resolved again in the tree of the moment: `ListAt` and `SetAt` are lodash's `getOr`
and `set`, `Reach` is what `set` creates on a path that leads nowhere (`Nameless`
objects, and `Hole`s below an index beyond the end), `Graft` the list it puts there.
An action is a handler with the render that follows. The geometry of a hover is a
choice of zone: a half of a child, close to the top or the bottom, or elsewhere; a
hover may find the placeholder of an earlier one drawn or not (`over`), which the
count of the drawn children depends on.
`dialog = "loading"` is the time between the drop of a new component and the
arrival of its module, in which no dialog covers the page; `moved` remembers
that a drop has moved components since the item was dropped, until the item is saved
or discarded. Not every drop is preceded by a hover that shows a
placeholder: `DropIndex` is then the end of the list.

### ConfigStore

`table` is the server's, `status` and `copies` the slice. Calls are records with
where they are: sent, applied (read) or refused; an answer may be an `HttpError`
at any time, after which the server may still apply the call (`heard`). A content
is the number of the write that made it. `disputed` is history: the rows that
two overlapping writes, a write beside a load, a lost answer or a throwing event
handler may have left wrong, cleared when a load that nothing disturbed arrives.

### ExecuteView and Dashboard

A step is one handler with the renders and effects it causes: `Follows` says what
mounting and unmounting do, for every change of the page or the list. Intervals
keep the query they were started with. `loading` belongs to the page's model and
outlives the component. `disturbed` is history: a config was deleted, a call
refused, or the data source bound anew. `BoundAssumption`: the source is chosen
in the settings from the configs there are; a bound source that has never
existed shows an empty component.

### QueryView and ReportView

The keys of the cache are `Keys`: a query with its parameters. A component may also
be bound to one of `Invalid`, queries whose config cannot be decoded. `inFlight` counts
executions by who asked and for which key; `Answer` of a component comes from any
of its executions, also of a query it was bound to before. A status is followed by
what `componentDidUpdate` does with it in the same step: `reloads` counts the
timers it starts. `Faults` says whether an execution may be refused (the promise
resolves without a result) or rejected (format HTTPRequest). `skipped` and
`rejected` are history.

In `ReportView` a render and its effects are two steps. `shown` is what a report
rendered, `listening` what its subscription compares with, and `due` holds the
reports whose effects have not run; `ran` are the dependencies at the last run of
the executing effect. `StoreChanges` says when the store may change while effects
are due: React runs them before it renders, and whatever changes the store
renders first, except for components mounted in the same commit. `Automatic` are the
reports whose effect executes without a submit: `executeImmediately` is not off, and
they need no parameter of the form (or have no form).

## 3. Runs

| run | instance | shows |
|---|---|---|
| `runner_stop` | 5 items (1 diverted), batch 2, queue 1, 1 in flight, dispatch, restart and retry calls may throw | `NothingVanishes`, `NothingTwice`, `InFlightBounded`, `StopLosesAtMost` over every interleaving of `Start` and `Stop` with the threads; the runner implements `ItemCustody` (`KeepsCustody`); `StopReturns` although tasks need not end |
| `runner_settles` | 4 items, queue 2, 2 in flight, listing may throw, no stop, tasks end | `QueuedItemSettles`, `EveryItemSettles` |
| `processor_exits` | 2 items of one discriminator, 3 of the 4 runners, 1 retry, all faults, 1 exit | `AttemptsBounded`, `HandledOnce`, `OnePlace`, `QueuedSurvivesStop` |
| `processor_up` | 3 items, 2 discriminators, 2 retries, release may throw, no exit | `HeldIsRetried`, `EveryItemEnds` |
| `processor_restart` | 2 items, 1 exit, nothing throws | violation: an item restarted during its retries is handled without the release |
| `exclusive_queue` | 2 exclusive jobs and 1 other, 2 fires each, 1 reset, 3 fault scenarios | `Exclusion`, `NoneIsPassed`, `ExclusiveRuns`, `ShutdownEnds` |
| `exclusive_overtakes` | 3 exclusive jobs, a wait may throw | violation: two exclusive jobs at work together |
| `rollup_job` | plans of one sequence with 0..3 rollups or two with 0..2, all fault scenarios | `OneCleanup`, `JobEnds` |
| `pool_writes` | 1 or 2 endpoints, 2 writes, 2 audits, 1 outage, both writers | `SetAsideIsAudited`, `GivenUpAfterAudits`, `WriteEnds`, `Recovers` |
| `editor` | two containers, one limited to one component and empty, one component, one new one | a drop moves one component and nothing else (`DropMovesOne`), settings saved in place (`SavesInPlace`) |
| `page` | 2 rows, 1 present, 1 write, 2 syncs, 2 executions and 2 intervals at once, all faults | `ListAgrees` over every order of the calls and answers of the slice; `IntervalsOwned`, `LoadingEnds` over sessions, overlapping syncs and rebinds |
| `reports` | 1 automatic report, 1 Query component, 2 queries and 1 invalid one, 1 rebind, 1 submit, 2 runs, 2 executions at once, all faults | `ResultShown`, `OneAutomatic`, `MountExecutes` over every order of renders, effects and answers |

Every property has a mutant in `PROJECT.json`: a change of one definition, as a
plausible bug would make it, under which the same run finds the property
violated. The mutated operators stand before the definition they replace.

**Bounds.** Five items, one diverted, with a batch of two, a queue of one and one
in flight let the producer block in `Add`, the consumer wait at the throttle or
block in `Take`, and leave a partial batch behind, all at once; a batch of two is
the smallest that can be interrupted in the middle. `runner_stop` lets every call
throw but the listing one, whose exception takes the same path as a dispatch that
throws; `runner_settles` has it, with larger limits.
`processor_exits` leaves the scheduled queue off, which `OnStart` then skips: it is
listed as the immediate one is, and items of two runners meet in the restart and the
retry queue. One retry and one exit suffice for an item to be saved in each phase
of its life; two retries (`processor_up`) separate "first", "middle" and "last".
`AttemptsCap` counts one past the limit that is checked. Two
exclusive jobs fired twice give every order of holder, waiter and newcomer, and a
reset between; the overtaking needs a third. Three rollups against two sequences
of two contain every relation between the counter of the job and the size of a
sequence. Two writes and two audits make every pair of the racing steps meet;
`answered` stops counting at two, the number the property speaks of. The slots
for audits bound how many run at once: with two writes of one call each a
third audit of one endpoint would need a third walkaway from a live endpoint.
In the editor two containers give every relation of two lists
that the code tells apart (same list, root, ancestor, descendant, sibling, its
own child), and one new component one pending addition. On the page two
loads are the smallest overlap, and a write beside them meets each of their steps;
two writes of one row are left to the proof of `ListAgrees`. One query suffices,
since queries do not interact, and one row that can be created; two intervals at
once are one that is left and one that is not.
A limit of two runs instead of fifty leaves one for an answer of the former query
and one for the present; with two executions at once they come in either order.
The list of configs may load and become pending again at any time.
One report suffices, since it meets others only through the flag and the results,
which the Query component and the report's own form change at every point.
Deadlock is not checked: every model may stop (stopped runner, no more writes).
Symmetry over items or rows is used only where a run has invariants alone.

**Fairness.** `QueueRunner`: threads are scheduled, and the calls of the database
and the delays return; that a task ends is assumed only in `FairSpec`, so
`StopReturns` does not need it. `QueueProcessor`: every call returns, and each
row of a queue is listed eventually, which is what the listing functions of a
service that keeps polling give. `ExclusiveJobs`: polling goes on and the work of
a job ends; Quartz need not fire anything. `RollupFlow`: every stored function
has a timeout and a rollup is in the end answered other than by a deadlock.
`EndpointPool`: threads run, delays end, endpoints answer (their calls have a
timeout); nothing makes an endpoint come back. All of it is weak fairness.
`QueryView` and `ReportView`: effects run, timers fire, and calls return; users need
not mount or submit anything. That a browser's call returns is an assumption about the
server and the network, not something the client sees to: `remote-data-client.ts` passes
`timeout: none` with every call, and axios (`http.ts:73`) then waits without a limit.
`MountExecutes` rests on it. `SchemaEditor`, `ConfigStore` and `Dashboard` state none:
users need not act, and a browser's call may stay unanswered.

## 4. What the models showed

- `QueueProcessor.cs:198`: only ids go to the restart queue, so an item saved in
  its retries comes back with retry number -1: when it succeeds its discriminator
  is not released (`processor_restart`).
- `MaintenanceJob.cs:187`: a job whose wait throws releases its own ticket out of
  turn, so that the next in line joins the job at work (`exclusive_overtakes`).

Observations without a run of their own, visible in the models:

- `QueueItemProducer.cs:82,97`: the batch handed to `SaveItemsForRestart` is
  always null, so the rows of the batch not yet dispatched are in no queue after
  a stop. `StopLosesAtMost` bounds the damage.
- `RollupJob.cs:228`: the counter of the whole job is compared with the number of
  rollups of one report sequence: with two sequences cleanup can come early,
  twice or never. With one sequence the join is right, which `OneCleanup` says.
- `PersistedSettingsModal.tsx:74`: a component dropped from the menu is added at
  the path of its drop; when the user moves containers before its module has
  loaded, it may land in another container or, through `set` on a path that leads
  nowhere, in a node without a component. `SavesInPlace` names
  this as its exception (`moved`).
- `globalConfigEvents.ts:42-45`: a parent whose config is not JSON makes the event
  handler throw between the server's change and the local one.
- `RemoteQuery.tsx:87-95`: an answer of status "error" leaves the loading flag on
  until an execution succeeds. `LoadingEnds` names it as its exception (`erred`).
- `ExecuteInterfaceComponent.tsx:151`: the interval keeps its query and its period
  when the settings change, also to 0. One overwritten number is enough to leave
  an interval behind: `IntervalsOwned` holds only because every sync resets both
  slices, and fails after a delete, a refusal or a rebind, which `disturbed` names.
- `ReportBody.tsx:142`: the effect that executes a query "on page mount" depends
  on the flag for executions, and a refusal sets no error: a query that the server
  refuses is executed again as soon as the answer is in, and so on. `RunEffects`
  and `AnswerReport` have this loop; no property claims that it ends.
- `Query.tsx:98`: after a rejected execution the answer of another starts no timer,
  and its result is not displayed; a component that has used up its runs shows
  that it is loading for ever (`Query.tsx:451`); one mounted before its config was
  listed stays empty (`Query.tsx:272`). `ResultShown`
  names these as its exceptions.

`GivenUpAfterAudits` states what the code guarantees and no more: one would like
"two *failed* audits", but a write that reads the delay before a successful audit
resets it stores the successor of the old value, so an audit that succeeded can
count towards giving an endpoint up.

## 5. Proofs

All theorems are proved for every value of the constants that satisfies the
module's assumption.

- `QueueRunnerProofs`: `TypeCorrect`, `ItemsNeverVanish`, `ItemsNeverTwice`,
  `FlightLimit`, `StopLoss`, `ThrottleReleased`. The invariant `IInv` adds to the
  properties that the in-flight items are those whose task has begun (`TaskInv`),
  which program counters go with which containers, tokens and states of `Start` and
  `Stop` (`ControlInv`), that a consumer past the throttle leaves room for one more
  (`BoundInv`: the throttle is read before a blocking `Take`, and only the
  consumer adds; dispatched rows and the batch stay within `BatchSize`), and that a
  task is cancelled only by `Stop` and lost only to a failed retry call (`LossInv`).
  Neither the throttle nor the bound on losses is inductive without them.
  `ThrottleReleased`: until `Stop`, each item in flight has a task that will release
  it, except the one between `TryAdd` and `Task.Run` (`RunInv`).
  `RunnerKeepsCustody` is the refinement `KeepsCustody`: under `IInv` every
  step hands items out (`HandsOutCustody`), settles them, drops them or stutters,
  item by item; the bound on what `ItemCustody` may drop follows from `BoundInv`
  by counting (`LossBounded`).
- `QueueProcessorProofs`: `TypeCorrect`, `HandledIsFinal`, `ItemsInOnePlace`,
  `AttemptsLimited`, `QueuesAreSaved`, `HeldOnlyForRetries`. `PlaceInv` says that
  the stores, the retry queue, the runners and the lost items exclude each other
  for one item, and that `releasing` is reached by handled items only; `AttemptInv` that the retry
  number an item carries in memory, or on its row, bounds its evaluations so far,
  by one less before the evaluation than after it. The lemmas prove one kind of
  step each for one item. `HeldOnlyForRetries` assumes `Undisturbed` (no call but a
  release throws, the process is not stopped), as the property does: then no
  runner is halted or cancelled (`StaysUp`), and a retry lasts until its own
  discriminator is released (`RetryingStep`).
  `QueuesAreSaved` needs that only a runner at work has items queued (`QueueInv`),
  and that the runners `OnStop` has called `Stop` on stay the first of the list
  (`StopInv`): `OnStart` adds them in a fixed order, so that one added meanwhile
  comes behind them, and `WaitAll` lets `OnStop` return only when each has ended,
  which empties its queue.
- `ExclusiveJobsProofs`: `TypeCorrect`, `TicketsAreDistinct`,
  `ExclusiveRunsAlone`, `NobodyIsPassed`. `TicketInv` holds whatever throws: a
  stopped scheduler executes nothing, an execution that has not drawn has no
  ticket, and tickets are below the next one. When nothing throws between a draw
  and its turn, `ExclusionInv` also holds: the counter is at most every waiting
  ticket (`Queueing`), at most the next (`Counters`), equals the ticket of the one
  that is served (`Serving`), and an exclusive job at work is alone (`Alone`). As
  `faults` never changes, the implication `NoTicketLost => ExclusionInv` is
  inductive. `QueueNeverStuck` adds, if every ticket is passed on (`AllReleased`), that
  each ticket from the counter to the next is held by a job in the queue (`QueueMoves`).
- `RollupFlowProofs`: `TypeCorrect`, `CleanupIsLast`, `JobNeverIdle`. `JoinInv` counts: what the
  join has counted and what is still on its way are at most the rollups of the
  one sequence, and a message for cleanup means that the join has counted all.
  `FlowInv` says which messages exist before the plan is known and before a
  sequence was taken. `JobNeverIdle` needs the converse count: as long as no event
  throws, no message is lost (`NoneLost`), so that what the join has counted and what
  is on its way are all rollups of the sequence (`AllCounted`).
- `EndpointPoolProofs`: `TypeCorrect`, `SetAsideIsCovered`. `CallInv` says where a
  thread has an endpoint and a walkaway value; with it `SetAsideIsAudited` is
  inductive, since the steps that set an endpoint aside start an audit of it or
  are taken by one. `GivenUpCovered` proves `GivenUpAfterAudits` by counting:
  every audit that has answered and not yet acted (`Answering`), a delay that has
  advanced (`Counted`) and one that has advanced twice (`Twice`) are worth one
  answer each, and a thread may give up only on the second (`AnswersOK`).
- `SchemaEditorProofs`, of lists: `MoveKeepsOthers` (a move within a list),
  `AddKeepsOthers` (an addition, at the index or last), and `MoveIsTakeThenPut`: the
  drop within one list, which has code of its own, agrees with the removal and the
  addition of the drop into another. The lemmas describe slices and insertions
  position by position; two lists are equal when they have the same elements at the
  same positions.
- `SchemaEditorProofs`, of trees: what a list is after another was replaced
  (`ListAtGraft`, `ListAtDown`), and that a list replaced twice, or replaced inside an
  element of another, comes to one replacement (`GraftGraft`, `GraftDown`). From these
  `RearrangedIsPlaced`: the three cases of `handleDropHelper` (one list, the inner list
  first, the outer list first) give the same tree, the one without the
  component and with it where it was dropped. `ReachNew` says what `set` creates on a
  path that leads nowhere, which saving a new component can meet.
- `SchemaEditorProofs`, of the editor: `TypeCorrect`, `DropsMoveOne`, `SavesStay`, for
  schemas of any depth and menus of any size. The invariant has four parts. `TreeInv`: the
  schema is a tree, each component is in one place, and each nameless object that `set`
  has created has a component below it (`Carries`). With `Carries` the elements of a list
  without a `Hole` hold different components, so that there are at most as many as
  components, and no placeholder is beyond that. `Carries` is inductive because only lists
  below containers are rendered: nothing is taken from below a nameless object, and
  none is dragged or deleted itself. `DragInv`: the dragged component is still where
  the drag began, or is new to the schema. `DialogInv`: the item to add is new, and unless
  `moved` its path leads to the list it was dropped in; the item to edit is where it was.
  `PlaceInv`: the placeholders.
  `EditorAssumption` is what the page guarantees: the schema it starts with is a tree
  with each component in one place, menu positions are natural numbers, the objects
  that `set` creates are none of the components, and there are finitely many of those.
- `DashboardProofs`, of the store: `TypeCorrect`, `ListIsTable`. `ListAgrees`
  speaks of rows that no write is under way for; the invariant must speak of all of
  them: `ListFollows` says that the list is one local change behind the table for a
  row whose write was applied and not answered, `WritesApart` that two writes of one
  row dispute it and that stamps name writes, `CreatesFresh` that a created row is
  new to the table, and `LoadsFresh` that what was read for a load is still so but
  for the rows it counts as dirty.
- `DashboardProofs`, of the application: `AppKeepsSlice` (it implements
  `ConfigStore`: every step is a step of the slice or leaves it alone) and
  `NoIntervalLeft`. With the first, the invariant of the slice carries over to the
  application; the further part says that the query of an undisturbed page is in every list there is
  (`QueryStays`), and that no interval runs without the form and none but the one
  the component will clear (`Owned`). `DashboardTypeCorrect` adds the types of the
  page, and `FlagEnds` proves `LoadingEnds`: each execution is counted under its
  query from the step that sets the flag to the one that takes its answer.
- `ReportViewProofs`: `TypeCorrect`, `ResultsAreShown`, `OneAutomaticEach`,
  `ReportsFollow`, `ReportsNeverIdle`. `ResultShown` says nothing while a component loads, has a timer
  or shows an error; `ViewInv` adds what each status owes: "loaded" shows the query
  the component is bound to, "loading" has an execution that will answer or has used
  up the runs, "error" comes from a rejection or an invalid config, and "none" has a timer that will look
  at the results, unless they are shown already or one of the exceptions of
  `ResultShown` applies. The automatic execution of a report is decided on a flag it
  rendered earlier: `AutoInv` says that as long as its own execution is under way the
  rendered flag is set, so that the effect cannot start another. That needs
  `FollowInv`: what a report has rendered is what the store has, except that the
  flag may be off in the rendering and on in the store while its effects are due;
  once they have run, the report is subscribed with the flag it rendered, and any
  later change makes it render. `ReportsFollow` states the part a user sees.
  `MountInv`: only a mounted report executes. `IdleInv` ties the dependencies the
  executing effect last ran with to what an automatic report has rendered and to whether
  it has executed. Assumed is that components and reports are different callers and that no
  selection and no dependencies of an effect are `Null`.

Every invariant and every action property of the passing runs is stated by a theorem.
Only model-checked is liveness under fairness (`StopReturns`, `QueuedItemSettles`,
`EveryItemSettles`, `EveryItemEnds`, `ExclusiveRuns`, `ShutdownEnds`, `JobEnds`,
`WriteEnds`, `Recovers`, `MountExecutes`), which is out of the prover's reach; and the
two violations, which are counterexamples. Of seven of these a theorem states the safety
half, that something is still there to make progress: `QueueNeverStuck` for
`ExclusiveRuns` and `ShutdownEnds`, `JobNeverIdle` for `JobEnds`, `ReportsNeverIdle` for
`MountExecutes`, `ThrottleReleased` for `QueuedItemSettles` and `EveryItemSettles`, and
`SetAsideIsCovered` for `Recovers`. All but the last state formulas of the proof modules
that no run checks.

## 6. What the models leave out

- Order inside a queue or batch, payloads, log texts, wording of events.
- Time: a delay or timeout is a step that may happen at any time.
- The cancellation token Quartz passes to jobs: nothing in the services uses it.
- `ExclusiveJobs`: a second `/reset` while the first waits, and what reading a
  missing `queueId` gives beyond the code's default.
- `RollupFlow` beside `ExclusiveJobs`: after an error has ended a rollup job,
  calls of its other blocks may still be running when an exclusive job begins.
- `EndpointPool`: the polling callback, which assigns a local variable and so
  changes nothing (`LoadBalancedWriter.cs:165`).
- `QueueProcessor`: the steps inside a runner, whose drain and listing are one step
  each here; `QueueRunner` has them.
- `SchemaEditor`: what is typed into the settings form, and renders in display mode.
  What becomes of the editor after a list with a hole in it, which only a moved save
  makes: `components.map` (`RenderEditMode.tsx:34`) skips the hole until the list is
  copied; then rendering it throws, and `UserInterface` shows an error from then on.
  The model stops there (`Rendering`).
- `ExecuteView`: remote URLs and remote configs as data sources, the mode of a
  component (edit and preview execute nothing), parameters of queries.
- `Dashboard`: several pages and several Execute components, paths and navigation.
- `QueryView`: remote configs and URLs as sources, `paused`, parameters and the
  prompt for them, and the `refresh` interval, which no page passes. The list of
  configs is listed or pending, whatever `ConfigStore` says of it. A config that is
  not JSON5 makes `JSON5.parse` (`Query.tsx:275`) throw in the middle of React's
  update: the component then shows nothing that the model could speak of.
- `ReportView`: the unmounting of reports, by navigation or by a sync that makes the
  list of configs pending; parent parameters that change (`Home` is fixed); the table,
  its detail pages, and payloads that are notifications of a type other than error
  (`reports.ts:126`). The end of an execution is two changes of the store in the code:
  the result is stored (`reports.ts:138`), which renders the context provider and so
  runs the effects that are due, and then the flag goes off, which is what a report that
  has missed the first catches up on. `StoreChanges` has them as one change that comes
  after those effects, with the same state in the end.
- The components marked `not_modelled` in `PROJECT.json`, with their reasons.

## 7. Plan

Done, in this order: `ItemCustody` and `QueueRunner` with proofs;
`QueueProcessor` with proofs; `ExclusiveJobs` with proofs; `RollupFlow` with proofs;
`EndpointPool` with proofs; `MoveInList` and `SchemaEditor` with proofs;
`ConfigStore` with proofs; `ExecuteView` and `Dashboard` with proofs; `QueryView`
and `ReportView` with proofs.

To extend:
1. `RollupFlow` composed with `ExclusiveJobs`: the calls still running after a
   failed rollup beside an exclusive job.
2. `RedisScheduler`, `StickyQueues`, `DaemonRunner`.
