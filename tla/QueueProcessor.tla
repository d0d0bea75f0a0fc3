---------------------------- MODULE QueueProcessor ----------------------------
(***************************************************************************)
(* The QueueProcessor service: up to four queue runners over one database, *)
(* the retry bookkeeping, and OnStart, OnStop and the exit of the process. *)
(*                                                                         *)
(* A runner is seen through what ItemCustody promises of it: it lists      *)
(* items, processes them, saves what it had queued when it is stopped, and *)
(* leaves some items behind.  The database is external: its functions do   *)
(* what the service's use of them needs, and any order of listing is       *)
(* allowed.  The set _discriminatorsInRetry is never filled, so no         *)
(* producer ever diverts an item (QueueProcessor.cs:17).                   *)
(***************************************************************************)
EXTENDS Integers, FiniteSets, Sequences

CONSTANTS
  Ids,            \* ids of the queue items
  Discriminator,  \* the discriminator of each item
  Home,           \* the queue each item is first stored in
  Enabled,        \* queues whose runner the configuration enables
  MaxRetries,     \* QueueProcessor.MaxRetries
  Faults,         \* which calls may throw, or "crash", a subset of FaultKinds
  MaxExits        \* bound: how often the process is stopped or crashes

QueueOrder == <<"RestartQueue", "ImmediateQueue", "ScheduledQueue", "RetryQueue">>
Queues == {QueueOrder[n] : n \in DOMAIN QueueOrder}
PlainQueues == Queues \ {"RetryQueue"}
FaultKinds == {"list", "restart", "merge", "release", "crash"}

ASSUME ProcessorAssumption ==
  /\ IsFiniteSet(Ids)
  /\ DOMAIN Discriminator = Ids
  /\ Home \in [Ids -> PlainQueues]
  /\ Enabled \subseteq Queues
  /\ MaxRetries \in Nat
  /\ Faults \subseteq FaultKinds
  /\ MaxExits \in Nat

VARIABLES
  stored,      \* items in each plain queue of the database
  retryRows,   \* rows of the retry queue
  held,        \* discriminators with a retry in progress (RetryQueueProgress)
  holder,      \* the runner that has each item in memory
  phase,       \* how far that runner is with it
  retryNumber, \* QueueItem.RetryNumber of the object in memory
  lost,        \* items no queue and no runner knows any more
  runner,      \* state of each queue's runner
  next,        \* OnStart: position in QueueOrder
  onStop,      \* progress of OnStop
  stopNext,    \* OnStop: position of its enumerator over _runners
  seen,        \* OnStop: number of runners when its enumerator was created
  exits,
  handled,     \* history: items some evaluation of the LBM returned true for
  unreleased,  \* history: those of them whose release call threw
  retried,     \* history: items that were merged into the retry queue
  attempts     \* history: evaluations of each item since ListPending returned it,
               \* counted up to AttemptsCap

AttemptsCap == MaxRetries + 2

dataVars == <<stored, retryRows, held>>
itemVars == <<holder, phase, retryNumber, lost>>
startVars == <<runner, next>>
stopVars == <<onStop, stopNext, seen, exits>>
history == <<handled, unreleased, retried, attempts>>
vars == <<dataVars, itemVars, startVars, stopVars, history>>

Phases == {"idle", "batch", "queued", "taken", "running", "releasing", "failing"}
\* "half": producer started, consumer not yet.  "halted": the producer has ended by
\* an exception, "broken": its drain has thrown too; the consumer goes on.
\* "early", "snapped": cancelled before the producer or the consumer was started.
RunnerStates == {"absent", "added", "half", "up", "halted", "broken", "cancelled",
                 "early", "snapped", "stopped", "faulted"}

Runners == {q \in Queues : runner[q] # "absent"}
Queued(q) == {i \in Ids : holder[i] = q /\ phase[i] = "queued"}

Init ==
  /\ stored = [q \in PlainQueues |-> {i \in Ids : Home[i] = q}]
  /\ retryRows = {} /\ held = {}
  /\ holder = Home /\ phase = [i \in Ids |-> "idle"]
  /\ retryNumber = [i \in Ids |-> -1]
  /\ lost = {}
  /\ runner = [q \in Queues |-> "absent"] /\ next = 1
  /\ onStop = "no" /\ stopNext = 1 /\ seen = 0 /\ exits = 0
  /\ handled = {} /\ unreleased = {} /\ retried = {}
  /\ attempts = [i \in Ids |-> 0]

-----------------------------------------------------------------------------
(* Listing, by the producer of runner q. *)

Move(i, p) == phase' = [phase EXCEPT ![i] = p]

Lists(q) == runner[q] \in {"half", "up", "cancelled", "snapped"}

Receive(q, i, number) ==
  /\ holder' = [holder EXCEPT ![i] = q]
  /\ retryNumber' = [retryNumber EXCEPT ![i] = number]
  /\ Move(i, "batch")

\* The rows of the plain queues carry no retry number: the constructor's
\* default is -1.
ListPending(q, i) ==
  /\ Lists(q)
  /\ q \in PlainQueues
  /\ i \in stored[q]
  /\ stored' = [stored EXCEPT ![q] = @ \ {i}]
  /\ Receive(q, i, -1)
  /\ attempts' = [attempts EXCEPT ![i] = 0]
  /\ UNCHANGED <<retryRows, held, lost, startVars, stopVars, handled,
                 unreleased, retried>>

RetryQueueListPending(row) ==
  /\ Lists("RetryQueue")
  /\ row \in retryRows
  /\ ~row.exhausted
  /\ retryRows' = retryRows \ {row}
  /\ Receive("RetryQueue", row.id, row.number)
  /\ UNCHANGED <<stored, held, lost, startVars, stopVars, history>>

Enqueue(i) ==
  /\ phase[i] = "batch"
  /\ runner[holder[i]] \in {"half", "up"}
  /\ Move(i, "queued")
  /\ UNCHANGED <<dataVars, holder, retryNumber, lost, startVars, stopVars, history>>

-----------------------------------------------------------------------------
(* Processing. *)

\* The consumer takes the item into flight.
Take(i) ==
  /\ phase[i] = "queued"
  /\ runner[holder[i]] \in {"up", "halted", "broken"}
  /\ Move(i, "taken")
  /\ UNCHANGED <<dataVars, holder, retryNumber, lost, startVars, stopVars, history>>

\* ProcessItem begins: the LBM is evaluated for the item.  The tasks that a
\* cancellation finds not yet begun never begin.
BeginProcessItem(i) ==
  /\ phase[i] = "taken"
  /\ runner[holder[i]] \in {"up", "halted", "broken"}
  /\ Move(i, "running")
  /\ attempts' = [attempts EXCEPT ![i] = IF @ < AttemptsCap THEN @ + 1 ELSE @]
  /\ UNCHANGED <<dataVars, holder, retryNumber, lost, startVars, stopVars,
                 handled, unreleased, retried>>

\* The LBM returns true; a retry goes on to release its discriminator.
LbmSucceeds(i) ==
  /\ phase[i] = "running"
  /\ handled' = handled \cup {i}
  /\ Move(i, IF retryNumber[i] > -1 THEN "releasing" ELSE "idle")
  /\ UNCHANGED <<dataVars, holder, retryNumber, lost, startVars, stopVars,
                 unreleased, retried, attempts>>

\* The LBM returns false or throws: ProcessItem returns false.
LbmFails(i) ==
  /\ phase[i] = "running"
  /\ Move(i, "failing")
  /\ UNCHANGED <<dataVars, holder, retryNumber, lost, startVars, stopVars, history>>

\* Mutant: the retry progress is not updated.
ReleaseNothing(i) ==
  /\ phase[i] = "releasing"
  /\ Move(i, "idle")
  /\ UNCHANGED <<dataVars, holder, retryNumber, lost, startVars, stopVars, history>>

\* RetryQueueProgressRelease; when it throws, ProcessItem returns false although
\* the LBM returned true.
RetryQueueProgressRelease(i) ==
  /\ phase[i] = "releasing"
  /\ \/ /\ held' = held \ {Discriminator[i]}
        /\ Move(i, "idle")
        /\ UNCHANGED unreleased
     \/ /\ "release" \in Faults
        /\ Move(i, "failing")
        /\ unreleased' = unreleased \cup {i}
        /\ UNCHANGED held
  /\ UNCHANGED <<stored, retryRows, holder, retryNumber, lost, startVars,
                 stopVars, handled, retried, attempts>>

\* Mutant: one retry more than MaxRetries.
RetryRowLate(i) ==
  LET number == retryNumber[i] + 1
  IN  [id |-> i, number |-> number, exhausted |-> number > MaxRetries]

\* Mutant: the attempt that fails is not counted.
RetryRowUncounted(i) ==
  LET number == IF retryNumber[i] < 0 THEN 0 ELSE retryNumber[i]
  IN  [id |-> i, number |-> number, exhausted |-> number >= MaxRetries]

RetryRow(i) ==
  LET number == retryNumber[i] + 1
  IN  [id |-> i, number |-> number, exhausted |-> number >= MaxRetries]

\* SendToRetryQueue; an exception is observed by nobody.
SendToRetryQueue(i) ==
  /\ phase[i] = "failing"
  /\ \/ /\ retryRows' = {row \in retryRows : row.id # i} \cup {RetryRow(i)}
        /\ held' = held \cup {Discriminator[i]}
        /\ retried' = retried \cup {i}
        /\ UNCHANGED lost
     \/ /\ "merge" \in Faults
        /\ lost' = lost \cup {i}
        /\ UNCHANGED <<retryRows, held, retried>>
  /\ Move(i, "idle")
  /\ UNCHANGED <<stored, holder, retryNumber, startVars, stopVars, handled,
                 unreleased, attempts>>

ProcessItem(i) ==
  \/ BeginProcessItem(i)
  \/ LbmSucceeds(i)
  \/ LbmFails(i)
  \/ RetryQueueProgressRelease(i)
  \/ SendToRetryQueue(i)

-----------------------------------------------------------------------------
(* How runner q ends. *)

\* Mutant: the items are sent without being taken out of the queue.
SaveByCopy(q) ==
  /\ stored' = [stored EXCEPT !["RestartQueue"] = @ \cup Queued(q)]
  /\ UNCHANGED phase

\* SendToRestartQueue passes on the ids of the queued items, and nothing else.
Save(q) ==
  /\ stored' = [stored EXCEPT !["RestartQueue"] = @ \cup Queued(q)]
  /\ phase' = [i \in Ids |-> IF i \in Queued(q) THEN "idle" ELSE phase[i]]

\* The producer ends: it drains the queue, and what is left of its batch stays with
\* nobody.  The drain may throw, and what it took is lost.
Drain(q, saved, thrown) ==
  /\ \/ /\ Save(q)
        /\ runner' = [runner EXCEPT ![q] = saved]
        /\ UNCHANGED lost
     \/ /\ "restart" \in Faults
        /\ Queued(q) # {}
        /\ lost' = lost \cup Queued(q)
        /\ phase' = [i \in Ids |-> IF i \in Queued(q) THEN "idle" ELSE phase[i]]
        /\ runner' = [runner EXCEPT ![q] = thrown]
        /\ UNCHANGED stored
  /\ UNCHANGED <<retryRows, held, holder, retryNumber, next, stopVars, history>>

\* The listing throws, before or within a batch; the consumer goes on.  A halt
\* before the consumer is started comes to the same as one just after.
Halt(q) ==
  /\ "list" \in Faults
  /\ runner[q] = "up"
  /\ Drain(q, "halted", "broken")

\* A cancelled runner stops without waiting for its tasks when DrainInterval is
\* over.  The Stop of one that had no consumer has thrown.
Finish(q) ==
  \/ runner[q] = "cancelled" /\ Drain(q, "stopped", "faulted")
  \/ runner[q] = "snapped" /\ Drain(q, "faulted", "faulted")

-----------------------------------------------------------------------------
(* The service. *)

\* OnStart's task creates the runners in order, skipping those not enabled.
AddRunner ==
  /\ next <= Len(QueueOrder)
  /\ runner[QueueOrder[next]] = "absent"
  /\ IF QueueOrder[next] \in Enabled
     THEN /\ runner' = [runner EXCEPT ![QueueOrder[next]] = "added"]
          /\ UNCHANGED next
     ELSE /\ next' = next + 1
          /\ UNCHANGED runner
  /\ UNCHANGED <<dataVars, itemVars, stopVars, history>>

\* QueueRunner.Start.  A producer whose token is cancelled lists nothing, ...
StartProducer ==
  /\ next <= Len(QueueOrder)
  /\ LET q == QueueOrder[next]
     IN  /\ runner[q] \in {"added", "early"}
         /\ runner' = [runner EXCEPT ![q] = IF @ = "added" THEN "half" ELSE "faulted"]
  /\ UNCHANGED <<dataVars, itemVars, next, stopVars, history>>

\* ... and such a consumer takes nothing.
StartConsumer ==
  /\ next <= Len(QueueOrder)
  /\ LET q == QueueOrder[next]
     IN  /\ runner[q] \in {"half", "snapped", "faulted"}
         /\ runner' = [runner EXCEPT ![q] = IF @ = "half" THEN "up" ELSE @]
  /\ next' = next + 1
  /\ UNCHANGED <<dataVars, itemVars, stopVars, history>>

OnStart == AddRunner \/ StartProducer \/ StartConsumer

BeginStop ==
  /\ onStop = "no"
  /\ exits < MaxExits
  /\ onStop' = "stopping"
  /\ stopNext' = 1
  /\ seen' = Cardinality(Runners)
  /\ UNCHANGED <<dataVars, itemVars, startVars, exits, history>>

\* foreach over _runners: the enumerator throws when OnStart has added one.
StopNext ==
  /\ onStop = "stopping"
  /\ IF Cardinality(Runners) # seen THEN /\ onStop' = "failed"
                                         /\ UNCHANGED stopNext
     ELSE IF stopNext <= seen THEN /\ stopNext' = stopNext + 1
                                   /\ UNCHANGED onStop
     ELSE /\ onStop' = "waiting"
          /\ UNCHANGED stopNext
  /\ UNCHANGED <<dataVars, itemVars, startVars, seen, exits, history>>

\* The runners whose Stop the loop has called: the first ones in _runners, which
\* has them in the order in which OnStart added them.
Rank == [q \in Queues |-> CHOOSE n \in DOMAIN QueueOrder : QueueOrder[n] = q]
Stopping ==
  {q \in Runners : Cardinality({p \in Runners : Rank[p] <= Rank[q]}) < stopNext}

\* What a cancellation makes of a runner.
Cancelled ==
  [added |-> "early", half |-> "snapped", up |-> "cancelled", halted |-> "stopped",
   broken |-> "faulted"]

\* QueueRunner.Stop goes on after its log call: it cancels the token.  It throws
\* when one of the runner's tasks does not exist yet, or has failed; otherwise it
\* waits for both.
CancelRunner(q) ==
  /\ onStop # "no"
  /\ q \in Stopping
  /\ runner[q] \in DOMAIN Cancelled
  /\ runner' = [runner EXCEPT ![q] = Cancelled[@]]
  /\ UNCHANGED <<dataVars, itemVars, next, stopVars, history>>

\* Mutant: OnStop does not wait for the runners.
WaitAllNoWait ==
  /\ onStop = "waiting"
  /\ onStop' = "done"
  /\ UNCHANGED <<dataVars, itemVars, startVars, stopNext, seen, exits, history>>

WaitAll ==
  /\ onStop = "waiting"
  /\ \A q \in Stopping : runner[q] \in {"stopped", "faulted", "early", "snapped"}
  /\ onStop' = IF \A q \in Stopping : runner[q] = "stopped" THEN "done" ELSE "failed"
  /\ UNCHANGED <<dataVars, itemVars, startVars, stopNext, seen, exits, history>>

OnStop == BeginStop \/ StopNext \/ WaitAll

\* The process ends, by itself or after OnStop, and is started again: what its
\* runners had in memory is gone.
Exit ==
  /\ exits < MaxExits
  /\ onStop \in {"done", "failed"} \/ "crash" \in Faults
  /\ exits' = exits + 1
  /\ lost' = lost \cup {i \in Ids : phase[i] # "idle"}
  /\ phase' = [i \in Ids |-> "idle"]
  /\ runner' = [q \in Queues |-> "absent"]
  /\ next' = 1
  /\ onStop' = "no" /\ stopNext' = 1 /\ seen' = 0
  /\ UNCHANGED <<dataVars, holder, retryNumber, history>>

Runner(q) ==
  \/ \E i \in Ids : ListPending(q, i)
  \/ Halt(q)
  \/ Finish(q)
  \/ CancelRunner(q)

Next ==
  \/ \E q \in Queues : Runner(q)
  \/ \E row \in retryRows : RetryQueueListPending(row)
  \/ \E i \in Ids : Enqueue(i) \/ Take(i) \/ ProcessItem(i)
  \/ OnStart
  \/ OnStop
  \/ Exit

\* Every call returns, and every runner keeps listing and processing.
ServiceFairness ==
  /\ WF_vars(OnStart)
  /\ \A q \in PlainQueues : \A i \in Ids : WF_vars(ListPending(q, i))
  /\ \A i \in Ids :
       /\ WF_vars(\E row \in retryRows : row.id = i /\ RetryQueueListPending(row))
       /\ WF_vars(Enqueue(i))
       /\ WF_vars(Take(i))
       /\ WF_vars(ProcessItem(i))

Spec == Init /\ [][Next]_vars /\ ServiceFairness

-----------------------------------------------------------------------------
(* Properties. *)

TypeOK ==
  /\ stored \in [PlainQueues -> SUBSET Ids]
  /\ retryRows \subseteq [id : Ids, number : 0 .. MaxRetries, exhausted : BOOLEAN]
  /\ held \subseteq {Discriminator[i] : i \in Ids}
  /\ holder \in [Ids -> Queues]
  /\ phase \in [Ids -> Phases]
  /\ retryNumber \in [Ids -> -1 .. MaxRetries - 1]
  /\ lost \subseteq Ids
  /\ runner \in [Queues -> RunnerStates]
  /\ next \in 1 .. Len(QueueOrder) + 1
  /\ onStop \in {"no", "stopping", "waiting", "done", "failed"}
  /\ stopNext \in 1 .. Len(QueueOrder) + 1 /\ seen \in 0 .. Len(QueueOrder)
  /\ exits \in 0 .. MaxExits
  /\ handled \subseteq Ids /\ unreleased \subseteq Ids /\ retried \subseteq Ids
  /\ attempts \in [Ids -> 0 .. AttemptsCap]

RowsOf(i) == {row \in retryRows : row.id = i}
Waiting(i) == (\E q \in PlainQueues : i \in stored[q]) \/ RowsOf(i) # {}

\* How many places an item is in.
Places(i) ==
  Cardinality({q \in PlainQueues : i \in stored[q]}) + Cardinality(RowsOf(i))
  + (IF phase[i] = "idle" THEN 0 ELSE 1) + (IF i \in lost THEN 1 ELSE 0)

\* An item handled by the LBM is finished: it waits in no queue and no runner
\* has it, across stops, crashes and restarts.  The exception the code allows is
\* a release call that threw after the LBM had returned true.
HandledOnce ==
  \A i \in handled \ unreleased : ~Waiting(i) /\ phase[i] \in {"idle", "releasing"}

\* An item is never in two places (queues, runners, lost), and until it is handled
\* it is in one: no stop, crash or failed call duplicates or forgets it.
OnePlace == \A i \in Ids : Places(i) <= 1 /\ (i \notin handled => Places(i) = 1)

\* "exhausted retries and will no longer be processed" (QueueProcessor.cs:208):
\* from the moment ListPending returns it, an item is evaluated at most once and
\* MaxRetries times more.
AttemptsBounded == \A i \in Ids : attempts[i] <= MaxRetries + 1

\* A discriminator stays held only as long as some item of it is being retried,
\* or has used up its retries.  Holds until a producer halts or the service stops.
HeldIsRetried ==
  \A d \in held : \E i \in Ids :
    /\ Discriminator[i] = d
    /\ RowsOf(i) # {} \/ (phase[i] # "idle" /\ retryNumber[i] > -1)

\* "If this was a retry and it succeeded, update the Retry Queue Progress"
\* (QueueProcessor.cs:179): an item that had been merged into the retry queue is
\* not handled without going on to the release.
RetrySuccessReleases ==
  [][\A i \in Ids : i \in retried /\ i \in handled' \ handled
                      => phase'[i] = "releasing"]_vars

\* When OnStop has returned without an exception, what the runners it stopped had
\* queued survives the exit of the process.
QueuedSurvivesStop ==
  [][\A i \in Ids : phase[i] = "queued" /\ i \in lost' \ lost /\ onStop = "done"
                      => holder[i] \notin Stopping]_vars

\* Every item is handled or uses up its retries.
EveryItemEnds ==
  \A i \in Ids : <>(i \in handled \/ \E row \in retryRows : row.id = i /\ row.exhausted)
=============================================================================
