----------------------------- MODULE QueueRunner -----------------------------
(***************************************************************************)
(* One QueueRunner of QueueProcessorLib: a producer that lists batches of  *)
(* items from the database into a bounded BlockingCollection, a consumer   *)
(* that takes them out and starts one task per item, the tasks, and the    *)
(* runner's Start and Stop, which run on different threads.                *)
(*                                                                         *)
(* An item is one QueueItem object, i.e. one delivery by ItemGetter: the   *)
(* in-flight dictionary is keyed by reference.  ItemGetter takes what it   *)
(* returns off the stored queue, so from then on the item exists only in   *)
(* memory until it is processed or handed to the retry or restart queue.   *)
(*                                                                         *)
(* The queue and the batch are sets: no property depends on their order.   *)
(***************************************************************************)
EXTENDS Integers, FiniteSets

CONSTANTS
  Items,                  \* the deliveries ItemGetter can make
  InRetry,                \* those whose Discriminator is in DiscriminatorsInRetry
  BatchSize,              \* QueueItemProducerConfig.BatchSize
  LowWatermark,           \* QueueItemProducerConfig.LowWatermark
  HighWatermark,          \* bound of the BlockingCollection
  ItemsInFlightMaxCount,  \* QueueItemConsumerConfig.ItemsInFlightMaxCount
  Faults,                 \* which calls may throw, a subset of FaultKinds
  MayStop                 \* whether the host ever calls Stop

FaultKinds == {"list", "row", "retry", "restart"}

ASSUME RunnerAssumption ==
  /\ IsFiniteSet(Items)
  /\ InRetry \subseteq Items
  /\ BatchSize \in Nat \ {0}
  /\ LowWatermark \in Nat
  /\ HighWatermark \in Nat \ {0}
  /\ ItemsInFlightMaxCount \in Nat \ {0}
  /\ Faults \subseteq FaultKinds
  /\ MayStop \in BOOLEAN

VARIABLES
  pending,     \* rows still in the stored queue
  batch,       \* rows ItemGetter has returned and the producer has not dispatched
  batchCount,  \* rows of the current batch dispatched so far
  queue,       \* Config.Queue
  saving,      \* queueItemIds of SaveItemsForRestart
  producer,    \* where the producer's thread of control is
  inFlight,    \* _itemsInFlight
  task,        \* the Process task of each item
  consumer,    \* where the consumer's thread of control is
  processed,   \* items whose processing returned true
  retryQueue,  \* items handed to SendToRetryQueue
  restartQueue,\* items handed to SendToRestartQueue
  cancelled,   \* _cancellationTokenSource.IsCancellationRequested
  start,       \* progress of QueueRunner.Start
  stop         \* progress of QueueRunner.Stop

producerVars == <<pending, batch, batchCount, saving, producer>>
consumerVars == <<inFlight, task, consumer>>
storeVars    == <<processed, retryQueue, restartQueue>>
hostVars     == <<cancelled, start, stop>>
vars == <<producerVars, queue, consumerVars, storeVars, hostVars>>

ProducerHalting == {"save", "send", "stopped", "faulted"}
ProducerState == {"off", "check", "list", "dispatch", "sleep"} \cup ProducerHalting
ConsumerState == {"off", "check", "throttle", "take", "run", "drain", "stopped"}
TaskState == {"none", "taken", "submitted", "running", "failing", "dropped",
              "done", "lost"}

Init ==
  /\ pending = Items
  /\ batch = {} /\ batchCount = 0 /\ queue = {} /\ saving = {}
  /\ producer = "off"
  /\ inFlight = {} /\ task = [i \in Items |-> "none"]
  /\ consumer = "off"
  /\ processed = {} /\ retryQueue = {} /\ restartQueue = {}
  /\ cancelled = FALSE /\ start = "created" /\ stop = "no"

-----------------------------------------------------------------------------
(* The producer. *)

ProducerCheck ==
  /\ producer = "check"
  /\ producer' = IF cancelled THEN "save" ELSE "list"
  /\ UNCHANGED <<pending, batch, batchCount, saving, queue, consumerVars,
                 storeVars, hostVars>>

\* The rows a call of the stored ListPending function may return.
ListPending ==
  IF Cardinality(pending) <= BatchSize
  THEN {pending}
  ELSE {rows \in SUBSET pending : Cardinality(rows) = BatchSize}

\* Mutant: batchCount is declared outside the loop and never reset.
ProducerListKeepsCount ==
  /\ producer = "list"
  /\ \E rows \in ListPending : pending' = pending \ rows /\ batch' = rows
  /\ producer' = "dispatch"
  /\ UNCHANGED <<batchCount, saving, queue, consumerVars, storeVars, hostVars>>

\* ItemGetter(BatchSize): the call may come back after a cancellation.
ProducerList ==
  /\ producer = "list"
  /\ \/ \E rows \in ListPending :
          /\ pending' = pending \ rows
          /\ batch' = rows
          /\ batchCount' = 0
          /\ producer' = "dispatch"
     \/ /\ "list" \in Faults
        /\ producer' = "save"
        /\ UNCHANGED <<pending, batch, batchCount>>
  /\ UNCHANGED <<saving, queue, consumerVars, storeVars, hostVars>>

\* Mutant: TryAdd, whose result nobody looks at, for Add.
EnqueueIfRoom(i) ==
  /\ i \notin InRetry
  /\ ~cancelled
  /\ queue' = IF Cardinality(queue) < HighWatermark THEN queue \cup {i} ELSE queue
  /\ UNCHANGED retryQueue

\* Queue.Add(queueItem, cancellationToken): blocks while the queue is full.
Enqueue(i) ==
  /\ i \notin InRetry
  /\ ~cancelled
  /\ Cardinality(queue) < HighWatermark
  /\ queue' = queue \cup {i}
  /\ UNCHANGED retryQueue

\* An item whose discriminator is being retried bypasses the queue.
Divert(i) ==
  /\ i \in InRetry
  /\ retryQueue' = retryQueue \cup {i}
  /\ UNCHANGED queue

Dispatch(i) ==
  /\ producer = "dispatch"
  /\ i \in batch
  /\ Enqueue(i) \/ Divert(i)
  /\ batch' = batch \ {i}
  /\ batchCount' = batchCount + 1
  /\ UNCHANGED <<pending, saving, producer, consumerVars, processed,
                 restartQueue, hostVars>>

\* Dispatching row i throws: Add sees the cancellation, the retry call fails,
\* or the row does not parse.  The rows of the batch not dispatched stay behind.
DispatchThrows(i) ==
  /\ producer = "dispatch"
  /\ i \in batch
  /\ \/ i \notin InRetry /\ cancelled
     \/ i \in InRetry /\ "retry" \in Faults
     \/ "row" \in Faults
  /\ producer' = "save"
  /\ UNCHANGED <<pending, batch, batchCount, saving, queue, consumerVars,
                 storeVars, hostVars>>

EndBatch ==
  /\ producer = "dispatch"
  /\ batch = {}
  /\ LET shouldSleep == \/ batchCount < BatchSize
                        \/ Cardinality(queue) >= LowWatermark
     IN  producer' = IF shouldSleep /\ ~cancelled THEN "sleep" ELSE "check"
  /\ UNCHANGED <<pending, batch, batchCount, saving, queue, consumerVars,
                 storeVars, hostVars>>

\* Task.Delay ends by itself, or throws when the token is cancelled.
ProducerWake ==
  /\ producer = "sleep"
  /\ producer' = IF cancelled THEN "save" ELSE "check"
  /\ UNCHANGED <<pending, batch, batchCount, saving, queue, consumerVars,
                 storeVars, hostVars>>

\* Mutant: the queue is copied, not emptied.
SaveOneByCopy(i) ==
  /\ i \in queue \ saving
  /\ saving' = saving \cup {i}
  /\ UNCHANGED queue

\* Config.Queue.TryTake(out var queueItem), and its id to queueItemIds.
SaveOne(i) ==
  /\ i \in queue
  /\ queue' = queue \ {i}
  /\ saving' = saving \cup {i}

\* SaveItemsForRestart, one TryTake at a time.  Its argument, batch, is declared
\* at line 37 and never assigned, so the second loop finds nothing to gather.
SaveQueued ==
  /\ producer = "save"
  /\ \/ \E i \in Items : SaveOne(i) /\ UNCHANGED producer
     \/ /\ queue = {}
        /\ producer' = IF saving = {} THEN "stopped" ELSE "send"
        /\ UNCHANGED <<queue, saving>>
  /\ UNCHANGED <<pending, batch, batchCount, consumerVars, storeVars, hostVars>>

\* SendToRestartQueue; its exception leaves the producer's task faulted.
SendSaved ==
  /\ producer = "send"
  /\ \/ /\ restartQueue' = restartQueue \cup saving
        /\ saving' = {}
        /\ producer' = "stopped"
     \/ /\ "restart" \in Faults
        /\ producer' = "faulted"
        /\ UNCHANGED <<restartQueue, saving>>
  /\ UNCHANGED <<pending, batch, batchCount, queue, consumerVars, processed,
                 retryQueue, hostVars>>

Producer ==
  \/ ProducerCheck
  \/ ProducerList
  \/ \E i \in Items : Dispatch(i) \/ DispatchThrows(i)
  \/ EndBatch
  \/ ProducerWake
  \/ SaveQueued
  \/ SendSaved

-----------------------------------------------------------------------------
(* The consumer and the tasks it starts. *)

\* Mutant: the limit is passed before the consumer waits.
ThrottledAbove == Cardinality(inFlight) > ItemsInFlightMaxCount

Throttled == Cardinality(inFlight) >= ItemsInFlightMaxCount

ConsumerCheck ==
  /\ consumer = "check"
  /\ consumer' = IF cancelled THEN "drain"
                 ELSE IF Throttled THEN "throttle" ELSE "take"
  /\ UNCHANGED <<producerVars, queue, inFlight, task, storeVars, hostVars>>

ConsumerWake ==
  /\ consumer = "throttle"
  /\ consumer' = IF cancelled THEN "drain" ELSE "check"
  /\ UNCHANGED <<producerVars, queue, inFlight, task, storeVars, hostVars>>

\* Queue.Take(cancellationToken) blocks while the queue is empty; TryAdd follows.
Take(i) ==
  /\ consumer = "take"
  /\ ~cancelled
  /\ i \in queue
  /\ queue' = queue \ {i}
  /\ inFlight' = inFlight \cup {i}
  /\ task' = [task EXCEPT ![i] = "taken"]
  /\ consumer' = "run"
  /\ UNCHANGED <<producerVars, storeVars, hostVars>>

TakeCancelled ==
  /\ consumer = "take"
  /\ cancelled
  /\ consumer' = "drain"
  /\ UNCHANGED <<producerVars, queue, inFlight, task, storeVars, hostVars>>

\* Task.Run(..., cancellationToken): a cancelled token gives a task that never
\* runs, and so never takes its item out of the in-flight dictionary.
RunTask(i) ==
  /\ consumer = "run"
  /\ task[i] = "taken"
  /\ task' = [task EXCEPT ![i] = IF cancelled THEN "dropped" ELSE "submitted"]
  /\ consumer' = "check"
  /\ UNCHANGED <<producerVars, queue, inFlight, storeVars, hostVars>>

\* Mutant: the wait has no limit.
DrainAll ==
  /\ consumer = "drain"
  /\ inFlight = {}
  /\ consumer' = "stopped"
  /\ UNCHANGED <<producerVars, queue, inFlight, task, storeVars, hostVars>>

\* The wait for the in-flight items ends when there are none, or when
\* DrainInterval is over, whichever comes first.
Drain ==
  /\ consumer = "drain"
  /\ consumer' = "stopped"
  /\ UNCHANGED <<producerVars, queue, inFlight, task, storeVars, hostVars>>

Consumer ==
  \/ ConsumerCheck
  \/ ConsumerWake
  \/ \E i \in Items : Take(i) \/ RunTask(i)
  \/ TakeCancelled
  \/ Drain

TaskStep(i, from, to) ==
  /\ task[i] = from
  /\ task' = [task EXCEPT ![i] = to]
  /\ UNCHANGED <<producerVars, queue, consumer, restartQueue, hostVars>>

\* The thread pool runs the task, or cancels it if the token is cancelled first.
BeginProcess(i) ==
  /\ \/ TaskStep(i, "submitted", "running")
     \/ cancelled /\ TaskStep(i, "submitted", "dropped")
  /\ UNCHANGED <<inFlight, processed, retryQueue>>

\* Mutant: the finally block does not remove the item.
ProcessSucceedsInFlight(i) ==
  /\ TaskStep(i, "running", "done")
  /\ processed' = processed \cup {i}
  /\ UNCHANGED <<inFlight, retryQueue>>

\* QueueItemProcessor returns true; the finally block removes the item.
ProcessSucceeds(i) ==
  /\ TaskStep(i, "running", "done")
  /\ processed' = processed \cup {i}
  /\ inFlight' = inFlight \ {i}
  /\ UNCHANGED retryQueue

ProcessFails(i) ==
  /\ TaskStep(i, "running", "failing")
  /\ UNCHANGED <<inFlight, processed, retryQueue>>

\* Mutant: a failed item is not sent to the retry queue.
ProcessForgets(i) ==
  /\ TaskStep(i, "failing", "done")
  /\ inFlight' = inFlight \ {i}
  /\ UNCHANGED <<processed, retryQueue>>

\* SendToRetryQueue; when it throws, the finally block still removes the item.
ProcessRetries(i) ==
  /\ \/ /\ TaskStep(i, "failing", "done")
        /\ retryQueue' = retryQueue \cup {i}
     \/ /\ "retry" \in Faults
        /\ TaskStep(i, "failing", "lost")
        /\ UNCHANGED retryQueue
  /\ inFlight' = inFlight \ {i}
  /\ UNCHANGED processed

Process(i) ==
  \/ BeginProcess(i)
  \/ ProcessSucceeds(i)
  \/ ProcessFails(i)
  \/ ProcessRetries(i)

-----------------------------------------------------------------------------
(* QueueRunner.Start and QueueRunner.Stop. *)

StartProducer ==
  /\ start = "created"
  /\ start' = "producerUp"
  /\ producer' = "check"
  /\ UNCHANGED <<pending, batch, batchCount, saving, queue, consumerVars,
                 storeVars, cancelled, stop>>

\* _consumer.Start returns its task at its first await that does not complete at
\* once: the log call, or, when that one completes synchronously, a later one.
StartConsumer ==
  /\ start = "producerUp"
  /\ start' \in {"up", "inline"}
  /\ consumer' = "check"
  /\ UNCHANGED <<producerVars, queue, inFlight, task, storeVars, cancelled, stop>>

ConsumerYields ==
  /\ start = "inline"
  /\ consumer \in {"throttle", "drain", "stopped"}
  /\ start' = "up"
  /\ UNCHANGED <<producerVars, queue, consumerVars, storeVars, cancelled, stop>>

Start == StartProducer \/ StartConsumer \/ ConsumerYields

Cancel ==
  /\ MayStop
  /\ stop = "no"
  /\ cancelled' = TRUE
  /\ stop' = "cancelled"
  /\ UNCHANGED <<producerVars, queue, consumerVars, storeVars, start>>

\* Task.WaitAll throws when a task was not assigned yet.
BeginWait ==
  /\ stop = "cancelled"
  /\ stop' = IF start = "up" THEN "waiting" ELSE "failed"
  /\ UNCHANGED <<producerVars, queue, consumerVars, storeVars, cancelled, start>>

\* Mutant: Stop waits for the consumer only.
EndWaitConsumer ==
  /\ stop = "waiting"
  /\ consumer = "stopped"
  /\ stop' = "done"
  /\ UNCHANGED <<producerVars, queue, consumerVars, storeVars, cancelled, start>>

EndWait ==
  /\ stop = "waiting"
  /\ producer \in {"stopped", "faulted"}
  /\ consumer = "stopped"
  /\ stop' = IF producer = "faulted" THEN "failed" ELSE "done"
  /\ UNCHANGED <<producerVars, queue, consumerVars, storeVars, cancelled, start>>

Stop == Cancel \/ BeginWait \/ EndWait

-----------------------------------------------------------------------------
Next ==
  \/ Producer
  \/ Consumer
  \/ \E i \in Items : Process(i)
  \/ Start
  \/ Stop

\* Every database call and every delay returns; a task that is never scheduled
\* or never ends is allowed, except in FairSpec.
ThreadFairness ==
  /\ WF_vars(Producer)
  /\ WF_vars(Consumer)
  /\ WF_vars(Start)
  /\ WF_vars(BeginWait)
  /\ WF_vars(EndWait)

Spec == Init /\ [][Next]_vars /\ ThreadFairness

FairSpec == Spec /\ \A i \in Items : WF_vars(Process(i))

-----------------------------------------------------------------------------
(* Properties. *)

TypeOK ==
  /\ pending \subseteq Items /\ batch \subseteq Items
  /\ queue \subseteq Items /\ saving \subseteq Items
  /\ batchCount \in 0 .. BatchSize
  /\ producer \in ProducerState
  /\ inFlight \subseteq Items
  /\ task \in [Items -> TaskState]
  /\ consumer \in ConsumerState
  /\ processed \subseteq Items /\ retryQueue \subseteq Items
  /\ restartQueue \subseteq Items
  /\ cancelled \in BOOLEAN
  /\ start \in {"created", "producerUp", "inline", "up"}
  /\ stop \in {"no", "cancelled", "waiting", "done", "failed"}

\* The three durable outcomes of an item, and the items whose retry call threw.
Settled == processed \cup retryQueue \cup restartQueue
LostByTask == {i \in Items : task[i] = "lost"}

\* Whatever the threads do, an item listed from the store is in one of the
\* runner's containers, in a durable outcome, or was dropped by a retry call
\* that threw: no interleaving of Add, Take, TryTake and the finally block of
\* Process makes one vanish (QueueItemProducer.cs:43-112, QueueItemConsumer.cs).
NothingVanishes ==
  Items = pending \cup batch \cup queue \cup saving \cup inFlight
          \cup Settled \cup LostByTask

\* No item has two custodians or two outcomes: one that SaveItemsForRestart
\* drains is never also taken by the consumer, and one that was processed is
\* never also sent to the retry or the restart queue.
NothingTwice ==
  /\ pending \cap (batch \cup queue \cup saving \cup inFlight \cup Settled
                  \cup LostByTask) = {}
  /\ batch \cap (queue \cup saving \cup inFlight \cup Settled \cup LostByTask) = {}
  /\ queue \cap (saving \cup inFlight \cup Settled \cup LostByTask) = {}
  /\ saving \cap (inFlight \cup Settled \cup LostByTask) = {}
  /\ inFlight \cap (Settled \cup LostByTask) = {}
  /\ LostByTask \cap Settled = {}
  /\ processed \cap (retryQueue \cup restartQueue) = {}
  /\ retryQueue \cap restartQueue = {}

\* The throttle of QueueItemConsumer.cs:43-46 is read before the blocking Take,
\* and still bounds the items in flight, cancelled ones included.
InFlightBounded == Cardinality(inFlight) <= ItemsInFlightMaxCount

\* When Stop has returned, the queue has been emptied into the restart queue:
\* what can be lost is what the producer had not dispatched of its last batch
\* and what was in flight, at most BatchSize + ItemsInFlightMaxCount items.
StopLosesAtMost ==
  stop = "done" =>
    LET unsettled == Items \ (pending \cup Settled \cup LostByTask)
    IN  /\ unsettled = batch \cup inFlight
        /\ Cardinality(unsettled) <= BatchSize + ItemsInFlightMaxCount

\* Stop returns, even when the tasks in flight never end.
StopReturns == stop = "cancelled" ~> stop \in {"done", "failed"}

\* Once in the queue, an item is processed, retried or saved for restart, also
\* when the producer halts on an error and drains the queue that the consumer,
\* still running, is taking from.
QueuedItemSettles == \A i \in Items : i \in queue ~> i \in Settled

\* A runner that is never stopped settles every item, unless its producer halts on
\* an error before it has put the item into the queue.
EveryItemSettles ==
  \A i \in Items :
    <>(i \in Settled \/ (i \in pending \cup batch /\ producer \in ProducerHalting))

-----------------------------------------------------------------------------
(* Refinement: the runner keeps the promises of ItemCustody.  An item whose *)
(* retry call threw counts as settled: no step returns to it, and           *)
(* NothingTwice keeps it apart from the durable outcomes.                   *)

\* The items no step can reach any more: the rest of the producer's last batch,
\* the ids a failed SendToRestartQueue had, the items of cancelled tasks.
Unreachable ==
  (IF producer \in ProducerHalting THEN batch ELSE {})
  \cup (IF producer = "faulted" THEN saving ELSE {})
  \cup {i \in Items : task[i] = "dropped"}

Custody == INSTANCE ItemCustody WITH
  LossBound <- BatchSize + HighWatermark + ItemsInFlightMaxCount,
  stored <- pending,
  settled <- Settled \cup LostByTask,
  lost <- Unreachable,
  held <- Items \ (pending \cup Settled \cup LostByTask \cup Unreachable),
  closing <- cancelled \/ producer \in ProducerHalting

\* Every step of the runner hands items out, settles them or, only when it is
\* halting, drops a bounded number of them; nothing dropped is ever settled.
KeepsCustody == Custody!Spec
=============================================================================
