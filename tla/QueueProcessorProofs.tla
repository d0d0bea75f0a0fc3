------------------------- MODULE QueueProcessorProofs -------------------------
(***************************************************************************)
(* Proofs about QueueProcessor, for any number of items, retries, stops    *)
(* and crashes, and every choice of failing calls.                         *)
(***************************************************************************)
EXTENDS QueueProcessor, FiniteSetTheorems, TLAPS

LEMMA QueueNames ==
  /\ Queues = {"RestartQueue", "ImmediateQueue", "ScheduledQueue", "RetryQueue"}
  /\ Len(QueueOrder) = 4
  /\ \A n \in 1 .. 4 : QueueOrder[n] \in Queues
  /\ "RestartQueue" \in PlainQueues /\ PlainQueues \subseteq Queues
<1>1. DOMAIN QueueOrder = 1 .. 4 /\ Len(QueueOrder) = 4
  BY DEF QueueOrder
<1>2. \A n \in 1 .. 4 : n = 1 \/ n = 2 \/ n = 3 \/ n = 4
  OBVIOUS
<1>3. Queues = {QueueOrder[1], QueueOrder[2], QueueOrder[3], QueueOrder[4]}
  BY <1>1, <1>2 DEF Queues
<1>4. /\ QueueOrder[1] = "RestartQueue" /\ QueueOrder[2] = "ImmediateQueue"
      /\ QueueOrder[3] = "ScheduledQueue" /\ QueueOrder[4] = "RetryQueue"
  BY DEF QueueOrder
<1>5. \A n \in 1 .. 4 : QueueOrder[n] \in Queues
  BY <1>1 DEF Queues
<1> QED
  BY <1>1, <1>3, <1>4, <1>5 DEF PlainQueues

\* There are four queues.
LEMMA FewQueues ==
  ASSUME NEW S \in SUBSET Queues
  PROVE  IsFiniteSet(S) /\ Cardinality(S) \in 0 .. 4
<1> DEFINE Q0 == {"RestartQueue"}
           Q1 == Q0 \cup {"ImmediateQueue"}
           Q2 == Q1 \cup {"ScheduledQueue"}
           Q3 == Q2 \cup {"RetryQueue"}
<1>1. IsFiniteSet(Q0) /\ Cardinality(Q0) = 1
  BY FS_Singleton
<1>2. IsFiniteSet(Q1) /\ Cardinality(Q1) \in {1, 2}
  BY <1>1, FS_AddElement
<1>3. IsFiniteSet(Q2) /\ Cardinality(Q2) \in {1, 2, 3}
  BY <1>2, FS_AddElement
<1>4. IsFiniteSet(Q3) /\ Cardinality(Q3) \in {1, 2, 3, 4}
  BY <1>3, FS_AddElement
<1>5. S \subseteq Q3
  BY QueueNames
<1>6. Cardinality(S) <= Cardinality(Q3) /\ IsFiniteSet(S)
  BY <1>4, <1>5, FS_Subset
<1>7. Cardinality(S) \in Nat
  BY <1>6, FS_CardinalityType
<1> QED
  BY <1>4, <1>6, <1>7

LEMMA FewRunners == Cardinality(Runners) \in 0 .. 4
<1>1. Runners \in SUBSET Queues
  BY DEF Runners
<1> QED
  BY <1>1, FewQueues

(***************************************************************************)
(* The inductive invariant: an item is in one place, and what it has been  *)
(* through so far fits the retry number it carries there.                  *)
(***************************************************************************)
InStore(i) == \E q \in PlainQueues : i \in stored[q]
InRetryQueue(i) == \E row \in retryRows : row.id = i
InMemory(i) == phase[i] # "idle"

RowInv ==
  /\ \A r, s \in retryRows : r.id = s.id => r = s
  /\ \A r \in retryRows : r.exhausted <=> r.number >= MaxRetries

PlaceInv(i) ==
  /\ \A q, r \in PlainQueues : i \in stored[q] /\ i \in stored[r] => q = r
  /\ InStore(i) => ~InRetryQueue(i) /\ ~InMemory(i) /\ i \notin lost
  /\ InRetryQueue(i) => ~InMemory(i) /\ i \notin lost
  /\ InMemory(i) => i \notin lost
  /\ i \notin handled => InStore(i) \/ InRetryQueue(i) \/ InMemory(i) \/ i \in lost
  /\ phase[i] = "releasing" => i \in handled
  /\ i \in handled \ unreleased =>
       ~InStore(i) /\ ~InRetryQueue(i) /\ phase[i] \in {"idle", "releasing"}

AttemptInv(i) ==
  /\ attempts[i] <= MaxRetries + 1
  /\ phase[i] \in {"batch", "queued", "taken"} => attempts[i] <= retryNumber[i] + 1
  /\ phase[i] \in {"running", "releasing", "failing"} =>
       attempts[i] <= retryNumber[i] + 2
  /\ \A row \in retryRows : row.id = i => attempts[i] <= row.number + 1

IInv == TypeOK /\ RowInv /\ \A i \in Ids : PlaceInv(i) /\ AttemptInv(i)

LEMMA Numbers ==
  ASSUME TypeOK, NEW i \in Ids
  PROVE  /\ MaxRetries \in Nat
         /\ retryNumber[i] \in Int /\ retryNumber[i] >= -1
         /\ retryNumber[i] <= MaxRetries - 1
         /\ attempts[i] \in Nat /\ attempts[i] <= MaxRetries + 2
  BY ProcessorAssumption DEF TypeOK, AttemptsCap

LEMMA RowType ==
  ASSUME TypeOK, NEW i \in Ids
  PROVE  /\ RetryRow(i) \in [id : Ids, number : 0 .. MaxRetries, exhausted : BOOLEAN]
         /\ RetryRow(i).id = i
         /\ RetryRow(i).number = retryNumber[i] + 1
         /\ RetryRow(i).exhausted <=> retryNumber[i] + 1 >= MaxRetries
<1> DEFINE number == retryNumber[i] + 1
           used == number >= MaxRetries
<1>1. number \in 0 .. MaxRetries
  BY Numbers
<1>2. used \in BOOLEAN
  BY Numbers
<1>3. RetryRow(i) = [id |-> i, number |-> number, exhausted |-> used]
  BY DEF RetryRow
<1> HIDE DEF number, used
<1>4. RetryRow(i) \in [id : Ids, number : 0 .. MaxRetries, exhausted : BOOLEAN]
  BY <1>1, <1>2, <1>3
<1>5. /\ RetryRow(i).id = i /\ RetryRow(i).number = number
      /\ RetryRow(i).exhausted = used
  BY <1>3
<1> QED
  BY <1>4, <1>5 DEF number, used

LEMMA InitIInv == Init => IInv
<1> SUFFICES ASSUME Init PROVE IInv
  OBVIOUS
<1>1. TypeOK
  <2>1. -1 \in -1 .. MaxRetries - 1 /\ 0 \in 0 .. AttemptsCap /\ 0 \in 0 .. MaxExits
    BY ProcessorAssumption DEF AttemptsCap
  <2>2. Home \in [Ids -> Queues]
    BY ProcessorAssumption, QueueNames
  <2> QED
    BY <2>1, <2>2, QueueNames DEF Init, TypeOK, Phases, RunnerStates
<1>2. RowInv
  BY DEF Init, RowInv
<1>3. ASSUME NEW i \in Ids PROVE PlaceInv(i) /\ AttemptInv(i)
  <2>1. /\ \A q \in PlainQueues : i \in stored[q] <=> Home[i] = q
        /\ Home[i] \in PlainQueues
    BY <1>3, ProcessorAssumption DEF Init
  <2>2. PlaceInv(i)
    BY <2>1 DEF Init, PlaceInv, InStore, InRetryQueue, InMemory
  <2>3. AttemptInv(i)
    BY ProcessorAssumption DEF Init, AttemptInv
  <2> QED
    BY <2>2, <2>3
<1> QED
  BY <1>1, <1>2, <1>3 DEF IInv

(***************************************************************************)
(* Types                                                                   *)
(***************************************************************************)
LEMMA ItemTypes ==
  ASSUME TypeOK, RowInv, NEW i \in Ids,
         \/ \E q \in Queues : ListPending(q, i)
         \/ \E row \in retryRows : row.id = i /\ RetryQueueListPending(row)
         \/ Enqueue(i) \/ Take(i) \/ ProcessItem(i)
  PROVE  TypeOK'
<1> USE DEF TypeOK, dataVars, itemVars, startVars, stopVars, history, Move, Phases
<1>1. ASSUME NEW q \in Queues, ListPending(q, i) PROVE TypeOK'
  <2>1. -1 \in -1 .. MaxRetries - 1 /\ 0 \in 0 .. AttemptsCap
    BY ProcessorAssumption DEF AttemptsCap
  <2> QED
    BY <1>1, <2>1 DEF ListPending, Receive
<1>2. ASSUME NEW row \in retryRows, row.id = i, RetryQueueListPending(row)
      PROVE  TypeOK'
  <2>1. row.number \in -1 .. MaxRetries - 1
    BY <1>2, ProcessorAssumption DEF RetryQueueListPending, RowInv
  <2>2. "RetryQueue" \in Queues
    BY QueueNames
  <2> QED
    BY <1>2, <2>1, <2>2 DEF RetryQueueListPending, Receive
<1>3. CASE Enqueue(i) \/ Take(i) \/ LbmSucceeds(i) \/ LbmFails(i)
  <2>1. CASE Enqueue(i)
    BY <2>1 DEF Enqueue
  <2>2. CASE Take(i)
    BY <2>2 DEF Take
  <2>3. CASE LbmSucceeds(i)
    BY <2>3 DEF LbmSucceeds
  <2>4. CASE LbmFails(i)
    BY <2>4 DEF LbmFails
  <2> QED
    BY <1>3, <2>1, <2>2, <2>3, <2>4
<1>4. CASE BeginProcessItem(i)
  <2>1. \A n \in 0 .. AttemptsCap : (IF n < AttemptsCap THEN n + 1 ELSE n) \in 0 .. AttemptsCap
    BY ProcessorAssumption DEF AttemptsCap
  <2> QED
    BY <1>4, <2>1 DEF BeginProcessItem
<1>5. CASE RetryQueueProgressRelease(i)
  BY <1>5 DEF RetryQueueProgressRelease
<1>6. CASE SendToRetryQueue(i)
  <2>1. RetryRow(i) \in [id : Ids, number : 0 .. MaxRetries, exhausted : BOOLEAN]
    BY RowType
  <2>2. retryRows' \subseteq [id : Ids, number : 0 .. MaxRetries, exhausted : BOOLEAN]
    BY <1>6, <2>1 DEF SendToRetryQueue
  <2>3. phase' \in [Ids -> Phases] /\ lost' \subseteq Ids /\ retried' \subseteq Ids
    BY <1>6 DEF SendToRetryQueue
  <2>4. held' \subseteq {Discriminator[j] : j \in Ids}
    BY <1>6 DEF SendToRetryQueue
  <2> QED
    BY <1>6, <2>2, <2>3, <2>4 DEF SendToRetryQueue
<1> QED
  BY <1>1, <1>2, <1>3, <1>4, <1>5, <1>6 DEF ProcessItem

\* What a cancellation makes of a runner, state by state.
LEMMA CancelledIs ==
  /\ DOMAIN Cancelled = {"added", "half", "up", "halted", "broken"}
  /\ Cancelled["added"] = "early" /\ Cancelled["half"] = "snapped"
  /\ Cancelled["up"] = "cancelled" /\ Cancelled["halted"] = "stopped"
  /\ Cancelled["broken"] = "faulted"
  /\ \A state \in DOMAIN Cancelled : Cancelled[state] \in RunnerStates
  BY DEF Cancelled, RunnerStates

LEMMA ServiceTypes ==
  ASSUME TypeOK,
         \/ \E q \in Queues : Halt(q) \/ Finish(q) \/ CancelRunner(q)
         \/ OnStart \/ OnStop \/ Exit
  PROVE  TypeOK'
<1> USE DEF TypeOK, dataVars, itemVars, startVars, stopVars, history
<1>1. ASSUME NEW q \in Queues, Halt(q) \/ Finish(q) PROVE TypeOK'
  <2>1. Queued(q) \subseteq Ids /\ "RestartQueue" \in PlainQueues
    BY QueueNames DEF Queued
  <2>2. stored' \in [PlainQueues -> SUBSET Ids] /\ lost' \subseteq Ids
    <3>1. \/ stored' = stored
          \/ stored' = [stored EXCEPT !["RestartQueue"] = @ \cup Queued(q)]
      BY <1>1 DEF Halt, Finish, Drain, Save
    <3>2. lost' = lost \/ lost' = lost \cup Queued(q)
      BY <1>1 DEF Halt, Finish, Drain
    <3> QED
      BY <2>1, <3>1, <3>2
  <2>3. phase' \in [Ids -> Phases]
    <3>1. phase' = [i \in Ids |-> IF i \in Queued(q) THEN "idle" ELSE phase[i]]
      BY <1>1 DEF Halt, Finish, Drain, Save
    <3> QED
      BY <3>1 DEF Phases
  <2>4. runner' \in [Queues -> RunnerStates]
    <3>1. \E state \in RunnerStates : runner' = [runner EXCEPT ![q] = state]
      BY <1>1 DEF Halt, Finish, Drain, RunnerStates
    <3> QED
      BY <3>1
  <2>5. UNCHANGED <<retryRows, held, holder, retryNumber, next, stopVars, history>>
    BY <1>1 DEF Halt, Finish, Drain, Save
  <2> QED
    BY <2>2, <2>3, <2>4, <2>5
<1>2. ASSUME NEW q \in Queues, CancelRunner(q) PROVE TypeOK'
  BY <1>2, CancelledIs DEF CancelRunner
<1>3. CASE OnStart
  <2>1. next \in 1 .. 5
    BY QueueNames
  <2>2. CASE AddRunner
    BY <2>1, <2>2, QueueNames DEF AddRunner, RunnerStates
  <2>3. CASE StartProducer
    BY <2>1, <2>3, QueueNames DEF StartProducer, RunnerStates
  <2>4. CASE StartConsumer
    BY <2>1, <2>4, QueueNames DEF StartConsumer, RunnerStates
  <2> QED
    BY <1>3, <2>2, <2>3, <2>4 DEF OnStart
<1>4. CASE OnStop
  <2>1. CASE BeginStop
    BY <2>1, QueueNames, FewRunners DEF BeginStop
  <2>2. CASE StopNext
    BY <2>2, QueueNames DEF StopNext
  <2>3. CASE WaitAll
    BY <2>3 DEF WaitAll
  <2> QED
    BY <1>4, <2>1, <2>2, <2>3 DEF OnStop
<1>5. CASE Exit
  BY <1>5, QueueNames, ProcessorAssumption DEF Exit, Phases, RunnerStates
<1> QED
  BY <1>1, <1>2, <1>3, <1>4, <1>5

LEMMA TypeStep ==
  ASSUME TypeOK, RowInv, [Next]_vars
  PROVE  TypeOK'
<1>1. CASE UNCHANGED vars
  BY <1>1 DEF vars, dataVars, itemVars, startVars, stopVars, history, TypeOK
<1>2. ASSUME NEW row \in retryRows, RetryQueueListPending(row) PROVE TypeOK'
  <2>1. row.id \in Ids
    BY DEF TypeOK
  <2> QED
    BY <1>2, <2>1, ItemTypes
<1> QED
  BY <1>1, <1>2, ItemTypes, ServiceTypes DEF Next, Runner

(***************************************************************************)
(* Places and attempts                                                     *)
(***************************************************************************)
LEMMA RowStep ==
  ASSUME TypeOK, RowInv, [Next]_vars
  PROVE  RowInv'
<1>1. CASE retryRows' \subseteq retryRows
  BY <1>1 DEF RowInv
<1>2. ASSUME NEW i \in Ids, SendToRetryQueue(i) PROVE RowInv'
  <2>1. /\ RetryRow(i).id = i
        /\ RetryRow(i).exhausted <=> RetryRow(i).number >= MaxRetries
    BY RowType
  <2>2. \/ retryRows' = {row \in retryRows : row.id # i} \cup {RetryRow(i)}
        \/ retryRows' = retryRows
    BY <1>2 DEF SendToRetryQueue
  <2> QED
    BY <2>1, <2>2 DEF RowInv
<1>3. \/ retryRows' \subseteq retryRows
      \/ \E i \in Ids : SendToRetryQueue(i)
  BY DEF Next, vars, dataVars, Runner, ListPending, Halt, Finish, Drain, CancelRunner,
     RetryQueueListPending, Enqueue, Take, ProcessItem, BeginProcessItem, LbmSucceeds,
     LbmFails, RetryQueueProgressRelease, OnStart, AddRunner, StartProducer, StartConsumer, OnStop,
     BeginStop, StopNext, WaitAll, Exit
<1> QED
  BY <1>1, <1>2, <1>3

\* What the invariant says of item i depends on nothing else.
SameItem(i) ==
  /\ \A q \in PlainQueues : i \in stored'[q] <=> i \in stored[q]
  /\ {row \in retryRows' : row.id = i} = {row \in retryRows : row.id = i}
  /\ i \in lost' <=> i \in lost
  /\ i \in handled' <=> i \in handled
  /\ i \in unreleased' <=> i \in unreleased
  /\ phase'[i] = phase[i]
  /\ retryNumber'[i] = retryNumber[i]
  /\ attempts'[i] = attempts[i]

ItemInv(i) == PlaceInv(i) /\ AttemptInv(i)

LEMMA SameItemStep ==
  ASSUME NEW i, ItemInv(i), SameItem(i)
  PROVE  ItemInv(i)'
<1>1. /\ InStore(i)' <=> InStore(i)
      /\ InMemory(i)' <=> InMemory(i)
      /\ InRetryQueue(i)' <=> InRetryQueue(i)
  BY DEF SameItem, InStore, InMemory, InRetryQueue
<1>2. PlaceInv(i)'
  BY <1>1 DEF SameItem, ItemInv, PlaceInv
<1>3. AttemptInv(i)'
  BY DEF SameItem, ItemInv, AttemptInv
<1> QED
  BY <1>2, <1>3 DEF ItemInv

\* Listing takes an item out of its queue into memory.
LEMMA ListStep ==
  ASSUME IInv, NEW i \in Ids, NEW j \in Ids,
         \/ \E q \in Queues : ListPending(q, j)
         \/ \E row \in retryRows : row.id = j /\ RetryQueueListPending(row)
  PROVE  ItemInv(i)'
<1> USE DEF IInv, ItemInv, dataVars, itemVars, startVars, stopVars, history, Move
<1>1. CASE i # j
  <2>1. SameItem(i)
    <3>1. ASSUME NEW q \in Queues, ListPending(q, j) PROVE SameItem(i)
      BY <1>1, <3>1 DEF TypeOK, SameItem, ListPending, Receive
    <3>2. ASSUME NEW row \in retryRows, row.id = j, RetryQueueListPending(row)
          PROVE  SameItem(i)
      <4>1. {r \in retryRows' : r.id = i} = {r \in retryRows : r.id = i}
        BY <1>1, <3>2 DEF RetryQueueListPending
      <4>2. /\ phase'[i] = phase[i] /\ retryNumber'[i] = retryNumber[i]
            /\ UNCHANGED <<stored, lost, handled, unreleased, attempts>>
        BY <1>1, <3>2 DEF TypeOK, RetryQueueListPending, Receive
      <4> QED
        BY <4>1, <4>2 DEF SameItem
    <3> QED
      BY <3>1, <3>2
  <2> QED
    BY <2>1, SameItemStep
<1>2. ASSUME NEW q \in PlainQueues, ListPending(q, i) PROVE ItemInv(i)'
  <2>1. InStore(i) /\ i \notin handled \ unreleased
    BY <1>2 DEF ListPending, InStore, PlaceInv
  <2>2. /\ ~InStore(i)' /\ ~InRetryQueue(i)' /\ phase'[i] = "batch" /\ i \notin lost'
        /\ UNCHANGED <<handled, unreleased>>
    <3>1. ~InStore(i)'
      <4>1. \A r \in PlainQueues : i \in stored[r] => r = q
        BY <1>2 DEF ListPending, PlaceInv
      <4>2. stored' = [stored EXCEPT ![q] = @ \ {i}]
        BY <1>2 DEF ListPending
      <4> QED
        BY <4>1, <4>2 DEF InStore, TypeOK
    <3>2. ~InRetryQueue(i)' /\ i \notin lost' /\ UNCHANGED <<handled, unreleased>>
      BY <1>2, <2>1 DEF ListPending, PlaceInv, InRetryQueue
    <3>3. phase'[i] = "batch"
      BY <1>2 DEF ListPending, Receive, TypeOK
    <3> QED
      BY <3>1, <3>2, <3>3
  <2>3. PlaceInv(i)'
    BY <2>1, <2>2 DEF PlaceInv, InStore, InMemory
  <2>4. AttemptInv(i)'
    <3>1. /\ attempts'[i] = 0 /\ retryNumber'[i] = -1 /\ phase'[i] = "batch"
          /\ \A row \in retryRows' : row.id # i
      BY <1>2, <2>2 DEF ListPending, Receive, TypeOK, InRetryQueue
    <3> QED
      BY <3>1, ProcessorAssumption DEF AttemptInv
  <2> QED
    BY <2>3, <2>4
<1>3. ASSUME NEW row \in retryRows, row.id = i, RetryQueueListPending(row)
      PROVE  ItemInv(i)'
  <2>1. InRetryQueue(i) /\ i \notin handled \ unreleased
    BY <1>3 DEF InRetryQueue, PlaceInv
  <2>2. /\ ~InStore(i)' /\ ~InRetryQueue(i)' /\ phase'[i] = "batch" /\ i \notin lost'
        /\ UNCHANGED <<handled, unreleased>>
    <3>1. ~InRetryQueue(i)'
      BY <1>3 DEF RetryQueueListPending, RowInv, InRetryQueue
    <3>2. ~InStore(i)' /\ i \notin lost' /\ UNCHANGED <<handled, unreleased>>
      BY <1>3, <2>1 DEF RetryQueueListPending, PlaceInv, InStore
    <3>3. phase'[i] = "batch"
      BY <1>3 DEF RetryQueueListPending, Receive, TypeOK
    <3> QED
      BY <3>1, <3>2, <3>3
  <2>3. PlaceInv(i)'
    BY <2>1, <2>2 DEF PlaceInv, InStore, InMemory
  <2>4. AttemptInv(i)'
    <3>1. /\ attempts'[i] = attempts[i] /\ retryNumber'[i] = row.number
          /\ phase'[i] = "batch"
          /\ \A r \in retryRows' : r.id # i
      BY <1>3, <2>2 DEF RetryQueueListPending, Receive, TypeOK, InRetryQueue
    <3>2. attempts[i] <= row.number + 1 /\ attempts[i] <= MaxRetries + 1
      BY <1>3 DEF AttemptInv
    <3> QED
      BY <3>1, <3>2 DEF AttemptInv
  <2> QED
    BY <2>3, <2>4
<1>4. \A q \in Queues : ListPending(q, i) => q \in PlainQueues
  BY DEF ListPending
<1> QED
  BY <1>1, <1>2, <1>3, <1>4

\* From the batch to the LBM, and from its failure to the retry queue, one
\* evaluation comes on each retry number.
LEMMA ItemStep ==
  ASSUME IInv, NEW i \in Ids, NEW j \in Ids, Enqueue(j) \/ Take(j) \/ ProcessItem(j)
  PROVE  ItemInv(i)'
<1> USE DEF IInv, ItemInv, dataVars, itemVars, startVars, stopVars, history, Move
<1>1. CASE i # j
  <2>1. CASE ~SendToRetryQueue(j)
    <3>1. SameItem(i)
      BY <1>1, <2>1 DEF TypeOK, SameItem, Enqueue, Take, ProcessItem, BeginProcessItem,
         LbmSucceeds, LbmFails, RetryQueueProgressRelease
    <3> QED
      BY <3>1, SameItemStep
  <2>2. CASE SendToRetryQueue(j)
    <3>1. RetryRow(j).id = j
      BY RowType
    <3>2. SameItem(i)
      BY <1>1, <2>2, <3>1 DEF TypeOK, SameItem, SendToRetryQueue
    <3> QED
      BY <3>2, SameItemStep
  <2> QED
    BY <2>1, <2>2
<1>2. CASE Enqueue(i) \/ Take(i) \/ BeginProcessItem(i) \/ LbmFails(i)
  <2>1. /\ InMemory(i)
        /\ phase[i] # "releasing"
        /\ phase'[i] \notin {"idle", "releasing"}
        /\ UNCHANGED <<stored, retryRows, lost, handled, unreleased, retryNumber>>
    BY <1>2 DEF Enqueue, Take, BeginProcessItem, LbmFails, InMemory, TypeOK
  <2>2. i \notin handled \ unreleased
    BY <2>1 DEF PlaceInv, InMemory
  <2>3. PlaceInv(i)'
    BY <2>1, <2>2 DEF PlaceInv, InStore, InRetryQueue, InMemory
  <2>4. \A row \in retryRows : row.id # i
    BY <2>1 DEF PlaceInv, InRetryQueue
  <2>5. AttemptInv(i)'
    <3>1. CASE Enqueue(i) \/ Take(i) \/ LbmFails(i)
      <4>1. /\ attempts'[i] = attempts[i] /\ retryNumber'[i] = retryNumber[i]
            /\ \/ phase[i] = "batch" /\ phase'[i] = "queued"
               \/ phase[i] = "queued" /\ phase'[i] = "taken"
               \/ phase[i] = "running" /\ phase'[i] = "failing"
        BY <3>1 DEF Enqueue, Take, LbmFails, TypeOK
      <4>2. \A row \in retryRows' : row.id # i
        BY <2>1, <2>4
      <4>3. attempts'[i] <= MaxRetries + 1
        BY <4>1 DEF AttemptInv
      <4>4. phase'[i] \in {"batch", "queued", "taken"} =>
              attempts'[i] <= retryNumber'[i] + 1
        BY <4>1 DEF AttemptInv
      <4>5. phase'[i] \in {"running", "releasing", "failing"} =>
              attempts'[i] <= retryNumber'[i] + 2
        BY <4>1 DEF AttemptInv
      <4>6. \A row \in retryRows' : row.id = i => attempts'[i] <= row.number + 1
        BY <4>2
      <4> QED
        BY <4>3, <4>4, <4>5, <4>6, Zenon DEF AttemptInv
    <3>2. CASE BeginProcessItem(i)
      <4>1. /\ attempts'[i] <= attempts[i] + 1 /\ attempts'[i] \in Nat
            /\ phase[i] = "taken" /\ phase'[i] = "running"
        <5>1. /\ phase \in [Ids -> Phases] /\ attempts \in [Ids -> 0 .. AttemptsCap]
              /\ attempts[i] \in Nat
          BY Numbers DEF TypeOK
        <5>2. /\ phase[i] = "taken" /\ phase' = [phase EXCEPT ![i] = "running"]
              /\ attempts' = [attempts EXCEPT ![i] =
                                IF attempts[i] < AttemptsCap THEN attempts[i] + 1
                                ELSE attempts[i]]
          BY <3>2 DEF BeginProcessItem
        <5> QED
          BY ONLY <5>1, <5>2
      <4>2. attempts[i] <= retryNumber[i] + 1 /\ retryNumber'[i] = retryNumber[i]
        BY <2>1, <4>1 DEF AttemptInv
      <4>3. attempts'[i] <= retryNumber'[i] + 2 /\ attempts'[i] <= MaxRetries + 1
        BY <4>1, <4>2, Numbers
      <4> QED
        BY <2>1, <2>4, <4>1, <4>3 DEF AttemptInv
    <3> QED
      BY <1>2, <3>1, <3>2
  <2> QED
    BY <2>3, <2>5
<1>3. CASE LbmSucceeds(i)
  <2>1. /\ InMemory(i) /\ phase'[i] \in {"idle", "releasing"}
        /\ i \in handled'
        /\ UNCHANGED <<stored, retryRows, lost, unreleased, retryNumber, attempts>>
        /\ phase[i] = "running"
    BY <1>3 DEF LbmSucceeds, InMemory, TypeOK
  <2>2. ~InStore(i) /\ ~InRetryQueue(i) /\ i \notin lost
    BY <2>1 DEF PlaceInv
  <2>3. PlaceInv(i)'
    BY <2>1, <2>2 DEF PlaceInv, InStore, InRetryQueue, InMemory
  <2>4. AttemptInv(i)'
    BY <2>1, <2>2 DEF AttemptInv, InRetryQueue
  <2> QED
    BY <2>3, <2>4
<1>4. CASE RetryQueueProgressRelease(i)
  <2>1. /\ InMemory(i) /\ phase[i] = "releasing"
        /\ \/ phase'[i] = "idle" /\ UNCHANGED unreleased
           \/ phase'[i] = "failing" /\ i \in unreleased'
        /\ UNCHANGED <<stored, retryRows, lost, handled, retryNumber, attempts>>
    BY <1>4 DEF RetryQueueProgressRelease, InMemory, TypeOK
  <2>2. ~InStore(i) /\ ~InRetryQueue(i) /\ i \notin lost
    BY <2>1 DEF PlaceInv
  <2>3. i \in handled
    BY <2>1 DEF PlaceInv
  <2>4. PlaceInv(i)'
    BY <2>1, <2>2, <2>3 DEF PlaceInv, InStore, InRetryQueue, InMemory
  <2>5. AttemptInv(i)'
    BY <2>1, <2>2 DEF AttemptInv, InRetryQueue
  <2> QED
    BY <2>4, <2>5
<1>5. CASE SendToRetryQueue(i)
  <2>1. /\ InMemory(i) /\ phase[i] = "failing" /\ phase'[i] = "idle"
        /\ UNCHANGED <<stored, handled, unreleased, retryNumber, attempts>>
        /\ \/ /\ retryRows' = {row \in retryRows : row.id # i} \cup {RetryRow(i)}
              /\ lost' = lost
           \/ retryRows' = retryRows /\ lost' = lost \cup {i}
    BY <1>5 DEF SendToRetryQueue, InMemory, TypeOK
  <2>2. ~InStore(i) /\ ~InRetryQueue(i) /\ i \notin lost /\ i \notin handled \ unreleased
    BY <2>1 DEF PlaceInv
  <2>3. RetryRow(i).id = i /\ RetryRow(i).number = retryNumber[i] + 1
    BY RowType
  <2>4. PlaceInv(i)'
    BY <2>1, <2>2, <2>3 DEF PlaceInv, InStore, InRetryQueue, InMemory
  <2>5. attempts[i] <= retryNumber[i] + 2 /\ attempts[i] <= MaxRetries + 1
    BY <2>1 DEF AttemptInv
  <2>6. \A row \in retryRows' : row.id = i => row.number = retryNumber[i] + 1
    BY <2>1, <2>2, <2>3 DEF InRetryQueue
  <2>7. \A row \in retryRows' : row.id = i => attempts'[i] <= row.number + 1
    BY <2>1, <2>5, <2>6, Numbers
  <2>8. AttemptInv(i)'
    BY <2>1, <2>5, <2>7 DEF AttemptInv
  <2> QED
    BY <2>4, <2>8
<1> QED
  BY <1>1, <1>2, <1>3, <1>4, <1>5 DEF ProcessItem

\* A runner that ends moves what it had queued, and nothing else.
LEMMA EndStep ==
  ASSUME IInv, NEW i \in Ids, NEW q \in Queues, Halt(q) \/ Finish(q)
  PROVE  ItemInv(i)'
<1> USE DEF IInv, ItemInv, dataVars, itemVars, startVars, stopVars, history
<1>1. /\ UNCHANGED <<retryRows, retryNumber, attempts, handled, unreleased>>
      /\ phase'[i] = IF i \in Queued(q) THEN "idle" ELSE phase[i]
      /\ \/ /\ stored' = [stored EXCEPT !["RestartQueue"] = @ \cup Queued(q)]
            /\ lost' = lost
         \/ stored' = stored /\ lost' = lost \cup Queued(q)
  BY DEF Halt, Finish, Drain, Save
<1>2. CASE i \notin Queued(q)
  <2>1. SameItem(i)
    BY <1>1, <1>2 DEF SameItem, TypeOK
  <2> QED
    BY <2>1, SameItemStep
<1>3. CASE i \in Queued(q)
  <2>1. /\ phase[i] = "queued" /\ InMemory(i) /\ phase'[i] = "idle"
        /\ ~InStore(i) /\ ~InRetryQueue(i) /\ i \notin lost
        /\ i \notin handled \ unreleased
    BY <1>1, <1>3 DEF Queued, InMemory, PlaceInv
  <2>2. ~InRetryQueue(i)' /\ ~InMemory(i)'
    BY <1>1, <2>1 DEF InRetryQueue, InMemory
  <2>3. AttemptInv(i)'
    BY <1>1, <2>1 DEF AttemptInv, InRetryQueue
  <2>4. CASE /\ stored' = [stored EXCEPT !["RestartQueue"] = @ \cup Queued(q)]
             /\ lost' = lost
    <3>1. \A r \in PlainQueues : i \in stored'[r] <=> r = "RestartQueue"
      BY <1>3, <2>1, <2>4, QueueNames DEF InStore, TypeOK
    <3>2. InStore(i)'
      BY <3>1, QueueNames DEF InStore
    <3> QED
      BY <1>1, <2>1, <2>2, <2>3, <2>4, <3>1, <3>2 DEF PlaceInv
  <2>5. CASE stored' = stored /\ lost' = lost \cup Queued(q)
    <3>1. ~InStore(i)' /\ i \in lost'
      BY <1>3, <2>1, <2>5 DEF InStore
    <3> QED
      BY <1>1, <2>1, <2>2, <2>3, <3>1 DEF PlaceInv, InStore
  <2> QED
    BY <1>1, <2>4, <2>5
<1> QED
  BY <1>2, <1>3

\* The exit of the process loses what was in memory.
LEMMA ExitStep ==
  ASSUME IInv, NEW i \in Ids, Exit
  PROVE  ItemInv(i)'
<1> USE DEF IInv, ItemInv, dataVars, history
<1>1. /\ UNCHANGED <<stored, retryRows, retryNumber, attempts, handled, unreleased>>
      /\ phase'[i] = "idle"
      /\ i \in lost' <=> i \in lost \/ InMemory(i)
  BY DEF Exit, InMemory
<1>2. PlaceInv(i)'
  BY <1>1 DEF PlaceInv, InStore, InRetryQueue, InMemory
<1>3. AttemptInv(i)'
  BY <1>1 DEF AttemptInv
<1> QED
  BY <1>2, <1>3

\* Start and stop of the service touch no item.
LEMMA ServiceStep ==
  ASSUME IInv, NEW i \in Ids,
         \/ UNCHANGED vars \/ OnStart \/ OnStop
         \/ \E q \in Queues : CancelRunner(q)
  PROVE  ItemInv(i)'
<1>1. SameItem(i)
  BY DEF vars, dataVars, itemVars, startVars, stopVars, history, OnStart, AddRunner,
     StartProducer, StartConsumer, OnStop, BeginStop, StopNext, WaitAll, CancelRunner, SameItem
<1> QED
  BY <1>1, SameItemStep DEF IInv, ItemInv

LEMMA Invariance == Spec => []IInv
<1>1. ASSUME IInv, [Next]_vars PROVE IInv'
  <2>1. TypeOK' /\ RowInv'
    BY <1>1, TypeStep, RowStep DEF IInv
  <2>2. ASSUME NEW i \in Ids PROVE ItemInv(i)'
    <3>1. ASSUME NEW row \in retryRows, RetryQueueListPending(row) PROVE ItemInv(i)'
      <4>1. row.id \in Ids
        BY <1>1 DEF IInv, TypeOK
      <4> QED
        BY <1>1, <3>1, <4>1, ListStep
    <3> QED
      BY <1>1, <3>1, ListStep, ItemStep, EndStep, ExitStep, ServiceStep
         DEF Next, Runner
  <2> QED
    BY <2>1, <2>2 DEF IInv, ItemInv
<1> QED
  BY <1>1, InitIInv, PTL DEF Spec

(***************************************************************************)
(* Theorems                                                                *)
(***************************************************************************)
\* Types: in particular retry numbers stay below MaxRetries.
THEOREM TypeCorrect == Spec => []TypeOK
<1>1. IInv => TypeOK
  BY DEF IInv
<1> QED
  BY <1>1, Invariance, PTL

\* An item the LBM has handled waits nowhere and is evaluated no more, across
\* stops, crashes and restarts, unless its release call threw.
THEOREM HandledIsFinal == Spec => []HandledOnce
<1>1. ASSUME IInv, NEW i \in handled \ unreleased
      PROVE  ~Waiting(i) /\ phase[i] \in {"idle", "releasing"}
  <2>1. PlaceInv(i)
    BY <1>1 DEF IInv, TypeOK
  <2>2. ~InStore(i) /\ ~InRetryQueue(i) /\ phase[i] \in {"idle", "releasing"}
    BY <2>1 DEF PlaceInv
  <2> QED
    BY <2>2 DEF Waiting, RowsOf, InStore, InRetryQueue
<1>2. IInv => HandledOnce
  BY <1>1 DEF HandledOnce
<1> QED
  BY <1>2, Invariance, PTL

\* No item is evaluated more than once and MaxRetries times more.
THEOREM AttemptsLimited == Spec => []AttemptsBounded
<1>1. IInv => AttemptsBounded
  BY DEF IInv, AttemptInv, AttemptsBounded
<1> QED
  BY <1>1, Invariance, PTL

\* A set whose elements are all equal has at most one element.
LEMMA AtMostOne ==
  ASSUME NEW S, \A x, y \in S : x = y
  PROVE  Cardinality(S) = IF S = {} THEN 0 ELSE 1
<1>1. CASE S = {}
  BY <1>1, FS_EmptySet
<1>2. CASE S # {}
  <2>1. PICK x \in S : S = {x}
    BY <1>2
  <2> QED
    BY <1>2, <2>1, FS_Singleton
<1> QED
  BY <1>1, <1>2

\* No stop, crash or failed call duplicates an item, or forgets one before it is
\* handled.
THEOREM ItemsInOnePlace == Spec => []OnePlace
<1>1. ASSUME IInv, NEW i \in Ids
      PROVE  Places(i) <= 1 /\ (i \notin handled => Places(i) = 1)
  <2> DEFINE stores == {q \in PlainQueues : i \in stored[q]}
             rows == RowsOf(i)
  <2>1. PlaceInv(i) /\ RowInv
    BY <1>1 DEF IInv
  <2>2. Cardinality(stores) = IF InStore(i) THEN 1 ELSE 0
    <3>1. \A q, r \in stores : q = r
      BY <2>1 DEF PlaceInv
    <3>2. stores = {} <=> ~InStore(i)
      BY DEF InStore
    <3> HIDE DEF stores
    <3> QED
      BY <3>1, <3>2, AtMostOne
  <2>3. Cardinality(rows) = IF InRetryQueue(i) THEN 1 ELSE 0
    <3>1. \A r, s \in rows : r = s
      BY <2>1 DEF RowInv, RowsOf
    <3>2. rows = {} <=> ~InRetryQueue(i)
      BY DEF InRetryQueue, RowsOf
    <3> HIDE DEF rows
    <3> QED
      BY <3>1, <3>2, AtMostOne
  <2>4. Places(i) = (IF InStore(i) THEN 1 ELSE 0) + (IF InRetryQueue(i) THEN 1 ELSE 0)
                    + (IF InMemory(i) THEN 1 ELSE 0) + (IF i \in lost THEN 1 ELSE 0)
    BY <2>2, <2>3 DEF Places, InMemory
  <2> QED
    BY <2>1, <2>4 DEF PlaceInv
<1>2. IInv => OnePlace
  BY <1>1 DEF OnePlace
<1> QED
  BY <1>2, Invariance, PTL

(***************************************************************************)
(* As long as no call other than a release fails and the process is not    *)
(* stopped, nothing halts or cancels a runner.                             *)
(***************************************************************************)
Undisturbed == Faults \subseteq {"release"} /\ MaxExits = 0

UpInv == onStop = "no" /\ \A q \in Queues : runner[q] \in {"absent", "added", "half", "up"}

Retrying(i) == InRetryQueue(i) \/ (InMemory(i) /\ retryNumber[i] > -1)
RetryingInv == \A d \in held : \E i \in Ids : Discriminator[i] = d /\ Retrying(i)

LEMMA StaysUp ==
  ASSUME Undisturbed, IInv, UpInv, [Next]_vars
  PROVE  UpInv' /\ ~\E q \in Queues : Halt(q) \/ Finish(q) \/ CancelRunner(q)
<1> USE DEF Undisturbed, IInv, UpInv, TypeOK, itemVars, dataVars, startVars, stopVars,
            history, Move
<1>1. exits = 0
  OBVIOUS
<1>2. ~\E q \in Queues : Halt(q) \/ Finish(q) \/ CancelRunner(q)
  BY DEF Halt, Finish, Drain, CancelRunner
<1>3. ~BeginStop /\ ~StopNext /\ ~WaitAll /\ ~Exit
  BY <1>1, ProcessorAssumption DEF BeginStop, StopNext, WaitAll, Exit
<1>4. CASE OnStart
  <2>1. AddRunner => UpInv'
    BY QueueNames DEF AddRunner
  <2>2. StartProducer => UpInv'
    BY QueueNames DEF StartProducer
  <2>3. StartConsumer => UpInv'
    BY QueueNames DEF StartConsumer
  <2> QED
    BY <1>2, <1>4, <2>1, <2>2, <2>3 DEF OnStart
<1>5. CASE \E q \in Queues, i \in Ids : ListPending(q, i)
  BY <1>2, <1>5 DEF ListPending
<1>6. CASE \E row \in retryRows : RetryQueueListPending(row)
  BY <1>2, <1>6 DEF RetryQueueListPending
<1>7. CASE \E i \in Ids : Enqueue(i) \/ Take(i) \/ ProcessItem(i)
  BY <1>2, <1>7 DEF Enqueue, Take, ProcessItem, BeginProcessItem, LbmSucceeds, LbmFails,
     RetryQueueProgressRelease, SendToRetryQueue
<1>8. CASE UNCHANGED vars
  BY <1>2, <1>8 DEF vars
<1> QED
  BY <1>2, <1>3, <1>4, <1>5, <1>6, <1>7, <1>8 DEF Next, Runner, OnStop

\* An item that is being retried goes on being retried until its discriminator
\* is released.
LEMMA RetryingStep ==
  ASSUME Undisturbed, IInv, UpInv, [Next]_vars, NEW i \in Ids, Retrying(i),
         Discriminator[i] \in held'
  PROVE  Retrying(i)'
<1> USE DEF Undisturbed, IInv, TypeOK, itemVars, dataVars, startVars, stopVars, history,
            Move
<1> USE DEF Retrying, InRetryQueue, InMemory
<1>1. ASSUME NEW q \in Queues, NEW j \in Ids, ListPending(q, j) PROVE Retrying(i)'
  <2>1. i # j
    BY <1>1 DEF ListPending, PlaceInv, InStore
  <2> QED
    BY <1>1, <2>1 DEF ListPending, Receive
<1>2. ASSUME NEW row \in retryRows, RetryQueueListPending(row) PROVE Retrying(i)'
  <2>1. row.id \in Ids /\ row.number > -1
    OBVIOUS
  <2>2. CASE row.id = i
    BY <1>2, <2>1, <2>2 DEF RetryQueueListPending, Receive
  <2>3. CASE row.id # i
    BY <1>2, <2>1, <2>3 DEF RetryQueueListPending, Receive
  <2> QED
    BY <2>2, <2>3
<1>3. ASSUME NEW j \in Ids, Enqueue(j) \/ Take(j) \/ BeginProcessItem(j) \/ LbmFails(j)
      PROVE  Retrying(i)'
  BY <1>3 DEF Enqueue, Take, BeginProcessItem, LbmFails
<1>4. ASSUME NEW j \in Ids, LbmSucceeds(j) PROVE Retrying(i)'
  <2>1. CASE j # i
    BY <1>4, <2>1 DEF LbmSucceeds
  <2>2. CASE j = i
    <3>1. phase[i] = "running"
      BY <1>4, <2>2 DEF LbmSucceeds
    <3>2. retryNumber[i] > -1
      BY <3>1 DEF PlaceInv
    <3> QED
      BY <1>4, <2>2, <3>2 DEF LbmSucceeds
  <2> QED
    BY <2>1, <2>2
<1>5. ASSUME NEW j \in Ids, RetryQueueProgressRelease(j) PROVE Retrying(i)'
  BY <1>5 DEF RetryQueueProgressRelease
<1>6. ASSUME NEW j \in Ids, SendToRetryQueue(j) PROVE Retrying(i)'
  <2>1. retryRows' = {row \in retryRows : row.id # j} \cup {RetryRow(j)}
    BY <1>6 DEF SendToRetryQueue
  <2>2. RetryRow(j).id = j
    BY <1>6, RowType
  <2>3. CASE j = i
    BY <2>1, <2>2, <2>3
  <2>4. CASE j # i
    BY <1>6, <2>1, <2>4 DEF SendToRetryQueue
  <2> QED
    BY <2>3, <2>4
<1>7. OnStart => Retrying(i)'
  BY DEF OnStart, AddRunner, StartProducer, StartConsumer
<1>8. ~OnStop /\ ~Exit
  BY ProcessorAssumption DEF UpInv, OnStop, BeginStop, StopNext, WaitAll, Exit
<1>9. UNCHANGED vars => Retrying(i)'
  BY DEF vars
<1> QED
  BY <1>1, <1>2, <1>3, <1>4, <1>5, <1>6, <1>7, <1>8, <1>9, StaysUp
     DEF Next, Runner, ProcessItem

\* A discriminator that becomes held is that of an item just merged.
LEMMA HeldStep ==
  ASSUME Undisturbed, IInv, UpInv, RetryingInv, [Next]_vars
  PROVE  RetryingInv'
<1>1. SUFFICES ASSUME NEW d \in held'
               PROVE  \E i \in Ids : Discriminator[i] = d /\ Retrying(i)'
  BY DEF RetryingInv
<1>2. CASE d \in held
  <2>1. PICK i \in Ids : Discriminator[i] = d /\ Retrying(i)
    BY <1>2 DEF RetryingInv
  <2> QED
    BY <1>1, <2>1, RetryingStep
<1>3. CASE d \notin held
  <2>1. \E i \in Ids : SendToRetryQueue(i)
    <3> USE DEF dataVars, itemVars, startVars, stopVars, history
    <3>1. UNCHANGED vars \/ OnStart \/ OnStop \/ Exit => held' = held
      BY DEF vars, OnStart, AddRunner, StartProducer, StartConsumer, OnStop, BeginStop,
         StopNext, WaitAll, Exit
    <3>2. ASSUME NEW q \in Queues, Runner(q) PROVE held' = held
      BY <3>2 DEF Runner, ListPending, Halt, Finish, Drain, CancelRunner
    <3>3. ASSUME NEW row \in retryRows, RetryQueueListPending(row) PROVE held' = held
      BY <3>3 DEF RetryQueueListPending
    <3>4. ASSUME NEW i \in Ids, Enqueue(i) \/ Take(i) \/ ProcessItem(i),
                 ~SendToRetryQueue(i)
          PROVE  held' \subseteq held
      BY <3>4 DEF Enqueue, Take, ProcessItem, BeginProcessItem, LbmSucceeds, LbmFails,
         RetryQueueProgressRelease
    <3> QED
      BY <1>1, <1>3, <3>1, <3>2, <3>3, <3>4 DEF Next
  <2>2. PICK i \in Ids : SendToRetryQueue(i) /\ Discriminator[i] = d
    BY <1>1, <1>3, <2>1 DEF SendToRetryQueue
  <2>3. RetryRow(i).id = i
    BY <2>2, RowType DEF IInv
  <2>4. RetryRow(i) \in retryRows'
    BY <1>1, <1>3, <2>2 DEF SendToRetryQueue
  <2>5. InRetryQueue(i)'
    BY <2>3, <2>4 DEF InRetryQueue
  <2> QED
    BY <2>2, <2>5 DEF Retrying
<1> QED
  BY <1>2, <1>3

\* No discriminator is held for nothing, as long as no listing or merge fails and
\* the process is not stopped.
THEOREM HeldOnlyForRetries == Undisturbed /\ Spec => []HeldIsRetried
<1>1. Init => UpInv /\ RetryingInv
  BY DEF Init, UpInv, RetryingInv
<1>2. Undisturbed /\ IInv /\ UpInv /\ RetryingInv /\ [Next]_vars
      => Undisturbed' /\ UpInv' /\ RetryingInv'
  BY StaysUp, HeldStep DEF Undisturbed
<1>3. RetryingInv => HeldIsRetried
  BY DEF RetryingInv, Retrying, InRetryQueue, InMemory, HeldIsRetried, RowsOf
<1> QED
  BY <1>1, <1>2, <1>3, Invariance, PTL DEF Spec

(***************************************************************************)
(* A stop that succeeded                                                   *)
(***************************************************************************)
\* Only a runner whose producer was started, and has not ended, has items queued.
Active == {"half", "up", "cancelled", "snapped"}
QueueInv(q) == runner[q] \notin Active => Queued(q) = {}

\* OnStart adds the runners in order; OnStop calls Stop on no more of them than
\* there were when its enumerator was created.
StopInv ==
  /\ \A q \in Runners : Rank[q] <= next
  /\ onStop # "no" => stopNext <= seen + 1 /\ seen <= Cardinality(Runners)
  /\ onStop = "done" => \A q \in Stopping : runner[q] = "stopped"

LEMMA RankIs ==
  /\ \A q \in Queues : Rank[q] \in 1 .. 4 /\ QueueOrder[Rank[q]] = q
  /\ \A n \in 1 .. 4 : Rank[QueueOrder[n]] = n
<1>1. DOMAIN QueueOrder = 1 .. 4
  BY DEF QueueOrder
<1>2. \A q \in Queues : Rank[q] \in 1 .. 4 /\ QueueOrder[Rank[q]] = q
  BY <1>1 DEF Rank, Queues
<1>3. \A m, n \in 1 .. 4 : QueueOrder[m] = QueueOrder[n] => m = n
  <2>1. /\ QueueOrder[1] = "RestartQueue" /\ QueueOrder[2] = "ImmediateQueue"
        /\ QueueOrder[3] = "ScheduledQueue" /\ QueueOrder[4] = "RetryQueue"
    BY DEF QueueOrder
  <2>2. \A n \in 1 .. 4 : n = 1 \/ n = 2 \/ n = 3 \/ n = 4
    OBVIOUS
  <2> QED
    BY <2>1, <2>2
<1>4. \A n \in 1 .. 4 : QueueOrder[n] \in Queues
  BY QueueNames
<1> QED
  BY <1>2, <1>3, <1>4

LEMMA QueueInvStep ==
  ASSUME TypeOK, NEW q \in Queues, QueueInv(q), [Next]_vars
  PROVE  QueueInv(q)'
<1> USE DEF Active, dataVars, itemVars, startVars, stopVars, history, Move, QueueInv
<1>1. ASSUME runner'[q] = runner[q], Queued(q)' \subseteq Queued(q)
      PROVE  QueueInv(q)'
  BY <1>1
<1>2. ASSUME runner' = runner,
             NEW j \in Ids, phase'[j] # "queued",
             \A i \in Ids \ {j} : phase'[i] = phase[i] /\ holder'[i] = holder[i]
      PROVE  QueueInv(q)'
  <2>1. Queued(q)' \subseteq Queued(q)
    BY <1>2 DEF Queued
  <2> QED
    BY <1>1, <1>2, <2>1
<1>3. ASSUME NEW p \in Queues, NEW j \in Ids, ListPending(p, j) PROVE QueueInv(q)'
  BY <1>2, <1>3 DEF ListPending, Receive, TypeOK
<1>4. ASSUME NEW row \in retryRows, RetryQueueListPending(row) PROVE QueueInv(q)'
  <2>1. row.id \in Ids
    BY DEF TypeOK
  <2> QED
    BY <1>2, <1>4, <2>1 DEF RetryQueueListPending, Receive, TypeOK
<1>5. ASSUME NEW j \in Ids, Take(j) \/ ProcessItem(j) PROVE QueueInv(q)'
  BY <1>2, <1>5 DEF Take, ProcessItem, BeginProcessItem, LbmSucceeds, LbmFails,
     RetryQueueProgressRelease, SendToRetryQueue, TypeOK
<1>6. ASSUME NEW j \in Ids, Enqueue(j) PROVE QueueInv(q)'
  <2>1. CASE holder[j] = q
    BY <1>6, <2>1 DEF Enqueue
  <2>2. CASE holder[j] # q
    <3>1. Queued(q)' \subseteq Queued(q)
      BY <1>6, <2>2 DEF Enqueue, Queued, TypeOK
    <3> QED
      BY <1>1, <1>6, <3>1 DEF Enqueue
  <2> QED
    BY <2>1, <2>2
<1>7. ASSUME NEW p \in Queues, Halt(p) \/ Finish(p) PROVE QueueInv(q)'
  <2>1. /\ phase' = [i \in Ids |-> IF i \in Queued(p) THEN "idle" ELSE phase[i]]
        /\ holder' = holder
        /\ \A r \in Queues \ {p} : runner'[r] = runner[r]
    BY <1>7 DEF Halt, Finish, Drain, Save, TypeOK
  <2>2. CASE p = q
    BY <2>1, <2>2 DEF Queued
  <2>3. CASE p # q
    <3>1. Queued(q)' \subseteq Queued(q)
      BY <2>1 DEF Queued
    <3> QED
      BY <1>1, <2>1, <2>3, <3>1
  <2> QED
    BY <2>2, <2>3
<1>8. CASE OnStart \/ \E p \in Queues : CancelRunner(p)
  <2>1. Queued(q)' = Queued(q)
    BY <1>8 DEF OnStart, AddRunner, StartProducer, StartConsumer, CancelRunner, Queued
  <2>2. runner[q] \in Active => runner'[q] \in Active
    BY <1>8, CancelledIs DEF OnStart, AddRunner, StartProducer, StartConsumer, CancelRunner,
       TypeOK
  <2> QED
    BY <2>1, <2>2
<1>9. CASE OnStop
  BY <1>9 DEF OnStop, BeginStop, StopNext, WaitAll, Queued
<1>10. CASE Exit
  BY <1>10 DEF Exit, Queued
<1>11. CASE UNCHANGED vars
  BY <1>11 DEF vars, Queued
<1> QED
  BY <1>3, <1>4, <1>5, <1>6, <1>7, <1>8, <1>9, <1>10, <1>11 DEF Next, Runner

\* No runner leaves _runners, and only OnStart adds one, at the end.
LEMMA RunnersStep ==
  ASSUME TypeOK, StopInv, [Next]_vars, ~Exit
  PROVE  \/ Runners' = Runners /\ next' \in {next, next + 1}
         \/ /\ next \in 1 .. 4 /\ next' = next
            /\ QueueOrder[next] \notin Runners
            /\ Runners' = Runners \cup {QueueOrder[next]}
            /\ UNCHANGED stopVars
            /\ \A q \in Runners : runner'[q] = runner[q]
<1> USE DEF TypeOK, dataVars, itemVars, startVars, stopVars, history
<1>1. ASSUME runner' = runner, next' = next
      PROVE  Runners' = Runners /\ next' \in {next, next + 1}
  BY <1>1 DEF Runners
<1>2. CASE AddRunner
  <2>1. next \in 1 .. 4 /\ QueueOrder[next] \in Queues
    BY <1>2, QueueNames DEF AddRunner
  <2>2. CASE QueueOrder[next] \in Enabled
    <3>1. runner' = [runner EXCEPT ![QueueOrder[next]] = "added"] /\ next' = next
      BY <1>2, <2>2 DEF AddRunner
    <3>2. Runners' = Runners \cup {QueueOrder[next]}
      BY <2>1, <3>1 DEF Runners
    <3>3. QueueOrder[next] \notin Runners
      BY <1>2 DEF AddRunner, Runners
    <3>4. \A q \in Runners : runner'[q] = runner[q]
      BY <3>1, <3>3 DEF Runners
    <3> QED
      BY <1>2, <2>1, <3>1, <3>2, <3>3, <3>4 DEF AddRunner
  <2>3. CASE QueueOrder[next] \notin Enabled
    BY <1>2, <2>3 DEF AddRunner, Runners
  <2> QED
    BY <2>2, <2>3
<1>3. CASE StartProducer \/ StartConsumer
  BY <1>3, QueueNames DEF StartProducer, StartConsumer, Runners
<1>4. ASSUME NEW q \in Queues, Halt(q) \/ Finish(q) \/ CancelRunner(q)
      PROVE  Runners' = Runners /\ next' \in {next, next + 1}
  <2>1. /\ next' = next
        /\ runner[q] # "absent" /\ runner'[q] # "absent"
        /\ \A r \in Queues \ {q} : runner'[r] = runner[r]
    BY <1>4, CancelledIs DEF Halt, Finish, Drain, CancelRunner
  <2> QED
    BY <2>1 DEF Runners
<1>5. ASSUME \/ \E q \in Queues, i \in Ids : ListPending(q, i)
             \/ \E row \in retryRows : RetryQueueListPending(row)
             \/ \E i \in Ids : Enqueue(i) \/ Take(i) \/ ProcessItem(i)
             \/ OnStop \/ UNCHANGED vars
      PROVE  runner' = runner /\ next' = next
  BY <1>5 DEF ListPending, RetryQueueListPending, Enqueue, Take, ProcessItem,
     BeginProcessItem, LbmSucceeds, LbmFails, RetryQueueProgressRelease,
     SendToRetryQueue, OnStop, BeginStop, StopNext, WaitAll, vars
<1> QED
  BY <1>1, <1>2, <1>3, <1>4, <1>5 DEF Next, Runner, OnStart

\* The n-th runner stays the n-th; one that is added comes after all that OnStop
\* has called Stop on.
LEMMA StoppingGrows ==
  ASSUME TypeOK, StopInv, onStop # "no", onStop' # "no", stopNext' = stopNext,
         \/ Runners' = Runners
         \/ /\ next \in 1 .. 4 /\ QueueOrder[next] \notin Runners
            /\ Runners' = Runners \cup {QueueOrder[next]}
  PROVE  Stopping' \subseteq Stopping
<1> DEFINE First(q) == {p \in Runners : Rank[p] <= Rank[q]}
           FirstNow(q) == {p \in Runners' : Rank[p] <= Rank[q]}
<1>1. Runners \subseteq Queues /\ Runners' \subseteq Queues
  BY DEF Runners
<1>2. \A q \in Stopping' : q \in Runners' /\ Cardinality(FirstNow(q)) < stopNext
  BY DEF Stopping, Rank
<1>3. ASSUME NEW q \in Runners PROVE Cardinality(First(q)) <= Cardinality(FirstNow(q))
  <2>1. First(q) \subseteq FirstNow(q) /\ FirstNow(q) \in SUBSET Queues
    BY <1>1
  <2> HIDE DEF First, FirstNow
  <2> QED
    BY <2>1, FewQueues, FS_Subset
<1>4. ASSUME NEW q \in Runners PROVE Cardinality(First(q)) \in Nat /\ Cardinality(FirstNow(q)) \in Nat
  <2>1. First(q) \in SUBSET Queues /\ FirstNow(q) \in SUBSET Queues
    BY <1>1
  <2> HIDE DEF First, FirstNow
  <2> QED
    BY <2>1, FewQueues
<1>5. stopNext \in Nat /\ seen \in Nat /\ stopNext <= seen + 1 /\ seen <= Cardinality(Runners)
  BY QueueNames DEF TypeOK, StopInv
<1>6. \A q \in Stopping' : q \in Runners
  <2> SUFFICES ASSUME NEW q \in Stopping', q \notin Runners PROVE FALSE
    OBVIOUS
  <2>1. /\ next \in 1 .. 4 /\ q = QueueOrder[next]
        /\ Runners' = Runners \cup {q}
    BY <1>2
  <2>2. Rank[q] = next
    BY <2>1, RankIs
  <2>3. FirstNow(q) = Runners \cup {q}
    <3>1. \A p \in Runners : Rank[p] <= Rank[q]
      BY <2>2 DEF StopInv
    <3>2. Rank[q] <= Rank[q]
      BY <2>1, <2>2
    <3> QED
      BY <2>1, <3>1, <3>2
  <2>4. IsFiniteSet(Runners) /\ Cardinality(Runners) \in Nat
    BY <1>1, FewQueues
  <2>5. Cardinality(Runners \cup {q}) = Cardinality(Runners) + 1
    BY <2>4, FS_AddElement
  <2>6. Cardinality(Runners) + 1 < stopNext
    BY <1>2, <2>3, <2>5
  <2> QED
    BY <1>5, <2>4, <2>6
<1> SUFFICES ASSUME NEW q \in Stopping' PROVE q \in Stopping
  OBVIOUS
<1>7. q \in Runners /\ Cardinality(First(q)) < stopNext
  <2> HIDE DEF First, FirstNow
  <2>1. q \in Runners /\ Cardinality(FirstNow(q)) < stopNext
    BY <1>2, <1>6
  <2> QED
    BY <1>3, <1>4, <1>5, <2>1
<1> QED
  BY <1>7 DEF Stopping

LEMMA StoppedStays ==
  ASSUME TypeOK, [Next]_vars, ~Exit, NEW q \in Queues, runner[q] = "stopped"
  PROVE  runner'[q] = runner[q]
<1> USE DEF TypeOK, dataVars, itemVars, startVars, stopVars, history
<1>1. ASSUME NEW p \in Queues, Halt(p) \/ Finish(p) \/ CancelRunner(p)
      PROVE  runner'[q] = runner[q]
  BY <1>1, CancelledIs DEF Halt, Finish, Drain, CancelRunner
<1>2. CASE OnStart
  BY <1>2 DEF OnStart, AddRunner, StartProducer, StartConsumer
<1>3. CASE \/ \E p \in Queues, i \in Ids : ListPending(p, i)
           \/ \E row \in retryRows : RetryQueueListPending(row)
           \/ \E i \in Ids : Enqueue(i) \/ Take(i) \/ ProcessItem(i)
           \/ OnStop \/ UNCHANGED vars
  BY <1>3 DEF ListPending, RetryQueueListPending, Enqueue, Take, ProcessItem,
     BeginProcessItem, LbmSucceeds, LbmFails, RetryQueueProgressRelease,
     SendToRetryQueue, OnStop, BeginStop, StopNext, WaitAll, vars
<1> QED
  BY <1>1, <1>2, <1>3 DEF Next, Runner

LEMMA StopInvStep ==
  ASSUME TypeOK, StopInv, [Next]_vars
  PROVE  StopInv'
<1> USE DEF dataVars, itemVars, startVars, stopVars, history
<1>1. CASE Exit
  <2>1. Runners' = {} /\ onStop' = "no"
    BY <1>1 DEF Exit, Runners
  <2> QED
    BY <2>1 DEF StopInv
<1>2. CASE ~Exit
  <2>1. \/ Runners' = Runners /\ next' \in {next, next + 1}
        \/ /\ next \in 1 .. 4 /\ next' = next
           /\ QueueOrder[next] \notin Runners
           /\ Runners' = Runners \cup {QueueOrder[next]}
           /\ UNCHANGED stopVars
           /\ \A q \in Runners : runner'[q] = runner[q]
    BY <1>2, RunnersStep
  <2>2. /\ Runners \in SUBSET Queues /\ Runners' \in SUBSET Queues
        /\ next \in Nat /\ \A q \in Queues : Rank[q] \in Nat
    BY QueueNames, RankIs DEF Runners, TypeOK
  <2>3. \A q \in Runners' : Rank[q] <= next'
    <3>1. \A q \in Runners : Rank[q] <= next'
      BY <2>1, <2>2 DEF StopInv
    <3>2. next \in 1 .. 4 => Rank[QueueOrder[next]] <= next
      BY RankIs
    <3> QED
      BY <2>1, <3>1, <3>2
  <2>4. /\ Cardinality(Runners) \in Nat /\ Cardinality(Runners') \in Nat
        /\ Cardinality(Runners) <= Cardinality(Runners')
    <3>1. Runners \subseteq Runners'
      BY <2>1
    <3> QED
      BY <2>2, <3>1, FewQueues, FS_Subset
  <2>5. /\ seen \in Nat /\ stopNext \in Nat
    BY QueueNames DEF TypeOK
  <2>6. \/ UNCHANGED stopVars \/ OnStop
    BY <1>2 DEF Next, vars, Runner, ListPending, RetryQueueListPending, Enqueue, Take,
       ProcessItem, BeginProcessItem, LbmSucceeds, LbmFails, RetryQueueProgressRelease,
       SendToRetryQueue, Halt, Finish, Drain, CancelRunner, OnStart, AddRunner,
       StartProducer, StartConsumer
  <2>7. onStop' # "no" => stopNext' <= seen' + 1 /\ seen' <= Cardinality(Runners')
    <3>1. CASE UNCHANGED stopVars
      BY <2>4, <2>5, <3>1 DEF StopInv
    <3>2. CASE BeginStop
      BY <2>4, <3>2 DEF BeginStop, Runners
    <3>3. CASE StopNext
      BY <2>4, <2>5, <3>3 DEF StopNext, StopInv
    <3>4. CASE WaitAll
      BY <2>4, <2>5, <3>4 DEF WaitAll, StopInv
    <3> QED
      BY <2>6, <3>1, <3>2, <3>3, <3>4 DEF OnStop
  <2>8. onStop' = "done" => \A q \in Stopping' : runner'[q] = "stopped"
    <3> SUFFICES ASSUME onStop' = "done", NEW q \in Stopping'
                 PROVE  runner'[q] = "stopped"
      OBVIOUS
    <3>1. CASE WaitAll
      <4>1. \A p \in Stopping : runner[p] = "stopped"
        BY <3>1 DEF WaitAll
      <4>2. Stopping' = Stopping /\ runner' = runner
        BY <3>1 DEF WaitAll, Stopping, Runners, Rank
      <4> QED
        BY <4>1, <4>2
    <3>2. CASE ~WaitAll
      <4>1. UNCHANGED stopVars
        BY <2>6, <3>2 DEF OnStop, BeginStop, StopNext
      <4>2. onStop = "done" /\ stopNext' = stopNext
        BY <4>1
      <4>3. q \in Stopping /\ q \in Queues
        BY <2>1, <4>2, StoppingGrows DEF Stopping, Runners
      <4>4. runner[q] = "stopped"
        BY <4>2, <4>3 DEF StopInv
      <4>5. runner'[q] = runner[q]
        BY <1>2, <4>3, <4>4, StoppedStays
      <4> QED
        BY <4>4, <4>5
    <3> QED
      BY <3>1, <3>2
  <2> QED
    BY <2>3, <2>7, <2>8 DEF StopInv
<1> QED
  BY <1>1, <1>2

\* OnStop returns without an exception only after the runners it called Stop on have
\* saved their queues: what they had queued survives the exit.
THEOREM QueuesAreSaved == Spec => QueuedSurvivesStop
<1> DEFINE SInv == StopInv /\ \A q \in Queues : QueueInv(q)
<1>1. Init => SInv
  <2> SUFFICES ASSUME Init PROVE SInv
    OBVIOUS
  <2>1. Runners = {} /\ onStop = "no"
    BY DEF Init, Runners
  <2>2. \A q \in Queues : Queued(q) = {}
    BY DEF Init, Queued
  <2> QED
    BY <2>1, <2>2 DEF StopInv, QueueInv
<1>2. IInv /\ SInv /\ [Next]_vars => SInv'
  BY StopInvStep, QueueInvStep DEF IInv
<1>3. IInv /\ SInv =>
        \A i \in Ids : phase[i] = "queued" /\ onStop = "done" => holder[i] \notin Stopping
  <2> SUFFICES ASSUME IInv, SInv, NEW i \in Ids, phase[i] = "queued", onStop = "done",
                      holder[i] \in Stopping
               PROVE  FALSE
    OBVIOUS
  <2>1. holder[i] \in Queues /\ runner[holder[i]] = "stopped"
    BY DEF IInv, TypeOK, StopInv
  <2>2. i \in Queued(holder[i])
    BY DEF Queued
  <2> QED
    BY <2>1, <2>2 DEF QueueInv, Active
<1> DEFINE Saved == \A i \in Ids : phase[i] = "queued" /\ i \in lost' \ lost /\ onStop = "done"
                                   => holder[i] \notin Stopping
<1>4. IInv /\ SInv => Saved
  BY <1>3
<1>5. IInv /\ SInv /\ [Next]_vars => [Saved]_vars
  BY <1>4
<1> HIDE DEF SInv
<1> QED
  BY <1>1, <1>2, <1>5, Invariance, PTL DEF Spec, QueuedSurvivesStop
=============================================================================
