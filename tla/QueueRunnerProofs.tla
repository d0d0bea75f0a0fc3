-------------------------- MODULE QueueRunnerProofs --------------------------
(***************************************************************************)
(* Proofs about QueueRunner, for every set of items, every batch size,     *)
(* watermark and in-flight limit, and every choice of failing calls.       *)
(***************************************************************************)
EXTENDS QueueRunner, FiniteSetTheorems, TLAPS

(***************************************************************************)
(* The inductive invariant.  Beyond the properties it has to know which    *)
(* items the tasks own (TaskInv), what the threads' control points imply   *)
(* about the containers (ControlInv) and the limits of each container      *)
(* (BoundInv).                                                             *)
(***************************************************************************)
TaskInv == inFlight = {i \in Items : task[i] \in
                         {"taken", "submitted", "running", "failing", "dropped"}}

ControlInv ==
  /\ start = "created" <=> producer = "off"
  /\ start \in {"created", "producerUp"} <=> consumer = "off"
  /\ producer \notin ProducerHalting => saving = {}
  /\ producer \in {"send", "stopped", "faulted"} => queue = {}
  /\ producer = "stopped" => saving = {}
  /\ producer \notin {"dispatch"} \cup ProducerHalting => batch = {}
  /\ stop = "done" => producer = "stopped" /\ consumer = "stopped"
  /\ stop = "no" <=> ~cancelled

BoundInv ==
  /\ Cardinality(batch) + batchCount <= BatchSize
  /\ Cardinality(queue \cup saving) <= HighWatermark
  /\ Cardinality(inFlight) <= ItemsInFlightMaxCount
  /\ consumer = "take" => Cardinality(inFlight) < ItemsInFlightMaxCount

\* Tasks are cancelled only by Stop, and lost only to a retry call that throws.
LossInv ==
  /\ \A i \in Items : task[i] = "dropped" => cancelled
  /\ "retry" \notin Faults => \A i \in Items : task[i] # "lost"

IInv == /\ TypeOK /\ NothingVanishes /\ NothingTwice
        /\ TaskInv /\ ControlInv /\ BoundInv /\ LossInv


-----------------------------------------------------------------------------
(* Bounds on the cardinality of finite sets. *)

\* A subset of a finite set is finite and no larger.
LEMMA SubsetBound ==
  ASSUME NEW S, IsFiniteSet(S), NEW T \in SUBSET S
  PROVE  /\ IsFiniteSet(T) /\ Cardinality(S) \in Nat /\ Cardinality(T) \in Nat
         /\ Cardinality(T) <= Cardinality(S)
BY FS_Subset, FS_CardinalityType

\* One more element makes a finite set at most one larger.
LEMMA AddBound ==
  ASSUME NEW S, IsFiniteSet(S), NEW x
  PROVE  /\ IsFiniteSet(S \cup {x}) /\ Cardinality(S \cup {x}) \in Nat
         /\ Cardinality(S \cup {x}) <= Cardinality(S) + 1
<1>1. /\ IsFiniteSet(S \cup {x})
      /\ \/ Cardinality(S \cup {x}) = Cardinality(S)
         \/ Cardinality(S \cup {x}) = Cardinality(S) + 1
  BY FS_AddElement
<1>2. Cardinality(S) \in Nat /\ Cardinality(S \cup {x}) \in Nat
  BY <1>1, FS_CardinalityType
<1>3. QED
  BY <1>1, <1>2

\* A union has at most as many elements as its parts together.
LEMMA UnionBound ==
  ASSUME NEW S, IsFiniteSet(S), NEW T, IsFiniteSet(T)
  PROVE  /\ IsFiniteSet(S \cup T) /\ Cardinality(S \cup T) \in Nat
         /\ Cardinality(S) \in Nat /\ Cardinality(T) \in Nat
         /\ Cardinality(S \cup T) <= Cardinality(S) + Cardinality(T)
<1>1. /\ IsFiniteSet(S \cup T)
      /\ Cardinality(S \cup T)
           = Cardinality(S) + Cardinality(T) - Cardinality(S \cap T)
  BY FS_Union
<1>2. IsFiniteSet(S \cap T)
  BY FS_Intersection
<1>3. /\ Cardinality(S) \in Nat /\ Cardinality(T) \in Nat
      /\ Cardinality(S \cap T) \in Nat /\ Cardinality(S \cup T) \in Nat
  BY <1>1, <1>2, FS_CardinalityType
<1>4. QED
  BY <1>1, <1>3

-----------------------------------------------------------------------------
\* Every container is finite and so has a natural number of elements.
LEMMA ContainersFinite ==
  ASSUME TypeOK
  PROVE  /\ IsFiniteSet(pending) /\ IsFiniteSet(batch) /\ IsFiniteSet(inFlight)
         /\ IsFiniteSet(queue) /\ IsFiniteSet(saving) /\ IsFiniteSet(queue \cup saving)
         /\ Cardinality(pending) \in Nat /\ Cardinality(batch) \in Nat
         /\ Cardinality(inFlight) \in Nat /\ Cardinality(queue) \in Nat
         /\ Cardinality(queue \cup saving) \in Nat
<1>1. /\ pending \in SUBSET Items /\ batch \in SUBSET Items /\ queue \in SUBSET Items
      /\ saving \in SUBSET Items /\ (queue \cup saving) \in SUBSET Items
      /\ inFlight \in SUBSET Items
  BY DEF TypeOK
<1>2. QED
  BY <1>1, FS_Subset, FS_CardinalityType, RunnerAssumption DEF RunnerAssumption

\* A call of ListPending returns pending rows, at most BatchSize of them.
LEMMA ListPendingBounded ==
  ASSUME TypeOK, NEW rows \in ListPending
  PROVE  /\ rows \subseteq pending
         /\ IsFiniteSet(rows)
         /\ Cardinality(rows) \in Nat /\ Cardinality(rows) <= BatchSize
<1>1. rows \in SUBSET pending
  BY DEF ListPending
<1>2. IsFiniteSet(rows) /\ Cardinality(rows) \in Nat
  BY <1>1, ContainersFinite, FS_Subset, FS_CardinalityType
<1>3. Cardinality(rows) <= BatchSize
  BY ContainersFinite, RunnerAssumption DEF ListPending, RunnerAssumption
<1>4. QED
  BY <1>1, <1>2, <1>3

LEMMA InitIInv == Init => IInv
<1> SUFFICES ASSUME Init PROVE IInv
  OBVIOUS
<1> USE RunnerAssumption DEF Init, RunnerAssumption
<1>1. TypeOK
  <2>1. task \in [Items -> TaskState]
    BY DEF TaskState
  <2>2. batchCount \in 0 .. BatchSize
    OBVIOUS
  <2>3. QED
    BY <2>1, <2>2 DEF TypeOK, ProducerState, ProducerHalting, ConsumerState
<1>2. NothingVanishes /\ NothingTwice
  BY DEF NothingVanishes, NothingTwice, Settled, LostByTask
<1>3. TaskInv /\ ControlInv /\ LossInv
  BY DEF TaskInv, ControlInv, LossInv, ProducerHalting
<1>4. BoundInv
  BY FS_EmptySet DEF BoundInv
<1>5. QED
  BY <1>1, <1>2, <1>3, <1>4 DEF IInv

\* Each step keeps the types; batchCount stays in range because of BoundInv.
LEMMA TypeStep ==
  ASSUME IInv, [Next]_vars
  PROVE  TypeOK'
<1> USE RunnerAssumption DEF IInv, producerVars, consumerVars, storeVars,
        hostVars, TypeOK, ProducerState, ProducerHalting, ConsumerState,
        TaskState
<1>1. CASE ProducerCheck \/ EndBatch \/ ProducerWake \/ ConsumerCheck \/
           ConsumerWake \/ TakeCancelled \/ Drain \/ StartProducer \/
           StartConsumer \/ ConsumerYields \/ Cancel \/ BeginWait \/ EndWait
  <2>1. CASE ProducerCheck \/ EndBatch \/ ProducerWake
    BY <2>1 DEF ProducerCheck, EndBatch, ProducerWake
  <2>2. CASE ConsumerCheck \/ ConsumerWake \/ TakeCancelled \/ Drain
    BY <2>2 DEF ConsumerCheck, ConsumerWake, TakeCancelled, Drain
  <2>3. CASE StartProducer \/ StartConsumer \/ ConsumerYields
    BY <2>3 DEF StartProducer, StartConsumer, ConsumerYields
  <2>4. CASE Cancel \/ BeginWait \/ EndWait
    BY <2>4, ZenonT(60) DEF Cancel, BeginWait, EndWait
  <2>5. QED
    BY <1>1, <2>1, <2>2, <2>3, <2>4
<1>2. CASE ProducerList
  <2>1. ASSUME NEW rows \in ListPending, pending' = pending \ rows, batch' = rows,
               batchCount' = 0, producer' = "dispatch"
        PROVE  TypeOK'
    <3>1. rows \subseteq pending
      BY ListPendingBounded
    <3>2. batchCount' \in 0 .. BatchSize
      BY <2>1 DEF RunnerAssumption
    <3>3. QED
      BY <1>2, <2>1, <3>1, <3>2 DEF ProducerList
  <2>2. CASE producer' = "save" /\ UNCHANGED <<pending, batch, batchCount>>
    BY <1>2, <2>2 DEF ProducerList
  <2>3. QED
    BY <1>2, <2>1, <2>2 DEF ProducerList
<1>3. CASE SaveQueued
  BY <1>3 DEF SaveQueued, SaveOne
<1>4. CASE SendSaved
  BY <1>4 DEF SendSaved
<1>5. ASSUME NEW i \in Items, Dispatch(i) PROVE TypeOK'
  <2>1. Cardinality(batch) \in Nat /\ Cardinality(batch) # 0
    BY <1>5, ContainersFinite, FS_EmptySet DEF Dispatch
  <2>2. batchCount' \in 0 .. BatchSize
    BY <1>5, <2>1 DEF Dispatch, BoundInv, RunnerAssumption
  <2>3. QED
    BY <1>5, <2>2 DEF Dispatch, Enqueue, Divert
<1>6. ASSUME NEW i \in Items, DispatchThrows(i) PROVE TypeOK'
  BY <1>6 DEF DispatchThrows
<1>7. ASSUME NEW i \in Items, Take(i) PROVE TypeOK'
  BY <1>7 DEF Take
<1>8. ASSUME NEW i \in Items, RunTask(i) PROVE TypeOK'
  BY <1>8 DEF RunTask
<1>9. ASSUME NEW i \in Items, BeginProcess(i) PROVE TypeOK'
  BY <1>9 DEF BeginProcess, TaskStep
<1>10. ASSUME NEW i \in Items, ProcessSucceeds(i) PROVE TypeOK'
  BY <1>10 DEF ProcessSucceeds, TaskStep
<1>11. ASSUME NEW i \in Items, ProcessFails(i) PROVE TypeOK'
  BY <1>11 DEF ProcessFails, TaskStep
<1>12. ASSUME NEW i \in Items, ProcessRetries(i) PROVE TypeOK'
  BY <1>12 DEF ProcessRetries, TaskStep
<1>13. CASE UNCHANGED vars
  BY <1>13 DEF vars
<1>14. QED BY <1>1, <1>2, <1>3, <1>4, <1>5, <1>6, <1>7, <1>8, <1>9, <1>10,
            <1>11, <1>12, <1>13 DEF Next, Producer, Consumer, Process, Start,
            Stop

\* Each step that takes an item out of a container puts it into another one.
LEMMA VanishStep ==
  ASSUME IInv, [Next]_vars
  PROVE  NothingVanishes'
<1> USE RunnerAssumption DEF IInv, producerVars, consumerVars, storeVars,
        hostVars, TypeOK, NothingVanishes, Settled, LostByTask, TaskInv,
        TaskState
<1>1. CASE ProducerCheck \/ EndBatch \/ ProducerWake \/ ConsumerCheck \/
           ConsumerWake \/ TakeCancelled \/ Drain \/ StartProducer \/
           StartConsumer \/ ConsumerYields \/ Cancel \/ BeginWait \/ EndWait
  BY <1>1 DEF ProducerCheck, EndBatch, ProducerWake, ConsumerCheck,
         ConsumerWake, TakeCancelled, Drain, StartProducer, StartConsumer,
         ConsumerYields, Cancel, BeginWait, EndWait
<1>2. ASSUME NEW i \in Items, DispatchThrows(i) \/ RunTask(i) \/
           BeginProcess(i) \/ ProcessFails(i) PROVE NothingVanishes'
  BY <1>2 DEF DispatchThrows, RunTask, BeginProcess, ProcessFails, TaskStep
<1>3. CASE ProducerList
  <2>1. \A rows \in ListPending : rows \subseteq pending
    BY ListPendingBounded
  <2>2. pending \cup batch = pending' \cup batch'
    BY <1>3, <2>1 DEF ProducerList, ControlInv, ProducerHalting
  <2>3. QED
    BY <1>3, <2>2 DEF ProducerList
<1>4. CASE SaveQueued
  BY <1>4 DEF SaveQueued, SaveOne
<1>5. CASE SendSaved
  BY <1>5 DEF SendSaved
<1>6. ASSUME NEW i \in Items, Dispatch(i) PROVE NothingVanishes'
  BY <1>6 DEF Dispatch, Enqueue, Divert
<1>7. ASSUME NEW i \in Items, Take(i) PROVE NothingVanishes'
  BY <1>7 DEF Take
<1>8. ASSUME NEW i \in Items, ProcessSucceeds(i) PROVE NothingVanishes'
  BY <1>8 DEF ProcessSucceeds, TaskStep
<1>9. ASSUME NEW i \in Items, ProcessRetries(i) PROVE NothingVanishes'
  BY <1>9 DEF ProcessRetries, TaskStep
<1>10. CASE UNCHANGED vars
  BY <1>10 DEF vars
<1>11. QED BY <1>1, <1>2, <1>3, <1>4, <1>5, <1>6, <1>7, <1>8, <1>9, <1>10 DEF
            Next, Producer, Consumer, Process, Start, Stop

\* Each step that puts an item into a container takes it out of the other one.
LEMMA TwiceStep ==
  ASSUME IInv, [Next]_vars
  PROVE  NothingTwice'
<1> USE RunnerAssumption DEF IInv, producerVars, consumerVars, storeVars,
        hostVars, TypeOK, NothingTwice, Settled, LostByTask, TaskInv,
        TaskState
<1>1. CASE ProducerCheck \/ EndBatch \/ ProducerWake \/ ConsumerCheck \/
           ConsumerWake \/ TakeCancelled \/ Drain \/ StartProducer \/
           StartConsumer \/ ConsumerYields \/ Cancel \/ BeginWait \/ EndWait
  BY <1>1 DEF ProducerCheck, EndBatch, ProducerWake, ConsumerCheck,
         ConsumerWake, TakeCancelled, Drain, StartProducer, StartConsumer,
         ConsumerYields, Cancel, BeginWait, EndWait
<1>2. ASSUME NEW i \in Items, DispatchThrows(i) \/ RunTask(i) \/
           BeginProcess(i) \/ ProcessFails(i) PROVE NothingTwice'
  BY <1>2 DEF DispatchThrows, RunTask, BeginProcess, ProcessFails, TaskStep
<1>3. CASE ProducerList
  BY <1>3, ListPendingBounded DEF ProducerList
<1>4. CASE SaveQueued
  BY <1>4 DEF SaveQueued, SaveOne
<1>5. CASE SendSaved
  BY <1>5 DEF SendSaved
<1>6. ASSUME NEW i \in Items, Dispatch(i) PROVE NothingTwice'
  BY <1>6 DEF Dispatch, Enqueue, Divert
<1>7. ASSUME NEW i \in Items, Take(i) PROVE NothingTwice'
  BY <1>7 DEF Take
<1>8. ASSUME NEW i \in Items, ProcessSucceeds(i) PROVE NothingTwice'
  BY <1>8 DEF ProcessSucceeds, TaskStep
<1>9. ASSUME NEW i \in Items, ProcessRetries(i) PROVE NothingTwice'
  BY <1>9 DEF ProcessRetries, TaskStep
<1>10. CASE UNCHANGED vars
  BY <1>10 DEF vars
<1>11. QED BY <1>1, <1>2, <1>3, <1>4, <1>5, <1>6, <1>7, <1>8, <1>9, <1>10 DEF
            Next, Producer, Consumer, Process, Start, Stop

\* The in-flight dictionary follows the states of the tasks.
LEMMA TaskInvStep ==
  ASSUME IInv, [Next]_vars
  PROVE  TaskInv'
<1> USE RunnerAssumption DEF IInv, producerVars, consumerVars, storeVars,
        hostVars, TypeOK, TaskInv, NothingTwice, TaskState
<1>1. CASE ProducerCheck \/ ProducerList \/ EndBatch \/ ProducerWake \/
           SaveQueued \/ SendSaved \/ ConsumerCheck \/ ConsumerWake \/
           TakeCancelled \/ Drain \/ StartProducer \/ StartConsumer \/
           ConsumerYields \/ Cancel \/ BeginWait \/ EndWait
  BY <1>1 DEF ProducerCheck, ProducerList, EndBatch, ProducerWake, SaveQueued,
         SendSaved, ConsumerCheck, ConsumerWake, TakeCancelled, Drain,
         StartProducer, StartConsumer, ConsumerYields, Cancel, BeginWait,
         EndWait, ListPending, SaveOne
<1>2. ASSUME NEW i \in Items, Dispatch(i) \/ DispatchThrows(i) PROVE TaskInv'
  BY <1>2 DEF Dispatch, DispatchThrows, Enqueue, Divert
<1>3. ASSUME NEW i \in Items, Take(i) PROVE TaskInv'
  BY <1>3 DEF Take
<1>4. ASSUME NEW i \in Items, RunTask(i) PROVE TaskInv'
  BY <1>4 DEF RunTask
<1>5. ASSUME NEW i \in Items, BeginProcess(i) PROVE TaskInv'
  BY <1>5 DEF BeginProcess, TaskStep
<1>6. ASSUME NEW i \in Items, ProcessSucceeds(i) PROVE TaskInv'
  BY <1>6 DEF ProcessSucceeds, TaskStep
<1>7. ASSUME NEW i \in Items, ProcessFails(i) PROVE TaskInv'
  BY <1>7 DEF ProcessFails, TaskStep
<1>8. ASSUME NEW i \in Items, ProcessRetries(i) PROVE TaskInv'
  BY <1>8 DEF ProcessRetries, TaskStep
<1>9. CASE UNCHANGED vars
  BY <1>9 DEF vars
<1>10. QED BY <1>1, <1>2, <1>3, <1>4, <1>5, <1>6, <1>7, <1>8, <1>9 DEF Next,
            Producer, Consumer, Process, Start, Stop

\* What the control points imply about the containers.
LEMMA ControlStep ==
  ASSUME IInv, [Next]_vars
  PROVE  ControlInv'
<1> USE RunnerAssumption DEF IInv, producerVars, consumerVars, storeVars,
        hostVars, TypeOK, ControlInv, ProducerHalting, ProducerState,
        ConsumerState
<1>1. CASE ProducerCheck
  BY <1>1 DEF ProducerCheck
<1>2. CASE ProducerList
  BY <1>2 DEF ProducerList, ListPending
<1>3. CASE EndBatch
  BY <1>3 DEF EndBatch
<1>4. CASE ProducerWake
  BY <1>4 DEF ProducerWake
<1>5. CASE SaveQueued
  BY <1>5 DEF SaveQueued, SaveOne
<1>6. CASE SendSaved
  BY <1>6 DEF SendSaved
<1>7. CASE ConsumerCheck
  BY <1>7 DEF ConsumerCheck
<1>8. CASE ConsumerWake
  BY <1>8 DEF ConsumerWake
<1>9. CASE TakeCancelled
  BY <1>9 DEF TakeCancelled
<1>10. CASE Drain
  BY <1>10 DEF Drain
<1>11. CASE StartProducer
  BY <1>11 DEF StartProducer
<1>12. CASE StartConsumer
  BY <1>12 DEF StartConsumer
<1>13. CASE ConsumerYields
  BY <1>13 DEF ConsumerYields
<1>14. CASE Cancel
  BY <1>14 DEF Cancel
<1>15. CASE BeginWait
  BY <1>15 DEF BeginWait
<1>16. CASE EndWait
  BY <1>16 DEF EndWait
<1>17. ASSUME NEW i \in Items, Dispatch(i) PROVE ControlInv'
  BY <1>17 DEF Dispatch, Enqueue, Divert
<1>18. ASSUME NEW i \in Items, DispatchThrows(i) PROVE ControlInv'
  BY <1>18 DEF DispatchThrows
<1>19. ASSUME NEW i \in Items, Take(i) PROVE ControlInv'
  BY <1>19 DEF Take
<1>20. ASSUME NEW i \in Items, RunTask(i) PROVE ControlInv'
  BY <1>20 DEF RunTask
<1>21. ASSUME NEW i \in Items, BeginProcess(i) PROVE ControlInv'
  BY <1>21 DEF BeginProcess, TaskStep
<1>22. ASSUME NEW i \in Items, ProcessSucceeds(i) PROVE ControlInv'
  BY <1>22 DEF ProcessSucceeds, TaskStep
<1>23. ASSUME NEW i \in Items, ProcessFails(i) PROVE ControlInv'
  BY <1>23 DEF ProcessFails, TaskStep
<1>24. ASSUME NEW i \in Items, ProcessRetries(i) PROVE ControlInv'
  BY <1>24 DEF ProcessRetries, TaskStep
<1>25. CASE UNCHANGED vars
  BY <1>25 DEF vars
<1>26. QED BY <1>1, <1>2, <1>3, <1>4, <1>5, <1>6, <1>7, <1>8, <1>9, <1>10,
            <1>11, <1>12, <1>13, <1>14, <1>15, <1>16, <1>17, <1>18, <1>19,
            <1>20, <1>21, <1>22, <1>23, <1>24, <1>25 DEF Next, Producer,
            Consumer, Process, Start, Stop

\* Tasks are dropped after a cancellation and lost by a failed retry call only.
LEMMA LossStep ==
  ASSUME IInv, [Next]_vars
  PROVE  LossInv'
<1> USE RunnerAssumption DEF IInv, producerVars, consumerVars, storeVars,
        hostVars, TypeOK, LossInv, ControlInv, TaskState
<1>1. CASE ProducerCheck \/ ProducerList \/ EndBatch \/ ProducerWake \/
           SaveQueued \/ SendSaved \/ ConsumerCheck \/ ConsumerWake \/
           TakeCancelled \/ Drain \/ StartProducer \/ StartConsumer \/
           ConsumerYields \/ Cancel \/ BeginWait \/ EndWait
  BY <1>1 DEF ProducerCheck, ProducerList, EndBatch, ProducerWake, SaveQueued,
         SendSaved, ConsumerCheck, ConsumerWake, TakeCancelled, Drain,
         StartProducer, StartConsumer, ConsumerYields, Cancel, BeginWait,
         EndWait, ListPending, SaveOne
<1>2. ASSUME NEW i \in Items, Dispatch(i) \/ DispatchThrows(i) PROVE LossInv'
  BY <1>2 DEF Dispatch, DispatchThrows, Enqueue, Divert
<1>3. ASSUME NEW i \in Items, Take(i) PROVE LossInv'
  BY <1>3 DEF Take
<1>4. ASSUME NEW i \in Items, RunTask(i) PROVE LossInv'
  BY <1>4 DEF RunTask
<1>5. ASSUME NEW i \in Items, BeginProcess(i) PROVE LossInv'
  BY <1>5 DEF BeginProcess, TaskStep
<1>6. ASSUME NEW i \in Items, ProcessSucceeds(i) PROVE LossInv'
  BY <1>6 DEF ProcessSucceeds, TaskStep
<1>7. ASSUME NEW i \in Items, ProcessFails(i) PROVE LossInv'
  BY <1>7 DEF ProcessFails, TaskStep
<1>8. ASSUME NEW i \in Items, ProcessRetries(i) PROVE LossInv'
  BY <1>8 DEF ProcessRetries, TaskStep
<1>9. CASE UNCHANGED vars
  BY <1>9 DEF vars
<1>10. QED BY <1>1, <1>2, <1>3, <1>4, <1>5, <1>6, <1>7, <1>8, <1>9 DEF Next,
            Producer, Consumer, Process, Start, Stop

\* The batch, the queue and the items in flight stay within their limits.
LEMMA BoundStep ==
  ASSUME IInv, [Next]_vars
  PROVE  BoundInv'
<1> USE RunnerAssumption DEF IInv, producerVars, consumerVars, storeVars,
        hostVars, BoundInv
<1>1. CASE ProducerCheck \/ EndBatch \/ ProducerWake \/ ConsumerWake \/
           TakeCancelled \/ Drain \/ StartProducer \/ StartConsumer \/
           ConsumerYields \/ Cancel \/ BeginWait \/ EndWait
  BY <1>1 DEF ProducerCheck, EndBatch, ProducerWake, ConsumerWake,
         TakeCancelled, Drain, StartProducer, StartConsumer, ConsumerYields,
         Cancel, BeginWait, EndWait
<1>2. ASSUME NEW i \in Items, DispatchThrows(i) \/ RunTask(i) \/
           BeginProcess(i) \/ ProcessFails(i) PROVE BoundInv'
  BY <1>2 DEF DispatchThrows, RunTask, BeginProcess, ProcessFails, TaskStep
<1>3. CASE ProducerList
  BY <1>3, ListPendingBounded DEF ProducerList, RunnerAssumption
<1>4. CASE SaveQueued
  <2>1. (queue \cup saving)' = queue \cup saving
    BY <1>4 DEF SaveQueued, SaveOne
  <2>2. QED
    BY <1>4, <2>1 DEF SaveQueued
<1>5. CASE SendSaved
  <2>1. (queue \cup saving)' = queue \cup saving \/ (queue \cup saving)' = {}
    BY <1>5 DEF SendSaved, ControlInv
  <2>2. Cardinality((queue \cup saving)') <= HighWatermark
    BY <2>1, FS_EmptySet DEF RunnerAssumption
  <2>3. QED
    BY <1>5, <2>2 DEF SendSaved
<1>6. CASE ConsumerCheck
  BY <1>6, ContainersFinite DEF ConsumerCheck, Throttled, RunnerAssumption
<1>7. ASSUME NEW i \in Items, Dispatch(i) PROVE BoundInv'
  <2>1. Cardinality(batch') = Cardinality(batch) - 1
    BY <1>7, ContainersFinite, FS_RemoveElement DEF Dispatch
  <2>2. Cardinality((queue \cup saving)') <= HighWatermark
    <3>1. CASE Enqueue(i)
      <4>1. saving = {} /\ saving' = {}
        BY <1>7 DEF Dispatch, ControlInv, ProducerHalting
      <4>2. Cardinality(queue \cup {i}) <= HighWatermark
        <5>1. /\ Cardinality(queue \cup {i}) \in Nat /\ Cardinality(queue) \in Nat
              /\ Cardinality(queue \cup {i}) <= Cardinality(queue) + 1
          BY ContainersFinite, AddBound
        <5>2. QED
          BY <3>1, <5>1 DEF Enqueue, RunnerAssumption
      <4>3. (queue \cup saving)' = queue \cup {i}
        BY <3>1, <4>1 DEF Enqueue
      <4>4. QED
        BY <4>2, <4>3
    <3>2. CASE Divert(i)
      BY <1>7, <3>2 DEF Dispatch, Divert
    <3>3. QED
      BY <1>7, <3>1, <3>2 DEF Dispatch
  <2>3. QED
    BY <1>7, <2>1, <2>2, ContainersFinite DEF Dispatch, TypeOK, RunnerAssumption
<1>8. ASSUME NEW i \in Items, Take(i) PROVE BoundInv'
  <2>1. Cardinality(inFlight') <= ItemsInFlightMaxCount
    <3>1. /\ Cardinality(inFlight \cup {i}) \in Nat /\ Cardinality(inFlight) \in Nat
          /\ Cardinality(inFlight \cup {i}) <= Cardinality(inFlight) + 1
      BY ContainersFinite, AddBound
    <3>2. Cardinality(inFlight) < ItemsInFlightMaxCount /\ inFlight' = inFlight \cup {i}
      BY <1>8 DEF Take
    <3>3. QED
      BY <3>1, <3>2 DEF RunnerAssumption
  <2>2. (queue \cup saving)' \in SUBSET (queue \cup saving)
    BY <1>8 DEF Take
  <2>3. Cardinality((queue \cup saving)') <= HighWatermark
    <3> DEFINE before == queue \cup saving
               after  == (queue \cup saving)'
    <3>1. IsFiniteSet(before) /\ Cardinality(before) \in Nat /\ after \in SUBSET before
      BY <2>2, ContainersFinite
    <3>2. Cardinality(after) \in Nat /\ Cardinality(after) <= Cardinality(before)
      BY <3>1, FS_Subset, FS_CardinalityType
    <3>3. QED
      BY <3>1, <3>2 DEF RunnerAssumption
  <2>4. QED
    BY <1>8, <2>1, <2>3 DEF Take
<1>9. ASSUME NEW i \in Items, ProcessSucceeds(i) PROVE BoundInv'
  <2>1. inFlight' \in SUBSET inFlight
    BY <1>9 DEF ProcessSucceeds
  <2>2. /\ Cardinality(inFlight) \in Nat /\ Cardinality(inFlight') \in Nat
        /\ Cardinality(inFlight') <= Cardinality(inFlight)
    BY <2>1, ContainersFinite, SubsetBound
  <2>3. QED
    BY <1>9, <2>2 DEF ProcessSucceeds, TaskStep, RunnerAssumption
<1>10. ASSUME NEW i \in Items, ProcessRetries(i) PROVE BoundInv'
  <2>1. inFlight' \in SUBSET inFlight
    BY <1>10 DEF ProcessRetries
  <2>2. /\ Cardinality(inFlight) \in Nat /\ Cardinality(inFlight') \in Nat
        /\ Cardinality(inFlight') <= Cardinality(inFlight)
    BY <2>1, ContainersFinite, SubsetBound
  <2>3. UNCHANGED <<batch, batchCount, queue, saving, consumer>>
    BY <1>10 DEF ProcessRetries, TaskStep
  <2>4. QED
    BY <2>2, <2>3 DEF RunnerAssumption
<1>11. CASE UNCHANGED vars
  BY <1>11 DEF vars
<1>12. QED BY <1>1, <1>2, <1>3, <1>4, <1>5, <1>6, <1>7, <1>8, <1>9, <1>10,
            <1>11 DEF Next, Producer, Consumer, Process, Start, Stop

-----------------------------------------------------------------------------
\* IInv holds in every reachable state.
LEMMA Invariance == Spec => []IInv
<1>1. IInv /\ [Next]_vars => IInv'
  BY TypeStep, VanishStep, TwiceStep, TaskInvStep, ControlStep, LossStep, BoundStep
     DEF IInv
<1>2. QED
  BY InitIInv, <1>1, PTL DEF Spec

\* The variables keep their types: in particular the producer never dispatches
\* more rows than it asked for.
THEOREM TypeCorrect == Spec => []TypeOK
<1>1. IInv => TypeOK
  BY DEF IInv
<1>2. QED
  BY Invariance, <1>1, PTL

\* No interleaving of the producer, the consumer, the tasks and Stop makes an
\* item vanish: it is stored, in a container, settled, or lost by a retry call
\* that threw.
THEOREM ItemsNeverVanish == Spec => []NothingVanishes
<1>1. IInv => NothingVanishes
  BY DEF IInv
<1>2. QED
  BY Invariance, <1>1, PTL

\* No interleaving gives an item two custodians or two outcomes.
THEOREM ItemsNeverTwice == Spec => []NothingTwice
<1>1. IInv => NothingTwice
  BY DEF IInv
<1>2. QED
  BY Invariance, <1>1, PTL

\* The items in flight never exceed ItemsInFlightMaxCount.
THEOREM FlightLimit == Spec => []InFlightBounded
<1>1. IInv => InFlightBounded
  BY DEF IInv, BoundInv, InFlightBounded
<1>2. QED
  BY Invariance, <1>1, PTL

\* After Stop has returned, at most BatchSize + ItemsInFlightMaxCount items are
\* neither stored nor settled: the rest of one batch and the items in flight.
THEOREM StopLoss == Spec => []StopLosesAtMost
<1>1. ASSUME IInv PROVE StopLosesAtMost
  <2> SUFFICES ASSUME stop = "done"
               PROVE  LET unsettled == Items \ (pending \cup Settled \cup LostByTask)
                      IN  /\ unsettled = batch \cup inFlight
                          /\ Cardinality(unsettled) <= BatchSize + ItemsInFlightMaxCount
    BY DEF StopLosesAtMost
  <2> DEFINE unsettled == Items \ (pending \cup Settled \cup LostByTask)
  <2>1. queue = {} /\ saving = {}
    BY <1>1 DEF IInv, ControlInv
  <2>2. unsettled = batch \cup inFlight
    BY <1>1, <2>1 DEF IInv, TypeOK, NothingVanishes, NothingTwice
  <2>3. Cardinality(batch \cup inFlight) <= Cardinality(batch) + Cardinality(inFlight)
    <3>1. IsFiniteSet(batch) /\ IsFiniteSet(inFlight)
      BY <1>1, ContainersFinite DEF IInv
    <3>2. QED
      BY <3>1, UnionBound
  <2>4. Cardinality(batch) <= BatchSize
    BY <1>1, ContainersFinite, RunnerAssumption
       DEF IInv, TypeOK, BoundInv, RunnerAssumption
  <2>5. Cardinality(batch \cup inFlight) \in Nat
    BY <1>1, ContainersFinite, FS_Union, FS_CardinalityType DEF IInv
  <2>6. Cardinality(unsettled) <= BatchSize + ItemsInFlightMaxCount
    BY <1>1, <2>2, <2>3, <2>4, <2>5, ContainersFinite, RunnerAssumption
       DEF IInv, BoundInv, RunnerAssumption
  <2>7. QED
    BY <2>2, <2>6
<1>2. QED
  BY Invariance, <1>1, PTL

-----------------------------------------------------------------------------
(* The in-flight limit is released. *)

\* Until Stop is called, every item in flight has a task that will take it out of the
\* dictionary, or is about to get one: the throttle never waits for an item that nothing
\* removes (QueueItemConsumer.cs:43 polls the count, and only the finally block at :94
\* lowers it).
ThrottleIsReleased ==
  ~cancelled => \A i \in inFlight :
    \/ task[i] \in {"submitted", "running", "failing"}
    \/ task[i] = "taken" /\ consumer = "run"

\* Only the consumer's control point between TryAdd and Task.Run has an item without a
\* task, and only one.
RunInv == \A i, j \in Items :
  task[i] = "taken" /\ (j = i \/ task[j] = "taken") => consumer = "run" /\ j = i

LEMMA RunInvStep ==
  ASSUME IInv, RunInv, [Next]_vars
  PROVE  RunInv'
<1> USE DEF RunInv, IInv, TypeOK, consumerVars
<1>1. CASE Producer
  BY <1>1 DEF Producer, ProducerCheck, ProducerList, Dispatch, DispatchThrows, EndBatch,
              ProducerWake, SaveQueued, SendSaved
<1>2. CASE \E i \in Items : Take(i) \/ RunTask(i)
  BY <1>2 DEF Take, RunTask
<1>3. CASE ConsumerCheck \/ ConsumerWake \/ TakeCancelled \/ Drain
  BY <1>3 DEF ConsumerCheck, ConsumerWake, TakeCancelled, Drain
<1>4. CASE \E i \in Items : Process(i)
  BY <1>4 DEF Process, BeginProcess, ProcessSucceeds, ProcessFails, ProcessRetries, TaskStep
<1>5. CASE Start
  BY <1>5 DEF Start, StartProducer, StartConsumer, ConsumerYields, ControlInv
<1>6. CASE Stop
  BY <1>6 DEF Stop, Cancel, BeginWait, EndWait
<1>7. CASE UNCHANGED vars
  BY <1>7 DEF vars
<1>8. QED
  BY <1>1, <1>2, <1>3, <1>4, <1>5, <1>6, <1>7 DEF Next, Consumer

\* Until Stop, what is in flight is being worked on, whatever calls fail and however many
\* tasks the limit allows.  It is what EveryItemSettles and QueuedItemSettles rest on.
THEOREM ThrottleReleased == Spec => []ThrottleIsReleased
<1>1. Init => RunInv
  BY DEF Init, RunInv
<1>2. IInv /\ RunInv => ThrottleIsReleased
  BY DEF IInv, TaskInv, LossInv, RunInv, ThrottleIsReleased
<1>3. QED
  BY <1>1, <1>2, RunInvStep, Invariance, PTL DEF Spec

-----------------------------------------------------------------------------
(***************************************************************************)
(* The runner implements ItemCustody.  Out, Held and Closing are what the   *)
(* refinement mapping gives for settled, held and closing.                  *)
(***************************************************************************)
Out == Settled \cup LostByTask
Held == Items \ (pending \cup Settled \cup LostByTask \cup Unreachable)
Closing == cancelled \/ producer \in ProducerHalting

LossWithin ==
  Cardinality(Unreachable) <= BatchSize + HighWatermark + ItemsInFlightMaxCount

\* Stored, settled and lost items are apart; what is saved or running is held.
LEMMA CustodyApart ==
  ASSUME IInv
  PROVE  /\ pending \subseteq Items /\ Out \subseteq Items /\ Unreachable \subseteq Items
         /\ pending \cap Out = {} /\ pending \cap Unreachable = {}
         /\ Out \cap Unreachable = {}
         /\ Unreachable \subseteq batch \cup saving \cup inFlight
<1> USE DEF IInv
<1>1. Unreachable \subseteq batch \cup saving \cup inFlight
  BY DEF Unreachable, TaskInv
<1>2. /\ pending \subseteq Items /\ Out \subseteq Items
      /\ batch \cup saving \cup inFlight \subseteq Items
  BY DEF TypeOK, Out, Settled, LostByTask
<1>3. /\ pending \cap Out = {} /\ pending \cap (batch \cup saving \cup inFlight) = {}
      /\ Out \cap (batch \cup saving \cup inFlight) = {}
  BY DEF NothingTwice, Out
<1>4. QED
  BY <1>1, <1>2, <1>3

\* The rest of a batch, the drained ids of a full queue and the items in flight
\* are all that can be lost.
LEMMA LossBounded ==
  ASSUME IInv
  PROVE  LossWithin
<1> DEFINE all == (batch \cup saving) \cup inFlight
<1>1. TypeOK /\ BoundInv
  BY DEF IInv
<1>2. /\ IsFiniteSet(batch) /\ IsFiniteSet(saving) /\ IsFiniteSet(inFlight)
      /\ IsFiniteSet(queue \cup saving)
      /\ Cardinality(batch) \in Nat /\ Cardinality(inFlight) \in Nat
      /\ Cardinality(queue \cup saving) \in Nat
  BY <1>1, ContainersFinite
<1>3. Cardinality(batch) <= BatchSize /\ Cardinality(inFlight) <= ItemsInFlightMaxCount
  BY <1>1, <1>2, RunnerAssumption DEF BoundInv, TypeOK, RunnerAssumption
<1>4. Cardinality(saving) \in Nat /\ Cardinality(saving) <= HighWatermark
  <2>1. saving \in SUBSET (queue \cup saving)
    OBVIOUS
  <2>2. /\ Cardinality(saving) \in Nat
        /\ Cardinality(saving) <= Cardinality(queue \cup saving)
    BY <1>2, <2>1, SubsetBound
  <2>3. QED
    BY <1>1, <1>2, <2>2, RunnerAssumption DEF BoundInv, RunnerAssumption
<1>5. /\ IsFiniteSet(batch \cup saving) /\ Cardinality(batch \cup saving) \in Nat
      /\ Cardinality(batch \cup saving) <= Cardinality(batch) + Cardinality(saving)
  BY <1>2, UnionBound
<1>6. /\ IsFiniteSet(all) /\ Cardinality(all) \in Nat
      /\ Cardinality(all) <= Cardinality(batch \cup saving) + Cardinality(inFlight)
  BY <1>2, <1>5, UnionBound
<1>7. Unreachable \in SUBSET all
  BY CustodyApart
<1>8. Cardinality(Unreachable) \in Nat /\ Cardinality(Unreachable) <= Cardinality(all)
  BY <1>6, <1>7, SubsetBound
<1>9. QED
  BY <1>2, <1>3, <1>4, <1>5, <1>6, <1>8, RunnerAssumption
     DEF RunnerAssumption, LossWithin

\* The bound holds after every step that keeps the invariant.
LEMMA LossBoundedNext == IInv' => LossWithin'
<1>1. IInv => LossWithin
  BY LossBounded
<1>2. QED
  BY <1>1, PTL

\* The instance's Cardinality is the library's.
LEMMA SameCardinality == \A S : Custody!Cardinality(S) = Cardinality(S)
BY DEF Custody!Cardinality, Cardinality

\* A step that moves nothing is a stutter of the abstract specification.
LEMMA StuttersCustody ==
  ASSUME pending' = pending, Out' = Out, Unreachable' = Unreachable,
         Closing' = Closing
  PROVE  UNCHANGED Custody!custodyVars
BY DEF Custody!custodyVars, Out, Closing

\* Rows taken off the stored queue are held.
LEMMA HandsOutCustody ==
  ASSUME IInv, NEW rows \in SUBSET pending, pending' = pending \ rows,
         Out' = Out, Unreachable' = Unreachable, Closing' = Closing
  PROVE  Custody!Next
<1>1. Held' = Held \cup rows
  BY CustodyApart DEF Held, Out
<1>2. Custody!HandOut(rows)
  BY <1>1 DEF Custody!HandOut, Held, Out, Closing
<1>3. QED
  BY <1>2, CustodyApart DEF Custody!Next

\* Held items that reach an outcome are settled.
LEMMA SettlesCustody ==
  ASSUME IInv, NEW items \in SUBSET Held, pending' = pending,
         Out' = Out \cup items, Unreachable' = Unreachable, Closing' = Closing
  PROVE  Custody!Next
<1>1. Held' = Held \ items
  BY DEF Held, Out
<1>2. Custody!Settle(items)
  BY <1>1 DEF Custody!Settle, Held, Out, Closing
<1>3. QED
  BY <1>2 DEF Custody!Next, Held

\* Held items are dropped by a runner that closes, within the bound.
LEMMA DropsCustody ==
  ASSUME IInv, IInv', NEW items \in SUBSET Held, pending' = pending,
         Out' = Out, Unreachable' = Unreachable \cup items, Closing'
  PROVE  Custody!Next
<1>1. Held' = Held \ items
  BY DEF Held, Out
<1>2. Cardinality(Unreachable') <= BatchSize + HighWatermark + ItemsInFlightMaxCount
  BY LossBoundedNext DEF LossWithin
<1>3. Custody!Drop(items)
  BY <1>1, <1>2, SameCardinality DEF Custody!Drop, Held, Out, Closing
<1>4. QED
  BY <1>3 DEF Custody!Next, Held

\* Steps of the consumer, the host and the producer's control move no item, and
\* one that makes the producer halt has no batch or finds cancelled set.
LEMMA ControlCustody ==
  ASSUME IInv,
         \/ ProducerCheck \/ EndBatch \/ ProducerWake \/ SaveQueued
         \/ ConsumerCheck \/ ConsumerWake \/ TakeCancelled \/ Drain
         \/ StartProducer \/ StartConsumer \/ ConsumerYields
         \/ BeginWait \/ EndWait
  PROVE  UNCHANGED Custody!custodyVars
<1> USE DEF IInv, ControlInv, producerVars, consumerVars, storeVars, hostVars,
        Out, Settled, LostByTask, Unreachable, Closing, ProducerHalting
<1>1. CASE ProducerCheck \/ EndBatch \/ ProducerWake
  BY <1>1, StuttersCustody DEF ProducerCheck, EndBatch, ProducerWake
<1>2. CASE SaveQueued
  BY <1>2, StuttersCustody DEF SaveQueued, SaveOne
<1>3. CASE ConsumerCheck \/ ConsumerWake \/ TakeCancelled \/ Drain
  BY <1>3, StuttersCustody DEF ConsumerCheck, ConsumerWake, TakeCancelled, Drain
<1>4. CASE StartProducer \/ StartConsumer \/ ConsumerYields
  BY <1>4, StuttersCustody DEF StartProducer, StartConsumer, ConsumerYields
<1>5. CASE BeginWait \/ EndWait
  BY <1>5, StuttersCustody DEF BeginWait, EndWait
<1>6. QED
  BY <1>1, <1>2, <1>3, <1>4, <1>5

\* A batch is handed out, or the listing throws and the producer halts.
LEMMA ListCustody ==
  ASSUME IInv, IInv', ProducerList
  PROVE  Custody!Next
<1> USE DEF IInv, ControlInv, producerVars, consumerVars, storeVars, hostVars,
        Out, Settled, LostByTask, Unreachable, ProducerHalting
<1>1. ASSUME NEW rows \in ListPending, pending' = pending \ rows,
             producer' = "dispatch"
      PROVE  Custody!Next
  <2>1. rows \in SUBSET pending
    BY <1>1, ListPendingBounded
  <2>2. Out' = Out /\ Unreachable' = Unreachable /\ Closing' = Closing
    BY <1>1 DEF ProducerList, Closing
  <2>3. QED
    BY <1>1, <2>1, <2>2, HandsOutCustody
<1>2. CASE producer' = "save" /\ UNCHANGED <<pending, batch, batchCount>>
  <2>1. /\ pending' = pending /\ Out' = Out /\ Unreachable' = Unreachable \cup {}
        /\ Closing'
    BY <1>2 DEF ProducerList, Closing
  <2>2. QED
    BY <2>1, DropsCustody
<1>3. QED
  BY <1>1, <1>2 DEF ProducerList

\* A row put into the queue stays held; one that bypasses it is settled.
LEMMA DispatchCustody ==
  ASSUME IInv, NEW i \in Items, Dispatch(i)
  PROVE  Custody!Next \/ UNCHANGED Custody!custodyVars
<1> USE DEF Dispatch, producerVars, consumerVars, storeVars, hostVars
<1>1. /\ pending' = pending /\ LostByTask' = LostByTask
      /\ Unreachable' = Unreachable /\ Closing' = Closing
  BY DEF LostByTask, Unreachable, Closing, ProducerHalting
<1>2. CASE Enqueue(i)
  <2>1. Out' = Out
    BY <1>1, <1>2 DEF Enqueue, Out, Settled
  <2>2. QED
    BY <1>1, <2>1, StuttersCustody
<1>3. CASE Divert(i)
  <2>1. Out' = Out \cup {i}
    BY <1>1, <1>3 DEF Divert, Out, Settled
  <2>2. {i} \in SUBSET Held
    BY DEF IInv, NothingTwice, TaskInv, Held, Unreachable, ProducerHalting
  <2>3. QED
    BY <1>1, <2>1, <2>2, SettlesCustody
<1>4. QED
  BY <1>2, <1>3

\* A row that cannot be dispatched halts the producer, which drops the rest.
LEMMA DispatchThrowsCustody ==
  ASSUME IInv, IInv', NEW i \in Items, DispatchThrows(i)
  PROVE  Custody!Next
<1> USE DEF IInv, DispatchThrows, producerVars, consumerVars, storeVars, hostVars
<1>1. /\ pending' = pending /\ Out' = Out /\ Closing'
      /\ Unreachable' = Unreachable \cup batch
  BY DEF Out, Settled, LostByTask, Closing, Unreachable, ProducerHalting
<1>2. batch \in SUBSET Held
  BY DEF TypeOK, NothingTwice, TaskInv, Held, Unreachable, ProducerHalting
<1>3. QED
  BY <1>1, <1>2, DropsCustody

\* The drained ids are settled by the restart queue, or dropped when it fails.
LEMMA SendCustody ==
  ASSUME IInv, IInv', SendSaved
  PROVE  Custody!Next
<1> USE DEF IInv, SendSaved, producerVars, consumerVars, storeVars, hostVars
<1>1. saving \in SUBSET Held
  BY DEF TypeOK, NothingTwice, TaskInv, Held, Unreachable
<1>2. /\ pending' = pending /\ LostByTask' = LostByTask /\ Closing' = Closing
      /\ Closing'
  BY DEF LostByTask, Closing, ProducerHalting
<1>3. CASE restartQueue' = restartQueue \cup saving /\ producer' = "stopped"
  <2>1. Out' = Out \cup saving /\ Unreachable' = Unreachable
    BY <1>2, <1>3 DEF Out, Settled, Unreachable, ProducerHalting
  <2>2. QED
    BY <1>1, <1>2, <2>1, SettlesCustody
<1>4. CASE producer' = "faulted" /\ UNCHANGED <<restartQueue, saving>>
  <2>1. Out' = Out /\ Unreachable' = Unreachable \cup saving
    BY <1>2, <1>4 DEF Out, Settled, Unreachable, ProducerHalting
  <2>2. QED
    BY <1>1, <1>2, <2>1, DropsCustody
<1>5. QED
  BY <1>3, <1>4

\* The consumer's Take keeps an item held; a task cancelled before it runs drops
\* its item.
LEMMA TaskStartCustody ==
  ASSUME IInv, IInv', NEW i \in Items, Take(i) \/ RunTask(i) \/ BeginProcess(i)
  PROVE  Custody!Next \/ UNCHANGED Custody!custodyVars
<1> USE DEF IInv, TypeOK, producerVars, consumerVars, storeVars, hostVars
<1>1. /\ pending' = pending /\ Settled' = Settled /\ Closing' = Closing
      /\ UNCHANGED <<producer, batch, saving, cancelled>>
  BY DEF Take, RunTask, BeginProcess, TaskStep, Settled, Closing
<1>2. PICK to \in TaskState \ {"lost"} : task' = [task EXCEPT ![i] = to]
  BY DEF Take, RunTask, BeginProcess, TaskStep, TaskState
<1>3. /\ task[i] \notin {"lost", "dropped"}
      /\ to = "dropped" => cancelled /\ task[i] \in {"taken", "submitted"}
  <2>1. CASE Take(i)
    BY <1>2, <2>1 DEF Take, NothingTwice, TaskInv, LostByTask
  <2>2. CASE RunTask(i)
    BY <1>2, <2>2 DEF RunTask
  <2>3. CASE BeginProcess(i)
    BY <1>2, <2>3 DEF BeginProcess, TaskStep
  <2>4. QED
    BY <2>1, <2>2, <2>3
<1>4. Out' = Out
  BY <1>1, <1>2, <1>3 DEF Out, LostByTask
<1>5. CASE to = "dropped"
  <2>1. Unreachable' = Unreachable \cup {i} /\ Closing'
    BY <1>1, <1>2, <1>3, <1>5 DEF Unreachable, Closing
  <2>2. {i} \in SUBSET Held
    BY <1>3, <1>5 DEF NothingTwice, TaskInv, Held, Unreachable
  <2>3. QED
    BY <1>1, <1>4, <2>1, <2>2, DropsCustody
<1>6. CASE to # "dropped"
  <2>1. Unreachable' = Unreachable
    BY <1>1, <1>2, <1>3, <1>6 DEF Unreachable
  <2>2. QED
    BY <1>1, <1>4, <2>1, StuttersCustody
<1>7. QED
  BY <1>5, <1>6

\* A task settles its item, or loses it to a retry call that throws, which no
\* step returns to either.
LEMMA TaskEndCustody ==
  ASSUME IInv, NEW i \in Items,
         ProcessSucceeds(i) \/ ProcessFails(i) \/ ProcessRetries(i)
  PROVE  Custody!Next \/ UNCHANGED Custody!custodyVars
<1> USE DEF IInv, TypeOK, producerVars, consumerVars, storeVars, hostVars
<1>1. /\ pending' = pending /\ Closing' = Closing
      /\ UNCHANGED <<producer, batch, saving>>
  BY DEF ProcessSucceeds, ProcessFails, ProcessRetries, TaskStep, Closing
<1>2. task[i] \in {"running", "failing"}
  BY DEF ProcessSucceeds, ProcessFails, ProcessRetries, TaskStep
<1>3. PICK to \in {"failing", "done", "lost"} : task' = [task EXCEPT ![i] = to]
  BY DEF ProcessSucceeds, ProcessFails, ProcessRetries, TaskStep
<1>4. Unreachable' = Unreachable
  BY <1>1, <1>2, <1>3 DEF Unreachable
<1>5. CASE ProcessFails(i)
  <2>1. Out' = Out
    BY <1>5 DEF ProcessFails, TaskStep, Out, Settled, LostByTask
  <2>2. QED
    BY <1>1, <1>4, <2>1, StuttersCustody
<1>6. CASE ProcessSucceeds(i) \/ ProcessRetries(i)
  <2>1. Out' = Out \cup {i}
    BY <1>6 DEF ProcessSucceeds, ProcessRetries, TaskStep, Out, Settled, LostByTask
  <2>2. {i} \in SUBSET Held
    BY <1>2 DEF NothingTwice, TaskInv, Held, Unreachable
  <2>3. QED
    BY <1>1, <1>4, <2>1, <2>2, SettlesCustody
<1>7. QED
  BY <1>5, <1>6

\* Stop's cancellation closes the runner and drops nothing yet.
LEMMA CancelCustody ==
  ASSUME IInv, IInv', Cancel
  PROVE  Custody!Next
<1>1. /\ pending' = pending /\ Out' = Out /\ Unreachable' = Unreachable \cup {}
      /\ Closing'
  BY DEF Cancel, producerVars, consumerVars, storeVars, Out, Settled, LostByTask,
         Unreachable, Closing
<1>2. {} \in SUBSET Held
  OBVIOUS
<1>3. QED
  BY <1>1, <1>2, DropsCustody

\* Every step of the runner is a step of ItemCustody or a stutter.
LEMMA CustodyStep ==
  ASSUME IInv, IInv', [Next]_vars
  PROVE  [Custody!Next]_(Custody!custodyVars)
<1>1. CASE UNCHANGED vars
  BY <1>1, StuttersCustody DEF vars, producerVars, consumerVars, storeVars, hostVars,
     Out, Settled, LostByTask, Unreachable, Closing
<1>2. CASE Next
  BY <1>2, ControlCustody, ListCustody, DispatchCustody, DispatchThrowsCustody,
     SendCustody, TaskStartCustody, TaskEndCustody, CancelCustody
     DEF Next, Producer, Consumer, Process, Start, Stop
<1>3. QED
  BY <1>1, <1>2

\* The runner implements ItemCustody: its steps hand items out, settle them or,
\* only when it is halting, drop at most a batch, a queue and the items in flight
\* of them; an item that is settled or dropped stays so.
THEOREM RunnerKeepsCustody == Spec => KeepsCustody
<1>1. Init => Custody!Init
  BY DEF Init, Custody!Init, Settled, LostByTask, Unreachable, ProducerHalting
<1>2. IInv /\ IInv' /\ [Next]_vars => [Custody!Next]_(Custody!custodyVars)
  BY CustodyStep
<1>3. QED
  BY <1>1, <1>2, Invariance, PTL DEF Spec, KeepsCustody, Custody!Spec
=============================================================================
