---------------------------- MODULE RollupFlowProofs ----------------------------
(***************************************************************************)
(* Proofs about RollupFlow, for every set of report sequences, every plan  *)
(* and every combination of failing calls.                                 *)
(*                                                                         *)
(* That cleanup comes last and once needs a count: with one sequence, what *)
(* the join has counted and what is still to be counted are no more than   *)
(* the rollups of the plan, and a message for cleanup means that the join  *)
(* has counted all of them.                                                *)
(***************************************************************************)
EXTENDS RollupFlow, TLAPS

\* Messages of a sequence exist only once its plan is known and it was taken.
Idle(s) == rollups[s] = 0 /\ finished[s] = 0

FlowInv ==
  /\ \A s \in Sequences : s \notin DOMAIN plan => sequence[s] = "none"
  /\ \A s \in Sequences : sequence[s] # "taken" => Idle(s)
  /\ job = "begin" => prepare = "none"
  /\ prepare # "taken" => plan = NoPlan /\ cleanups + cleaned = 0
  /\ plan = NoPlan => completeCount = 0 /\ cleanups + cleaned <= 1
  /\ plan # NoPlan => DOMAIN plan # {}

\* The count that the join of one sequence rests on.
JoinInv ==
  \A s \in DOMAIN plan : DOMAIN plan = {s} =>
    /\ completeCount + rollups[s] + finished[s] <= plan[s]
    /\ sequence[s] = "posted" => completeCount = 0 /\ cleanups + cleaned = 0
    /\ cleanups + cleaned <= 1
    /\ cleanups + cleaned = 1 => completeCount = plan[s]

FlowIInv == TypeOK /\ FlowInv /\ JoinInv

\* What a plan is: rollups of some of the sequences.
LEMMA PlanShape ==
  ASSUME NEW p \in Plans \cup {NoPlan}
  PROVE  /\ DOMAIN p \subseteq Sequences
         /\ \A s \in DOMAIN p : p[s] \in Nat
         /\ p \in Plans => DOMAIN p # {}
<1>1. CASE p \in Plans
  BY <1>1, FlowAssumption
<1>2. CASE p = NoPlan /\ p \notin Plans
  BY <1>2 DEF NoPlan
<1> QED
  BY <1>1, <1>2

LEMMA FlowInit == Init => FlowIInv
<1> SUFFICES ASSUME Init PROVE FlowIInv
  OBVIOUS
<1>1. faults \in SUBSET FaultKinds
  BY FlowAssumption DEF Init
<1>2. DOMAIN plan = {}
  BY DEF Init, NoPlan
<1>3. TypeOK /\ FlowInv
  BY <1>1, <1>2 DEF Init, TypeOK, FlowInv, Idle, MessageState, Blocks
<1>4. JoinInv
  BY <1>2 DEF JoinInv
<1> QED
  BY <1>3, <1>4 DEF FlowIInv

LEMMA TypeNext == FlowIInv /\ [Next]_vars => TypeOK'
<1> SUFFICES ASSUME TypeOK, FlowInv, [Next]_vars PROVE TypeOK'
  BY DEF FlowIInv
<1>p. /\ DOMAIN plan \subseteq Sequences
      /\ \A s \in DOMAIN plan : plan[s] \in Nat
  BY PlanShape DEF TypeOK
<1>0. CASE UNCHANGED vars
  BY <1>0 DEF TypeOK, vars, joinVars, cleanupVars
<1>1. CASE Begin
  BY <1>1 DEF TypeOK, MessageState, Begin, cleanupVars, joinVars
<1>2. CASE End
  BY <1>2 DEF TypeOK, End, cleanupVars, joinVars
<1>3. CASE PrepareThreadGroup
  <2>1. /\ job' \in {"begin", "wait", "ended"}
        /\ complete' \in {"pending", "set", "failed"}
        /\ plan' \in Plans \cup {NoPlan}
        /\ prepare' \in MessageState /\ sequence' \in [Sequences -> MessageState]
        /\ faulted' \subseteq Blocks /\ faults' \in SUBSET FaultKinds
    BY <1>3 DEF TypeOK, MessageState, PrepareThreadGroup, TakePrepare, joinVars,
         QueryFails, MessageLost, DropErrorEvent, SetException, Blocks
  <2>2. /\ rollups' \in [Sequences -> Nat] /\ finished' \in [Sequences -> Nat]
        /\ completeCount' \in Nat /\ cleanups' \in Nat /\ cleaned' \in Nat
    BY <1>3, <1>p DEF TypeOK, FlowInv, PrepareThreadGroup, TakePrepare, joinVars,
         QueryFails, MessageLost, DropErrorEvent, SetException, Blocks
  <2>3. \A t \in DOMAIN plan' : rollups'[t] + finished'[t] <= plan'[t]
    <3>1. \A t \in Sequences : rollups'[t] = 0 /\ finished'[t] = 0
      BY <1>3 DEF FlowInv, Idle, NoPlan, PrepareThreadGroup, TakePrepare, joinVars
    <3>2. plan' \in Plans \cup {NoPlan}
      BY <2>1
    <3> QED
      BY <3>1, <3>2, PlanShape
  <2> QED
    BY <2>1, <2>2, <2>3 DEF TypeOK
<1>4. ASSUME NEW s \in Sequences, ProcessReportSequence(s) PROVE TypeOK'
  <2>1. /\ job' \in {"begin", "wait", "ended"}
        /\ complete' \in {"pending", "set", "failed"}
        /\ plan' \in Plans \cup {NoPlan}
        /\ prepare' \in MessageState /\ sequence' \in [Sequences -> MessageState]
        /\ faulted' \subseteq Blocks /\ faults' \in SUBSET FaultKinds
    BY <1>4 DEF TypeOK, MessageState, ProcessReportSequence, TakeSequence,
         PostRollups, joinVars, QueryFails, MessageLost, DropErrorEvent,
              SetException, Blocks
  <2>2. /\ rollups' \in [Sequences -> Nat] /\ finished' \in [Sequences -> Nat]
        /\ completeCount' \in Nat /\ cleanups' \in Nat /\ cleaned' \in Nat
    BY <1>4, <1>p DEF TypeOK, FlowInv, ProcessReportSequence, TakeSequence,
         PostRollups, joinVars, QueryFails, MessageLost, DropErrorEvent,
              SetException, Blocks
  <2>3. \A t \in DOMAIN plan' : rollups'[t] + finished'[t] <= plan'[t]
    BY <1>4, <1>p DEF TypeOK, FlowInv, Idle, ProcessReportSequence, TakeSequence,
         PostRollups, joinVars, QueryFails, MessageLost, DropErrorEvent,
              SetException, Blocks
  <2> QED
    BY <2>1, <2>2, <2>3 DEF TypeOK
<1>5. ASSUME NEW s \in Sequences, ProcessRollup(s) PROVE TypeOK'
  <2>1. /\ job' \in {"begin", "wait", "ended"}
        /\ complete' \in {"pending", "set", "failed"}
        /\ plan' \in Plans \cup {NoPlan}
        /\ prepare' \in MessageState /\ sequence' \in [Sequences -> MessageState]
        /\ faulted' \subseteq Blocks /\ faults' \in SUBSET FaultKinds
    BY <1>5 DEF TypeOK, MessageState, ProcessRollup, TakeRollup, cleanupVars,
         QueryFails, MessageLost, DropErrorEvent, SetException, Blocks
  <2>2. /\ rollups' \in [Sequences -> Nat] /\ finished' \in [Sequences -> Nat]
        /\ completeCount' \in Nat /\ cleanups' \in Nat /\ cleaned' \in Nat
    BY <1>5, <1>p DEF TypeOK, FlowInv, ProcessRollup, TakeRollup, cleanupVars,
         QueryFails, MessageLost, DropErrorEvent, SetException, Blocks
  <2>3. \A t \in DOMAIN plan' : rollups'[t] + finished'[t] <= plan'[t]
    BY <1>5, <1>p DEF TypeOK, FlowInv, Idle, ProcessRollup, TakeRollup, cleanupVars,
         QueryFails, MessageLost, DropErrorEvent, SetException, Blocks
  <2> QED
    BY <2>1, <2>2, <2>3 DEF TypeOK
<1>6. ASSUME NEW s \in Sequences, WaitForAllRollups(s) PROVE TypeOK'
  <2>1. /\ job' \in {"begin", "wait", "ended"}
        /\ complete' \in {"pending", "set", "failed"}
        /\ plan' \in Plans \cup {NoPlan}
        /\ prepare' \in MessageState /\ sequence' \in [Sequences -> MessageState]
        /\ faulted' \subseteq Blocks /\ faults' \in SUBSET FaultKinds
    BY <1>6 DEF TypeOK, MessageState, WaitForAllRollups, TakeFinished, IsLast,
         MessageLost, Blocks
  <2>2. /\ rollups' \in [Sequences -> Nat] /\ finished' \in [Sequences -> Nat]
        /\ completeCount' \in Nat /\ cleanups' \in Nat /\ cleaned' \in Nat
    BY <1>6, <1>p DEF TypeOK, FlowInv, WaitForAllRollups, TakeFinished, IsLast,
         MessageLost, Blocks
  <2>3. \A t \in DOMAIN plan' : rollups'[t] + finished'[t] <= plan'[t]
    BY <1>6, <1>p DEF TypeOK, FlowInv, Idle, WaitForAllRollups, TakeFinished, IsLast,
         MessageLost, Blocks
  <2> QED
    BY <2>1, <2>2, <2>3 DEF TypeOK
<1>7. CASE Cleanup
  <2>1. /\ job' \in {"begin", "wait", "ended"}
        /\ complete' \in {"pending", "set", "failed"}
        /\ plan' \in Plans \cup {NoPlan}
        /\ prepare' \in MessageState /\ sequence' \in [Sequences -> MessageState]
        /\ faulted' \subseteq Blocks /\ faults' \in SUBSET FaultKinds
    BY <1>7 DEF TypeOK, MessageState, Cleanup, TakeCleanup, joinVars, QueryFails,
         MessageLost, DropErrorEvent, SetException, Blocks
  <2>2. /\ rollups' \in [Sequences -> Nat] /\ finished' \in [Sequences -> Nat]
        /\ completeCount' \in Nat /\ cleanups' \in Nat /\ cleaned' \in Nat
    BY <1>7, <1>p DEF TypeOK, FlowInv, Cleanup, TakeCleanup, joinVars, QueryFails,
         MessageLost, DropErrorEvent, SetException, Blocks
  <2>3. \A t \in DOMAIN plan' : rollups'[t] + finished'[t] <= plan'[t]
    BY <1>7, <1>p DEF TypeOK, FlowInv, Idle, Cleanup, TakeCleanup, joinVars,
         QueryFails, MessageLost, DropErrorEvent, SetException, Blocks
  <2> QED
    BY <2>1, <2>2, <2>3 DEF TypeOK
<1> QED
  BY <1>0, <1>1, <1>2, <1>3, <1>4, <1>5, <1>6, <1>7 DEF Next

LEMMA FlowStep == FlowIInv /\ [Next]_vars => FlowInv'
<1> SUFFICES ASSUME TypeOK, FlowInv, [Next]_vars PROVE FlowInv'
  BY DEF FlowIInv
<1> USE DEF FlowInv, Idle
<1>0. CASE UNCHANGED vars
  BY <1>0 DEF vars, joinVars, cleanupVars
<1>1. CASE Begin
  BY <1>1 DEF Begin, cleanupVars, joinVars
<1>2. CASE End
  BY <1>2 DEF End, cleanupVars, joinVars
<1>3. CASE PrepareThreadGroup
  <2>1. /\ prepare = "posted" /\ prepare' = "taken" /\ job' # "begin"
        /\ plan = NoPlan /\ DOMAIN plan = {} /\ completeCount' = 0
        /\ cleanups + cleaned = 0 /\ cleaned' = cleaned
        /\ \A t \in Sequences : rollups'[t] = 0 /\ finished'[t] = 0
    BY <1>3 DEF NoPlan, PrepareThreadGroup, TakePrepare, joinVars
  <2> DEFINE Posted == [s \in Sequences |-> IF s \in DOMAIN plan' THEN "posted" ELSE "none"]
  <2>2. CASE plan' \in Plans /\ sequence' = Posted /\ UNCHANGED cleanups
    BY <2>1, <2>2, PlanShape
  <2>3. CASE UNCHANGED <<plan, sequence>> /\ cleanups' \in {cleanups, cleanups + 1}
    <3>1. plan' = plan /\ sequence' = sequence
      BY <2>3
    <3>2. cleanups = 0 /\ cleaned = 0
      BY <2>1 DEF TypeOK
    <3>3. (cleanups' = 0 \/ cleanups' = 1) /\ cleaned' = 0
      BY <2>1, <2>3, <3>2
    <3>4. cleanups' + cleaned' <= 1
      BY <3>3
    <3>5. \A s \in Sequences : s \notin DOMAIN plan' => sequence'[s] = "none"
      BY <3>1
    <3>6. plan' = NoPlan /\ completeCount' = 0
      BY <2>1, <3>1
    <3> QED
      BY <2>1, <3>4, <3>5, <3>6
  <2>4. \/ plan' \in Plans /\ sequence' = Posted /\ UNCHANGED cleanups
        \/ UNCHANGED <<plan, sequence>> /\ cleanups' \in {cleanups, cleanups + 1}
    BY <1>3 DEF PrepareThreadGroup
  <2> QED
    BY <2>2, <2>3, <2>4
<1>4. ASSUME NEW s \in Sequences, ProcessReportSequence(s) PROVE FlowInv'
  <2>1. sequence[s] = "posted" /\ plan # NoPlan /\ prepare = "taken"
    BY <1>4 DEF NoPlan, ProcessReportSequence, TakeSequence
  <2> QED
    BY <1>4, <2>1 DEF TypeOK, ProcessReportSequence, TakeSequence, PostRollups,
         joinVars, QueryFails, MessageLost, DropErrorEvent, SetException
<1>5. ASSUME NEW s \in Sequences, ProcessRollup(s) PROVE FlowInv'
  BY <1>5 DEF TypeOK, ProcessRollup, TakeRollup, cleanupVars, QueryFails,
       MessageLost, DropErrorEvent, SetException
<1>6. ASSUME NEW s \in Sequences, WaitForAllRollups(s) PROVE FlowInv'
  <2>1. sequence[s] = "taken" /\ plan # NoPlan /\ prepare = "taken"
    BY <1>6 DEF TypeOK, NoPlan, WaitForAllRollups, TakeFinished
  <2> QED
    BY <1>6, <2>1 DEF TypeOK, WaitForAllRollups, TakeFinished
<1>7. CASE Cleanup
  BY <1>7 DEF TypeOK, Cleanup, TakeCleanup, joinVars, QueryFails, MessageLost,
       DropErrorEvent, SetException
<1> QED
  BY <1>0, <1>1, <1>2, <1>3, <1>4, <1>5, <1>6, <1>7 DEF Next

LEMMA JoinStep == FlowIInv /\ [Next]_vars => JoinInv'
<1> SUFFICES ASSUME TypeOK, FlowInv, JoinInv, [Next]_vars,
                    NEW t \in DOMAIN plan', DOMAIN plan' = {t}
             PROVE  /\ completeCount' + rollups'[t] + finished'[t] <= plan'[t]
                    /\ sequence'[t] = "posted" =>
                         completeCount' = 0 /\ cleanups' + cleaned' = 0
                    /\ cleanups' + cleaned' <= 1
                    /\ cleanups' + cleaned' = 1 => completeCount' = plan'[t]
  BY DEF FlowIInv, JoinInv
<1> DEFINE Goal == /\ completeCount' + rollups'[t] + finished'[t] <= plan'[t]
                   /\ sequence'[t] = "posted" =>
                         completeCount' = 0 /\ cleanups' + cleaned' = 0
                   /\ cleanups' + cleaned' <= 1
                   /\ cleanups' + cleaned' = 1 => completeCount' = plan'[t]
<1>p. t \in Sequences /\ plan'[t] \in Nat
  BY TypeNext, PlanShape DEF TypeOK, FlowIInv
<1>3. CASE PrepareThreadGroup
  <2>1. /\ plan = NoPlan /\ completeCount' = 0 /\ cleanups + cleaned = 0
        /\ cleaned' = cleaned /\ rollups'[t] = 0 /\ finished'[t] = 0
    BY <1>3, <1>p DEF FlowInv, Idle, NoPlan, PrepareThreadGroup, TakePrepare, joinVars
  <2>2. plan' # plan
    BY <2>1 DEF NoPlan
  <2>3. UNCHANGED cleanups
    BY <1>3, <2>2 DEF PrepareThreadGroup
  <2> QED
    BY <1>p, <2>1, <2>3
<1>k. ASSUME UNCHANGED plan
      PROVE  /\ plan[t] \in Nat
             /\ completeCount + rollups[t] + finished[t] <= plan[t]
             /\ sequence[t] = "posted" => completeCount = 0 /\ cleanups + cleaned = 0
             /\ cleanups + cleaned <= 1
             /\ cleanups + cleaned = 1 => completeCount = plan[t]
             /\ rollups[t] \in Nat /\ finished[t] \in Nat /\ completeCount \in Nat
             /\ cleanups \in Nat /\ cleaned \in Nat
             /\ \A s \in Sequences : s # t => sequence[s] = "none" /\ Idle(s)
  BY <1>k, <1>p DEF JoinInv, TypeOK, FlowInv
<1>0. CASE UNCHANGED vars
  BY <1>0, <1>k DEF vars, joinVars, cleanupVars
<1>1. CASE Begin
  BY <1>1, <1>k DEF Begin, cleanupVars, joinVars
<1>2. CASE End
  BY <1>2, <1>k DEF End, cleanupVars, joinVars
<1>4. ASSUME NEW s \in Sequences, ProcessReportSequence(s) PROVE Goal
  <2>1. UNCHANGED <<plan, joinVars, cleaned>> /\ sequence[s] = "posted"
        /\ sequence' = [sequence EXCEPT ![s] = "taken"]
    BY <1>4 DEF ProcessReportSequence, TakeSequence
  <2>2. s = t /\ rollups[t] = 0 /\ finished[t] = 0 /\ completeCount = 0
        /\ cleanups + cleaned = 0 /\ sequence'[t] = "taken"
    BY <1>k, <1>p, <2>1 DEF TypeOK, FlowInv, Idle
  <2>3. CASE PostRollups(s)
    <3>1. rollups'[t] = plan[t]
      BY <2>2, <2>3 DEF PostRollups, TypeOK
    <3>2. cleanups' = IF plan[t] = 0 THEN cleanups + 1 ELSE cleanups
      BY <2>2, <2>3 DEF PostRollups
    <3> QED
      BY <1>k, <2>1, <2>2, <3>1, <3>2 DEF joinVars
  <2>4. CASE UNCHANGED <<rollups, cleanups>>
    BY <1>k, <2>1, <2>2, <2>4 DEF joinVars
  <2> QED
    BY <1>4, <2>3, <2>4 DEF ProcessReportSequence
<1>5. ASSUME NEW s \in Sequences, ProcessRollup(s) PROVE Goal
  <2>1. UNCHANGED <<plan, sequence, completeCount, cleanupVars>> /\ rollups[s] > 0
        /\ rollups' = [rollups EXCEPT ![s] = @ - 1]
        /\ (UNCHANGED finished \/ finished' = [finished EXCEPT ![s] = @ + 1])
    BY <1>5 DEF ProcessRollup, TakeRollup
  <2>2. s = t
    BY <1>k, <2>1 DEF Idle
  <2>3. /\ rollups'[t] = rollups[t] - 1
        /\ finished'[t] \in {finished[t], finished[t] + 1}
    BY <2>1, <2>2 DEF TypeOK
  <2> QED
    BY <1>k, <2>1, <2>3 DEF cleanupVars
<1>6. ASSUME NEW s \in Sequences, WaitForAllRollups(s) PROVE Goal
  <2>1. UNCHANGED <<plan, sequence, rollups, cleaned>> /\ finished[s] > 0
        /\ finished' = [finished EXCEPT ![s] = @ - 1]
    BY <1>6 DEF WaitForAllRollups, TakeFinished
  <2>2. s = t
    BY <1>k, <2>1 DEF Idle
  <2>3. finished'[t] = finished[t] - 1 /\ sequence[t] # "posted"
    BY <2>1, <2>2 DEF TypeOK, FlowInv, Idle
  <2>4. cleanups + cleaned = 0
    BY <1>k, <2>1, <2>2
  <2>5. \/ completeCount' = completeCount + 1
           /\ cleanups' = IF completeCount + 1 = plan[t] THEN cleanups + 1 ELSE cleanups
        \/ completeCount' \in {completeCount, completeCount + 1} /\ UNCHANGED cleanups
    BY <1>6, <2>2 DEF WaitForAllRollups, IsLast
  <2> QED
    BY <1>k, <2>1, <2>2, <2>3, <2>4, <2>5
<1>7. CASE Cleanup
  <2>1. UNCHANGED <<plan, sequence, rollups, joinVars>> /\ cleanups > 0
        /\ cleanups' = cleanups - 1 /\ cleaned' \in {cleaned, cleaned + 1}
    BY <1>7 DEF Cleanup, TakeCleanup
  <2> QED
    BY <1>k, <2>1 DEF joinVars
<1> QED
  BY <1>0, <1>1, <1>2, <1>3, <1>4, <1>5, <1>6, <1>7 DEF Next

LEMMA FlowNext == FlowIInv /\ [Next]_vars => FlowIInv'
  BY TypeNext, FlowStep, JoinStep DEF FlowIInv

LEMMA FlowInvariant == Spec => []FlowIInv
<1> QED
  BY FlowInit, FlowNext, PTL DEF Spec

\* Every variable keeps its type.
THEOREM TypeCorrect == Spec => []TypeOK
<1>1. FlowIInv => TypeOK
  BY DEF FlowIInv
<1> QED
  BY <1>1, FlowInvariant, PTL

\* With one report sequence cleanup comes after all rollups and at most once.
THEOREM CleanupIsLast == Spec => []OneCleanup
<1>1. FlowIInv => OneCleanup
  <2> SUFFICES ASSUME FlowIInv, OneSequence
               PROVE  CleanupAfterRollups /\ cleanups + cleaned <= 1
    BY DEF OneCleanup
  <2> USE DEF FlowIInv, TypeOK, FlowInv, Idle, CleanupAfterRollups, RollupsDone
  <2>1. CASE plan = NoPlan
    BY <2>1 DEF NoPlan
  <2>2. CASE plan # NoPlan
    <3>1. PICK s \in Sequences : DOMAIN plan = {s}
      BY <2>2 DEF OneSequence
    <3>2. plan[s] \in Nat
      BY <3>1, PlanShape
    <3> QED
      BY <3>1, <3>2 DEF JoinInv
  <2> QED
    BY <2>1, <2>2
<1> QED
  BY <1>1, FlowInvariant, PTL
-----------------------------------------------------------------------------
(* The job is at work until it is complete. *)

\* A message in some block.
AtWork ==
  \/ prepare = "posted" \/ cleanups > 0
  \/ \E s \in Sequences : sequence[s] = "posted" \/ rollups[s] > 0 \/ finished[s] > 0

\* As long as nobody has set _complete, a job with one report sequence has a message in some
\* block: the join never counts too few rollups to send the last message
\* (RollupJob.cs:222-228), unless an event that throws has swallowed one.
JobAtWork ==
  "event" \notin faults /\ OneSequence /\ job = "wait" /\ complete = "pending" => AtWork

\* What the join has counted and what is on its way is all of the sequence's rollups.
AllCounted(s) ==
  /\ completeCount + rollups[s] + finished[s] = plan[s]
  /\ completeCount = plan[s] => cleanups > 0

\* Without events that throw, no message is lost before the job is complete.
NoneLost ==
  /\ faulted = {}
  /\ job = "wait" => prepare # "none"
  /\ prepare = "taken" /\ plan = NoPlan => cleanups > 0
  /\ \A s \in DOMAIN plan : sequence[s] # "none"
  /\ \A s \in DOMAIN plan : DOMAIN plan = {s} /\ sequence[s] = "taken" => AllCounted(s)

WorkInv == "event" \notin faults /\ complete = "pending" => NoneLost

LEMMA WorkInit == Init => WorkInv
  BY DEF Init, WorkInv, NoneLost, NoPlan

\* What may throw is fixed for a behaviour, and _complete is set once.
LEMMA StillPending == [Next]_vars => faults' = faults /\ (complete' = "pending" => complete = "pending")
  BY DEF Next, vars, Begin, End, PrepareThreadGroup, ProcessReportSequence, ProcessRollup,
         WaitForAllRollups, Cleanup, QueryFails, MessageLost, DropErrorEvent, SetException

LEMMA WorkNext ==
  ASSUME FlowIInv, WorkInv, [Next]_vars, "event" \notin faults', complete' = "pending"
  PROVE  NoneLost'
<1> USE DEF FlowIInv
<1>0. "event" \notin faults /\ complete = "pending" /\ NoneLost
  BY StillPending DEF WorkInv
<1>1. CASE UNCHANGED vars
  BY <1>0, <1>1 DEF vars, joinVars, cleanupVars, NoneLost, AllCounted
<1>2. CASE Begin \/ End
  BY <1>0, <1>2 DEF Begin, End, joinVars, cleanupVars, NoneLost, AllCounted
\* A call that fails completes the job; without it no message is lost.
<1>3. \A b \in Blocks : ~QueryFails(b) /\ ~MessageLost(b)
  BY <1>0 DEF QueryFails, MessageLost, DropErrorEvent, SetException, NoneLost
<1>4. CASE PrepareThreadGroup
  <2>1. /\ prepare' = "taken" /\ plan = NoPlan /\ UNCHANGED faulted
        /\ \/ /\ plan' \in Plans
              /\ sequence' = [s \in Sequences |-> IF s \in DOMAIN plan' THEN "posted" ELSE "none"]
           \/ cleanups' = cleanups + 1 /\ UNCHANGED <<plan, sequence>>
    BY <1>3, <1>4 DEF PrepareThreadGroup, TakePrepare, FlowInv, Blocks
  <2>2. CASE plan' \in Plans
    <3>1. DOMAIN plan' \subseteq Sequences /\ DOMAIN plan' # {}
      BY <2>2, PlanShape
    <3>2. plan' # NoPlan
      BY <3>1 DEF NoPlan
    <3>3. CASE sequence' = [s \in Sequences |-> IF s \in DOMAIN plan' THEN "posted" ELSE "none"]
      BY <1>0, <2>1, <3>1, <3>2, <3>3 DEF NoneLost
    <3> QED
      BY <2>1, <3>2, <3>3
  <2>3. CASE cleanups' = cleanups + 1 /\ UNCHANGED <<plan, sequence>>
    <3>1. cleanups' > 0 /\ DOMAIN plan' = {}
      BY <2>1, <2>3 DEF TypeOK, NoPlan
    <3> QED
      BY <1>0, <2>1, <3>1 DEF NoneLost
  <2> QED
    BY <2>1, <2>2, <2>3
<1>5. ASSUME NEW s \in Sequences, ProcessReportSequence(s) PROVE NoneLost'
  <2>1. /\ sequence[s] = "posted" /\ sequence' = [sequence EXCEPT ![s] = "taken"]
        /\ PostRollups(s) /\ UNCHANGED <<faulted, job, plan, prepare, joinVars>>
    BY <1>3, <1>5 DEF ProcessReportSequence, TakeSequence, Blocks
  <2>2. s \in DOMAIN plan /\ plan # NoPlan
    BY <2>1 DEF FlowInv, NoPlan
  <2>3. DOMAIN plan \subseteq Sequences /\ plan[s] \in Nat
    BY <2>2, PlanShape DEF TypeOK
  <2>4. DOMAIN plan = {s} => AllCounted(s)'
    <3>1. rollups'[s] = plan[s] /\ finished'[s] = 0
      BY <2>1 DEF PostRollups, TypeOK, FlowInv, Idle, joinVars
    <3>2. DOMAIN plan = {s} => completeCount' = 0 /\ cleanups = 0
      BY <2>1 DEF JoinInv, TypeOK, joinVars
    <3>3. plan[s] = 0 => cleanups' = cleanups + 1
      BY <2>1 DEF PostRollups
    <3> QED
      BY <2>1, <2>3, <3>1, <3>2, <3>3 DEF AllCounted
  <2>5. \A t \in DOMAIN plan : sequence'[t] # "none"
    BY <1>0, <2>1, <2>3 DEF NoneLost, TypeOK
  <2> QED
    BY <1>0, <2>1, <2>2, <2>4, <2>5 DEF NoneLost
<1>6. ASSUME NEW s \in Sequences, ProcessRollup(s) PROVE NoneLost'
  <2>1. /\ rollups[s] > 0 /\ rollups' = [rollups EXCEPT ![s] = @ - 1]
        /\ finished' = [finished EXCEPT ![s] = @ + 1]
        /\ UNCHANGED <<faulted, job, plan, prepare, sequence, completeCount, cleanups>>
    BY <1>3, <1>6 DEF ProcessRollup, TakeRollup, cleanupVars, Blocks
  <2>2. ASSUME NEW t \in DOMAIN plan, DOMAIN plan = {t}, sequence[t] = "taken"
        PROVE  AllCounted(t)'
    <3>1. t \in Sequences
      BY <2>2, PlanShape DEF TypeOK
    <3>2. rollups'[t] + finished'[t] = rollups[t] + finished[t]
      BY <2>1, <3>1 DEF TypeOK
    <3>3. /\ rollups'[t] \in Int /\ finished'[t] \in Int /\ rollups[t] \in Int
          /\ finished[t] \in Int /\ completeCount \in Int
      BY <2>1, <3>1 DEF TypeOK
    <3> QED
      BY <1>0, <2>1, <2>2, <3>2, <3>3 DEF NoneLost, AllCounted
  <2> QED
    BY <1>0, <2>1, <2>2 DEF NoneLost
<1>7. ASSUME NEW s \in Sequences, WaitForAllRollups(s) PROVE NoneLost'
  <2>1. /\ finished[s] > 0 /\ finished' = [finished EXCEPT ![s] = @ - 1]
        /\ completeCount' = completeCount + 1
        /\ cleanups' = IF IsLast(s) THEN cleanups + 1 ELSE cleanups
        /\ UNCHANGED <<faulted, job, plan, prepare, sequence, rollups>>
    BY <1>3, <1>7 DEF WaitForAllRollups, TakeFinished, Blocks
  <2>2. sequence[s] = "taken" /\ plan # NoPlan
    BY <2>1 DEF FlowInv, Idle, NoPlan, TypeOK
  <2>3. ASSUME NEW t \in DOMAIN plan, DOMAIN plan = {t}, sequence[t] = "taken"
        PROVE  AllCounted(t)'
    <3>1. t \in Sequences /\ s = t
      BY <2>2, <2>3, PlanShape DEF TypeOK, FlowInv
    <3>2. finished'[t] = finished[t] - 1
      BY <2>1, <3>1 DEF TypeOK
    <3>3. /\ rollups[t] \in Int /\ finished[t] \in Int /\ completeCount \in Int
          /\ cleanups \in Nat
      BY <3>1 DEF TypeOK
    <3>4. completeCount' = plan[t] => cleanups' = cleanups + 1
      BY <2>1, <3>1 DEF IsLast
    <3> QED
      BY <1>0, <2>1, <2>3, <3>2, <3>3, <3>4 DEF NoneLost, AllCounted
  <2> QED
    BY <1>0, <2>1, <2>2, <2>3 DEF NoneLost
<1>8. CASE Cleanup
  BY <1>0, <1>3, <1>8 DEF Cleanup, DropErrorEvent, SetException, Blocks
<1> QED
  BY <1>1, <1>2, <1>4, <1>5, <1>6, <1>7, <1>8 DEF Next

\* Without events that throw, a job with one report sequence that is not complete has a
\* message in some block, however its calls fail. It is what JobEnds rests on.
THEOREM JobNeverIdle == Spec => []JobAtWork
<1>1. Init => FlowIInv /\ WorkInv
  BY FlowInit, WorkInit
<1>2. FlowIInv /\ WorkInv /\ [Next]_vars => (FlowIInv /\ WorkInv)'
  BY FlowNext, WorkNext DEF WorkInv
<1>3. FlowIInv /\ WorkInv => JobAtWork
  <2> SUFFICES ASSUME FlowIInv, NoneLost, OneSequence, job = "wait"
               PROVE  AtWork
    BY DEF JobAtWork, WorkInv
  <2> USE DEF FlowIInv, NoneLost, AtWork
  <2>1. CASE prepare # "taken"
    BY <2>1 DEF TypeOK, MessageState
  <2>2. CASE prepare = "taken" /\ plan = NoPlan
    BY <2>2
  <2>3. CASE prepare = "taken" /\ plan # NoPlan
    <3>1. PICK s \in Sequences : DOMAIN plan = {s}
      BY <2>3 DEF OneSequence, FlowInv
    <3>2. plan[s] \in Nat
      BY <3>1, PlanShape DEF TypeOK
    <3>3. sequence[s] = "posted" \/ AllCounted(s)
      BY <3>1 DEF TypeOK, MessageState
    <3>4. rollups[s] \in Nat /\ finished[s] \in Nat /\ completeCount \in Nat
      BY DEF TypeOK
    <3> QED
      BY <3>1, <3>2, <3>3, <3>4 DEF AllCounted
  <2> QED
    BY <2>1, <2>2, <2>3
<1> QED
  BY <1>1, <1>2, <1>3, PTL DEF Spec
=============================================================================
