-------------------------- MODULE ExclusiveJobsProofs --------------------------
(***************************************************************************)
(* Proofs about ExclusiveJobs for every set of jobs and every bound.       *)
(*                                                                         *)
(* Tickets are distinct whatever throws.  That exclusive jobs exclude each *)
(* other and everybody else needs that nothing throws between drawing a    *)
(* ticket and being served: then the counter is the ticket of the job that *)
(* is served, and every other holder's ticket is above it.                 *)
(***************************************************************************)
EXTENDS ExclusiveJobs, TLAPS

-----------------------------------------------------------------------------
(* The type invariant. *)

LEMMA TypeInit == Init => TypeOK
  BY JobsAssumption DEF Init, TypeOK, States, None

LEMMA TypeNext == TypeOK /\ [Next]_vars => TypeOK'
<1> SUFFICES ASSUME TypeOK, [Next]_vars PROVE TypeOK'
  OBVIOUS
<1> USE DEF TypeOK, States, None, Move, jobVars
<1>1. CASE UNCHANGED vars
  BY <1>1 DEF vars
<1>2. ASSUME NEW j \in Jobs, Fire(j) PROVE TypeOK'
  BY <1>2, JobsAssumption DEF Fire
<1>3. ASSUME NEW j \in Jobs, Execute(j) PROVE TypeOK'
  <2>1. CASE CheckIds(j)
    BY <2>1 DEF CheckIds
  <2>2. CASE Begin(j)
    BY <2>2 DEF Begin
  <2>3. CASE Draw(j)
    BY <2>3 DEF Draw
  <2>4. CASE OwnTurn(j)
    BY <2>4 DEF OwnTurn
  <2>5. CASE OthersDone(j)
    BY <2>5 DEF OthersDone
  <2>6. CASE AcquireFails(j)
    BY <2>6 DEF AcquireFails
  <2>7. CASE RunImplementation(j)
    BY <2>7 DEF RunImplementation
  <2>8. CASE ReleaseExclusive(j)
    BY <2>8 DEF ReleaseExclusive, QueueId
  <2> QED
    BY <1>3, <2>1, <2>2, <2>3, <2>4, <2>5, <2>6, <2>7, <2>8
       DEF Execute, AcquireExclusive
<1>4. CASE InitScheduler
  BY <1>4 DEF InitScheduler
<1>5. CASE Reset
  BY <1>5, JobsAssumption DEF Reset
<1>6. CASE ShutdownScheduler
  BY <1>6 DEF ShutdownScheduler
<1> QED
  BY <1>1, <1>2, <1>3, <1>4, <1>5, <1>6 DEF Next

\* Every variable keeps its type, and an execution that waits has a ticket.
THEOREM TypeCorrect == Spec => []TypeOK
<1>1. Init => TypeOK
  BY TypeInit
<1>2. TypeOK /\ [Next]_vars => TypeOK'
  BY TypeNext
<1> QED
  BY <1>1, <1>2, PTL DEF Spec

-----------------------------------------------------------------------------
(* Tickets. *)

\* A scheduler that is not up and not stopping executes nothing.
Quiet == scheduler \in {"down", "standby"} => \A j \in Jobs : pc[j] = "idle"

\* An execution has no ticket before it draws one.
Unticketed == \A j \in Jobs : pc[j] \in {"fired", "acquire"} => queueId[j] = None

TicketsDrawn == \A j \in Holders : queueId[j] < nextId

TicketInv == TypeOK /\ Quiet /\ Unticketed /\ TicketsDrawn /\ TicketsDistinct

LEMMA TicketInit == Init => TicketInv
  BY TypeInit DEF Init, TicketInv, Quiet, Unticketed, TicketsDrawn, TicketsDistinct, Holders

\* Steps that leave the holders and the tickets alone, or drop a holder.
LEMMA TicketKept ==
  ASSUME TicketInv, Holders' \subseteq Holders, UNCHANGED <<queueId, nextId>>
  PROVE  TicketsDrawn' /\ TicketsDistinct'
  BY DEF TicketInv, TicketsDrawn, TicketsDistinct

LEMMA UnticketedNext == TicketInv /\ [Next]_vars => Unticketed'
<1> SUFFICES ASSUME TicketInv, [Next]_vars, NEW k \in Jobs,
                    pc'[k] \in {"fired", "acquire"}
             PROVE  queueId'[k] = None
  BY DEF Unticketed
<1> USE DEF TicketInv, TypeOK, Unticketed, Move, jobVars
<1>1. ASSUME NEW j \in Jobs, Fire(j) PROVE queueId'[k] = None
  BY <1>1 DEF Fire
<1>2. ASSUME NEW j \in Jobs, Execute(j) PROVE queueId'[k] = None
  BY <1>2 DEF Execute, AcquireExclusive, CheckIds, Begin, Draw, OwnTurn,
              OthersDone, AcquireFails, RunImplementation, ReleaseExclusive
<1>3. CASE UNCHANGED <<pc, queueId>>
  BY <1>3
<1> QED
  BY <1>1, <1>2, <1>3 DEF Next, vars, InitScheduler, Reset, ShutdownScheduler

LEMMA TicketNext == TicketInv /\ [Next]_vars => TicketInv'
<1> SUFFICES ASSUME TicketInv, [Next]_vars
             PROVE  Quiet' /\ TicketsDrawn' /\ TicketsDistinct'
  BY TypeNext, UnticketedNext DEF TicketInv
<1> USE DEF TicketInv
<1>1. CASE UNCHANGED vars
  BY <1>1 DEF vars, jobVars, Quiet, TicketsDrawn, TicketsDistinct, Holders
<1>2. ASSUME NEW j \in Jobs, Fire(j)
      PROVE  Quiet' /\ TicketsDrawn' /\ TicketsDistinct'
  <2>1. Quiet'
    BY <1>2 DEF Fire, Quiet
  <2>2. \A k \in Holders' : k # j /\ k \in Holders /\ queueId'[k] = queueId[k]
    BY <1>2 DEF Fire, Move, Holders, TypeOK
  <2> QED
    BY <1>2, <2>1, <2>2 DEF Fire, TicketsDrawn, TicketsDistinct
<1>3. ASSUME NEW j \in Jobs, Execute(j)
      PROVE  Quiet' /\ TicketsDrawn' /\ TicketsDistinct'
  <2>1. Quiet'
    <3>1. pc[j] # "idle" /\ scheduler' = scheduler
      BY <1>3 DEF Execute, AcquireExclusive, CheckIds, Begin, Draw, OwnTurn,
                  OthersDone, AcquireFails, RunImplementation, ReleaseExclusive
    <3> QED
      BY <3>1 DEF Quiet
  <2>2. CASE Draw(j)
    <3>1. nextId \in Nat /\ nextId' = nextId + 1
      BY <2>2 DEF Draw, TypeOK
    <3>2. queueId'[j] = nextId
      BY <2>2 DEF Draw, TypeOK
    <3>3. \A k \in Holders' : k # j => k \in Holders /\ queueId'[k] = queueId[k]
      BY <2>2 DEF Draw, Move, Holders, TypeOK
    <3>4. \A k \in Holders : queueId[k] \in Int /\ queueId[k] < nextId
      BY DEF Holders, TypeOK, None, TicketsDrawn
    <3>5. TicketsDrawn'
      BY <3>1, <3>2, <3>3, <3>4 DEF TicketsDrawn
    <3>6. TicketsDistinct'
      BY <3>1, <3>2, <3>3, <3>4 DEF TicketsDistinct
    <3> QED
      BY <2>1, <3>5, <3>6
  <2>3. ASSUME ~Draw(j) PROVE Holders' \subseteq Holders /\ UNCHANGED <<queueId, nextId>>
    <3>1. UNCHANGED <<queueId, nextId>>
      BY <1>3, <2>3 DEF Execute, AcquireExclusive, CheckIds, Begin, OwnTurn,
                 OthersDone, AcquireFails, RunImplementation, ReleaseExclusive
    <3>2. CASE CheckIds(j)
      BY <3>2 DEF CheckIds, Move, Holders, TypeOK, Unticketed
    <3>3. CASE Begin(j)
      BY <3>3 DEF Begin, Move, Holders, TypeOK
    <3>4. CASE OwnTurn(j) \/ OthersDone(j)
      BY <3>4 DEF OwnTurn, OthersDone, Move, Holders, TypeOK
    <3>5. CASE AcquireFails(j)
      BY <3>5 DEF AcquireFails, Move, Holders, TypeOK, Unticketed
    <3>6. CASE RunImplementation(j)
      BY <3>6 DEF RunImplementation, Move, Holders, TypeOK
    <3>7. CASE ReleaseExclusive(j)
      BY <3>7 DEF ReleaseExclusive, Move, Holders, TypeOK
    <3> QED
      BY <1>3, <2>3, <3>1, <3>2, <3>3, <3>4, <3>5, <3>6, <3>7
         DEF Execute, AcquireExclusive
  <2> QED
    BY <2>1, <2>2, <2>3, TicketKept
<1>4. CASE InitScheduler
  <2>1. Holders' = {}
    BY <1>4 DEF InitScheduler, jobVars, Quiet, Holders
  <2> QED
    BY <1>4, <2>1 DEF InitScheduler, jobVars, Quiet, TicketsDrawn, TicketsDistinct
<1>5. CASE Reset
  BY <1>5, TicketKept DEF Reset, jobVars, Quiet, Holders
<1>6. CASE ShutdownScheduler
  BY <1>6, TicketKept DEF ShutdownScheduler, jobVars, Quiet, Holders, Executing
<1> QED
  BY <1>1, <1>2, <1>3, <1>4, <1>5, <1>6 DEF Next

\* Two executions never hold the same ticket, whatever throws.
THEOREM TicketsAreDistinct == Spec => []TicketsDistinct
<1>1. Init => TicketInv
  BY TicketInit
<1>2. TicketInv /\ [Next]_vars => TicketInv'
  BY TicketNext
<1>3. TicketInv => TicketsDistinct
  BY DEF TicketInv
<1> QED
  BY <1>1, <1>2, <1>3, PTL DEF Spec

-----------------------------------------------------------------------------
(* Exclusion. *)

\* Only exclusive jobs queue, and one that is past the draw has its ticket.
Queueing ==
  \A j \in Jobs :
    /\ pc[j] \in {"acquire", "turn", "others", "release"} => j \in Exclusive
    /\ j \in Exclusive /\ pc[j] \in {"turn", "others", "running", "release"}
         => queueId[j] # None

\* The counter is the ticket of the job that is served, and passes nobody's.
Serving ==
  \A e \in Exclusive :
    /\ e \in Holders => runningId <= queueId[e]
    /\ pc[e] \in {"others", "running", "release"} => queueId[e] = runningId

Alone ==
  \A e \in Exclusive, j \in Jobs \ Exclusive : pc[e] = "running" => pc[j] # "running"

Counters == runningId <= nextId

ExclusionInv == TicketInv /\ Queueing /\ Counters /\ Serving /\ Alone

LEMMA ExclusionInit == Init => ExclusionInv
  BY TicketInit, JobsAssumption
     DEF Init, ExclusionInv, Queueing, Counters, Serving, Alone, Holders

LEMMA QueueingNext ==
  ASSUME NoTicketLost, ExclusionInv, [Next]_vars
  PROVE  Queueing'
<1> SUFFICES ASSUME NEW k \in Jobs
    PROVE  /\ pc'[k] \in {"acquire", "turn", "others", "release"} => k \in Exclusive
           /\ k \in Exclusive /\ pc'[k] \in {"turn", "others", "running", "release"}
                => queueId'[k] # None
  BY DEF Queueing
<1> USE DEF ExclusionInv, TicketInv, TypeOK, Queueing, Move, jobVars
<1>1. ASSUME NEW j \in Jobs, Fire(j)
      PROVE  pc'[k] = "fired" \/ (pc'[k] = pc[k] /\ queueId'[k] = queueId[k])
  BY <1>1 DEF Fire
<1>2. CASE \E j \in Jobs : Execute(j)
  <2> PICK j \in Jobs : Execute(j)
    BY <1>2
  <2>1. CASE Draw(j)
    BY <2>1 DEF Draw, None
  <2>2. CASE AcquireFails(j)
    BY <2>2 DEF AcquireFails, NoTicketLost
  <2>3. CASE CheckIds(j) \/ Begin(j)
    BY <2>3 DEF CheckIds, Begin
  <2>4. CASE OwnTurn(j) \/ OthersDone(j) \/ RunImplementation(j) \/ ReleaseExclusive(j)
    BY <2>4 DEF OwnTurn, OthersDone, RunImplementation, ReleaseExclusive
  <2> QED
    BY <2>1, <2>2, <2>3, <2>4 DEF Execute, AcquireExclusive
<1>3. CASE UNCHANGED <<pc, queueId>>
  BY <1>3
<1> QED
  BY <1>1, <1>2, <1>3 DEF Next, vars, InitScheduler, Reset, ShutdownScheduler

\* What a step of job j other than the draw and the release leaves alone.
LEMMA ServingKept ==
  ASSUME ExclusionInv, NEW j \in Jobs, UNCHANGED <<queueId, runningId>>,
         NEW p \in States, pc' = [pc EXCEPT ![j] = p],
         j \in Exclusive /\ p \in {"turn", "others", "running", "release"} => j \in Holders,
         j \in Exclusive /\ p \in {"others", "running", "release"} => queueId[j] = runningId
  PROVE  Serving'
<1> SUFFICES ASSUME NEW e \in Exclusive
    PROVE  /\ e \in Holders' => runningId <= queueId[e]
           /\ pc'[e] \in {"others", "running", "release"} => queueId[e] = runningId
  BY DEF Serving
<1>1. e \in Jobs
  BY JobsAssumption
<1>2. CASE e = j
  <2>1. pc'[e] = p
    BY <1>2 DEF ExclusionInv, TicketInv, TypeOK
  <2>2. e \in Holders' => e \in Holders
    BY <1>2, <2>1 DEF Holders
  <2> QED
    BY <1>2, <2>1, <2>2 DEF ExclusionInv, Serving
<1>3. CASE e # j
  <2>1. pc'[e] = pc[e]
    BY <1>1, <1>3 DEF ExclusionInv, TicketInv, TypeOK
  <2>2. e \in Holders' => e \in Holders
    BY <2>1 DEF Holders
  <2> QED
    BY <2>1, <2>2 DEF ExclusionInv, Serving
<1> QED
  BY <1>2, <1>3

LEMMA ServingNext ==
  ASSUME NoTicketLost, ExclusionInv, [Next]_vars
  PROVE  Serving'
<1> USE DEF ExclusionInv
<1>1. CASE UNCHANGED <<pc, queueId, runningId>>
  BY <1>1 DEF Serving, Holders
<1>2. ASSUME NEW j \in Jobs, Fire(j) PROVE Serving'
  BY <1>2, JobsAssumption DEF Fire, Move, Serving, Holders, TicketInv, TypeOK
<1>3. ASSUME NEW j \in Jobs, Execute(j) PROVE Serving'
  <2>1. CASE CheckIds(j)
    BY <2>1, ServingKept DEF CheckIds, Move, States
  <2>2. CASE Begin(j)
    BY <2>2, ServingKept DEF Begin, Move, States
  <2>3. CASE OwnTurn(j)
    BY <2>3, ServingKept DEF OwnTurn, Move, States, Holders, Queueing
  <2>4. CASE OthersDone(j)
    BY <2>4, ServingKept DEF OthersDone, Move, States, Holders, Queueing, Serving
  <2>5. CASE AcquireFails(j)
    BY <2>5 DEF AcquireFails, NoTicketLost
  <2>6. CASE RunImplementation(j)
    BY <2>6, ServingKept DEF RunImplementation, Move, States, Holders, Queueing, Serving
  <2>7. CASE Draw(j)
    <3> SUFFICES ASSUME NEW e \in Exclusive
        PROVE  /\ e \in Holders' => runningId <= queueId'[e]
               /\ pc'[e] \in {"others", "running", "release"} => queueId'[e] = runningId
      BY <2>7 DEF Draw, Serving
    <3>1. e \in Jobs
      BY JobsAssumption
    <3>2. runningId <= nextId
      BY DEF Counters
    <3>3. CASE e = j
      BY <2>7, <3>2, <3>3 DEF Draw, Move, TicketInv, TypeOK
    <3>4. CASE e # j
      BY <2>7, <3>1, <3>4 DEF Draw, Move, TicketInv, TypeOK, Holders, Serving
    <3> QED
      BY <3>3, <3>4
  <2>8. CASE ReleaseExclusive(j)
    <3>1. j \in Exclusive /\ j \in Holders /\ queueId[j] = runningId
      BY <2>8 DEF ReleaseExclusive, Queueing, Serving, Holders
    <3>2. runningId' \in {runningId, runningId + 1} /\ UNCHANGED queueId
      BY <2>8, <3>1 DEF ReleaseExclusive, QueueId, Holders
    <3>3. pc'[j] = "idle" /\ \A e \in Jobs \ {j} : pc'[e] = pc[e]
      BY <2>8 DEF ReleaseExclusive, Move, TicketInv, TypeOK
    <3> SUFFICES ASSUME NEW e \in Exclusive
        PROVE  /\ e \in Holders' => runningId' <= queueId[e]
               /\ pc'[e] \in {"others", "running", "release"} => queueId[e] = runningId'
      BY <3>2 DEF Serving
    <3>4. e \in Jobs
      BY JobsAssumption
    <3>5. CASE e = j
      BY <3>3, <3>5 DEF Holders
    <3>6. ASSUME e # j, e \in Holders PROVE queueId[e] # runningId
      BY <3>1, <3>6 DEF TicketInv, TicketsDistinct
    <3>7. ASSUME e # j, e \in Holders' PROVE runningId' <= queueId[e]
      <4>1. e \in Holders
        BY <3>2, <3>3, <3>7 DEF Holders
      <4>2. runningId <= queueId[e] /\ queueId[e] # runningId
        BY <3>6, <3>7, <4>1 DEF Serving
      <4>3. queueId[e] \in Int /\ runningId \in Nat
        BY <3>4 DEF TicketInv, TypeOK, None
      <4> QED
        BY <3>2, <4>2, <4>3
    <3>8. ASSUME e # j PROVE pc'[e] \notin {"others", "running", "release"}
      <4>1. SUFFICES ASSUME pc[e] \in {"others", "running", "release"} PROVE FALSE
        BY <3>3, <3>4, <3>8
      <4>2. e \in Holders /\ queueId[e] = runningId
        BY <3>4, <4>1 DEF Holders, Queueing, Serving
      <4> QED
        BY <3>6, <3>8, <4>2
    <3> QED
      BY <3>5, <3>7, <3>8
  <2> QED
    BY <1>3, <2>1, <2>2, <2>3, <2>4, <2>5, <2>6, <2>7, <2>8
       DEF Execute, AcquireExclusive
<1>4. CASE InitScheduler
  BY <1>4, JobsAssumption DEF InitScheduler, jobVars, TicketInv, Quiet, Serving, Holders
<1>5. CASE Reset
  BY <1>5, <1>1 DEF Reset, jobVars
<1>6. CASE ShutdownScheduler
  BY <1>6, <1>1 DEF ShutdownScheduler, jobVars
<1> QED
  BY <1>1, <1>2, <1>3, <1>4, <1>5, <1>6 DEF Next, vars, jobVars
LEMMA CountersNext == ExclusionInv /\ [Next]_vars => Counters'
<1> SUFFICES ASSUME ExclusionInv, [Next]_vars PROVE Counters'
  OBVIOUS
<1> USE DEF ExclusionInv, TicketInv, TypeOK, Counters, jobVars
<1>1. CASE UNCHANGED <<nextId, runningId>>
  BY <1>1
<1>2. ASSUME NEW j \in Jobs, Draw(j) PROVE Counters'
  BY <1>2 DEF Draw
<1>3. ASSUME NEW j \in Jobs, ReleaseExclusive(j) PROVE Counters'
  <2>1. j \in Holders /\ j \in Exclusive
    BY <1>3 DEF ReleaseExclusive, Queueing, Holders
  <2>2. queueId[j] \in Int /\ queueId[j] < nextId
    BY <2>1 DEF TicketsDrawn, None
  <2> QED
    BY <1>3, <2>1, <2>2 DEF ReleaseExclusive, QueueId, Holders
<1>4. CASE InitScheduler
  BY <1>4 DEF InitScheduler
<1> QED
  BY <1>1, <1>2, <1>3, <1>4
     DEF Next, vars, Fire, Execute, AcquireExclusive, CheckIds, Begin, OwnTurn,
         OthersDone, AcquireFails, RunImplementation, Reset, ShutdownScheduler

LEMMA AloneNext ==
  ASSUME NoTicketLost, ExclusionInv, [Next]_vars
  PROVE  Alone'
<1> SUFFICES ASSUME NEW e \in Exclusive, NEW k \in Jobs \ Exclusive,
                    pc'[e] = "running", pc'[k] = "running"
             PROVE  FALSE
  BY DEF Alone
<1> USE DEF ExclusionInv, TicketInv, TypeOK, Move, jobVars
<1>0. e \in Jobs /\ e # k /\ ~(pc[e] = "running" /\ pc[k] = "running")
  BY JobsAssumption DEF Alone
<1>1. ASSUME NEW j \in Jobs, CheckIds(j) PROVE FALSE
  <2>1. j = k /\ pc[e] = "running" /\ nextId = runningId
    BY <1>0, <1>1 DEF CheckIds
  <2>2. e \in Holders
    BY <1>0, <2>1 DEF Holders, Queueing
  <2>3. runningId <= queueId[e] /\ queueId[e] < nextId
    BY <2>2 DEF Serving, TicketsDrawn
  <2>4. queueId[e] \in Int
    BY <1>0 DEF None
  <2> QED
    BY <2>1, <2>3, <2>4
<1>2. ASSUME NEW j \in Jobs, OthersDone(j) PROVE FALSE
  <2>1. pc[j] = "others" /\ j \in Exclusive /\ j # k
    BY <1>2 DEF OthersDone, Queueing
  <2>2. pc[k] = "running"
    BY <1>2, <2>1 DEF OthersDone
  <2> QED
    BY <1>2, <2>2 DEF OthersDone, Executing
<1>3. ASSUME NEW j \in Jobs, Fire(j) PROVE FALSE
  BY <1>0, <1>3 DEF Fire
<1>4. ASSUME NEW j \in Jobs, Execute(j), ~CheckIds(j), ~OthersDone(j) PROVE FALSE
  BY <1>0, <1>4 DEF Execute, AcquireExclusive, Begin, Draw, OwnTurn,
                    AcquireFails, RunImplementation, ReleaseExclusive
<1>5. CASE UNCHANGED pc
  BY <1>0, <1>5
<1> QED
  BY <1>1, <1>2, <1>3, <1>4, <1>5 DEF Next, vars, InitScheduler, Reset, ShutdownScheduler

LEMMA ExclusionStep ==
  ASSUME NoTicketLost PROVE ExclusionInv /\ [Next]_vars => ExclusionInv'
<1> SUFFICES ASSUME ExclusionInv, [Next]_vars PROVE ExclusionInv'
  OBVIOUS
<1>1. TicketInv'
  BY TicketNext DEF ExclusionInv
<1> QED
  BY <1>1, QueueingNext, CountersNext, ServingNext, AloneNext DEF ExclusionInv

\* What may throw is fixed for a behaviour.
LEMMA FaultsFixed == [Next]_vars => faults' = faults
  BY DEF Next, vars, Fire, Execute, AcquireExclusive, CheckIds, Begin, Draw,
         OwnTurn, OthersDone, AcquireFails, RunImplementation, ReleaseExclusive,
         InitScheduler, Reset, ShutdownScheduler

JobsInv == TicketInv /\ (NoTicketLost => ExclusionInv)

LEMMA JobsInvariant == Spec => []JobsInv
<1>1. Init => JobsInv
  BY TicketInit, ExclusionInit DEF JobsInv
<1>2. JobsInv /\ [Next]_vars => JobsInv'
  <2> SUFFICES ASSUME JobsInv, [Next]_vars PROVE JobsInv'
    OBVIOUS
  <2>1. TicketInv'
    BY TicketNext DEF JobsInv
  <2>2. ASSUME NoTicketLost' PROVE ExclusionInv'
    <3>1. NoTicketLost
      BY <2>2, FaultsFixed DEF NoTicketLost
    <3> QED
      BY <3>1, ExclusionStep DEF JobsInv
  <2> QED
    BY <2>1, <2>2 DEF JobsInv
<1> QED
  BY <1>1, <1>2, PTL DEF Spec

\* While an exclusive job is at work no other job is, if nothing throws between
\* the draw of a ticket and its turn.
THEOREM ExclusiveRunsAlone == Spec => []Exclusion
<1>1. JobsInv => Exclusion
  <2> SUFFICES ASSUME JobsInv, NoTicketLost,
                      NEW e \in Running \cap Exclusive, NEW j \in Running
               PROVE  j = e
    BY DEF Exclusion
  <2> USE DEF JobsInv, ExclusionInv
  <2>1. e \in Jobs /\ j \in Jobs /\ pc[e] = "running" /\ pc[j] = "running"
    BY DEF Running
  <2>2. j \in Exclusive
    BY <2>1 DEF Alone
  <2>3. j \in Holders /\ e \in Holders
    BY <2>1, <2>2 DEF Holders, Queueing
  <2>4. queueId[j] = runningId /\ queueId[e] = runningId
    BY <2>1, <2>2 DEF Serving
  <2> QED
    BY <2>3, <2>4 DEF TicketInv, TicketsDistinct
<1> QED
  BY <1>1, JobsInvariant, PTL

\* The counter never passes a job that waits or is served, on the same proviso.
THEOREM NobodyIsPassed == Spec => []NoneIsPassed
<1>1. JobsInv => NoneIsPassed
  <2> SUFFICES ASSUME JobsInv, NoTicketLost, NEW j \in Waiters \cup Served
               PROVE  runningId <= queueId[j] /\ queueId[j] < nextId
    BY DEF NoneIsPassed
  <2> USE DEF JobsInv, ExclusionInv
  <2>1. j \in Exclusive /\ j \in Jobs /\ pc[j] \in {"turn", "others", "running"}
    BY JobsAssumption DEF Waiters, Served, Queueing
  <2>2. j \in Holders
    BY <2>1 DEF Holders, Queueing
  <2> QED
    BY <2>1, <2>2 DEF TicketInv, Serving, TicketsDrawn
<1> QED
  BY <1>1, JobsInvariant, PTL
-----------------------------------------------------------------------------
(* The queue moves. *)

\* Every ticket from the counter on is held: there is always a job whose turn it is, as
\* long as any job waits (MaintenanceJob.cs:127-144 polls the counter, and only a job
\* that releases changes it).
QueueMoves ==
  AllReleased =>
    \A t \in Nat : runningId <= t /\ t < nextId => \E e \in Holders \cap Exclusive : queueId[e] = t

\* A step that changes no counter and lets no holder go.
LEMMA HoldersStay ==
  ASSUME TypeOK, QueueMoves, AllReleased, UNCHANGED <<nextId, runningId>>,
         \A e \in Holders \cap Exclusive : e \in Holders' /\ queueId'[e] = queueId[e]
  PROVE  QueueMoves'
  BY DEF QueueMoves

LEMMA QueueMovesNext ==
  ASSUME AllReleased, ExclusionInv, QueueMoves, [Next]_vars
  PROVE  QueueMoves'
<1> USE DEF ExclusionInv, TicketInv
<1>1. CASE UNCHANGED <<pc, queueId, nextId, runningId>>
  BY <1>1, HoldersStay DEF Holders
<1>2. ASSUME NEW j \in Jobs, Fire(j) PROVE QueueMoves'
  <2>1. \A e \in Holders \cap Exclusive : e \in Holders' /\ queueId'[e] = queueId[e]
    BY <1>2 DEF Fire, Move, Holders, TypeOK
  <2> QED
    BY <1>2, <2>1, HoldersStay DEF Fire
<1>3. ASSUME NEW j \in Jobs, Execute(j) PROVE QueueMoves'
  <2>1. CASE CheckIds(j) \/ Begin(j) \/ OwnTurn(j) \/ OthersDone(j) \/ RunImplementation(j)
    <3>1. UNCHANGED <<queueId, nextId, runningId>>
      BY <2>1 DEF CheckIds, Begin, OwnTurn, OthersDone, RunImplementation
    <3>2. j \in Holders \cap Exclusive => pc'[j] \in {"turn", "others", "running", "release"}
      BY <2>1 DEF CheckIds, Begin, OwnTurn, OthersDone, RunImplementation, Move,
                  Holders, TypeOK
    <3>3. \A e \in Jobs \ {j} : pc'[e] = pc[e]
      BY <2>1 DEF CheckIds, Begin, OwnTurn, OthersDone, RunImplementation, Move, TypeOK
    <3> QED
      BY <3>1, <3>2, <3>3, HoldersStay DEF Holders
  <2>2. CASE Draw(j)
    <3>1. j \in Holders' \cap Exclusive /\ queueId'[j] = nextId
      BY <2>2 DEF Draw, Move, Holders, Queueing, TypeOK, None
    <3>2. \A e \in Holders \cap Exclusive : e \in Holders' /\ queueId'[e] = queueId[e]
      BY <2>2 DEF Draw, Move, Holders, TypeOK
    <3>3. nextId' = nextId + 1 /\ nextId \in Nat /\ runningId' = runningId
      BY <2>2 DEF Draw, TypeOK
    <3>4. \A t \in Nat : t < nextId' => t < nextId \/ t = nextId
      BY <3>3
    <3> QED
      BY <3>1, <3>2, <3>3, <3>4 DEF QueueMoves
  <2>3. CASE AcquireFails(j)
    BY <2>3 DEF AcquireFails, AllReleased
  <2>4. CASE ReleaseExclusive(j)
    <3>1. j \in Exclusive /\ j \in Holders /\ queueId[j] = runningId
      BY <2>4 DEF ReleaseExclusive, Queueing, Serving, Holders
    <3>2. runningId' = runningId + 1 /\ UNCHANGED <<queueId, nextId>>
      BY <2>4, <3>1 DEF ReleaseExclusive, QueueId, Holders, AllReleased
    <3>3. \A e \in Holders \ {j} : e \in Holders'
      BY <2>4 DEF ReleaseExclusive, Move, Holders, TypeOK
    <3>4. runningId \in Nat
      BY DEF TypeOK
    <3>5. \A t \in Nat : runningId' <= t => runningId <= t /\ t # runningId
      BY <3>2, <3>4
    <3> QED
      BY <3>1, <3>2, <3>3, <3>5 DEF QueueMoves
  <2> QED
    BY <1>3, <2>1, <2>2, <2>3, <2>4 DEF Execute, AcquireExclusive
<1>4. CASE InitScheduler
  BY <1>4 DEF InitScheduler, QueueMoves
<1>5. CASE Reset
  BY <1>5, <1>1 DEF Reset, jobVars
<1>6. CASE ShutdownScheduler
  BY <1>6, <1>1 DEF ShutdownScheduler, jobVars
<1> QED
  BY <1>1, <1>2, <1>3, <1>4, <1>5, <1>6 DEF Next, vars, jobVars

\* If every ticket is passed on, no ticket is ever missing, also across a /reset: a job
\* that waits is behind one whose turn has come. It is what ExclusiveRuns and
\* ShutdownEnds rest on.
THEOREM QueueNeverStuck == Spec => []QueueMoves
<1>1. Init => QueueMoves
  BY DEF Init, QueueMoves
<1>2. JobsInv /\ QueueMoves /\ [Next]_vars => QueueMoves'
  <2> SUFFICES ASSUME JobsInv, QueueMoves, [Next]_vars, AllReleased'
               PROVE  QueueMoves'
    BY DEF QueueMoves
  <2>1. AllReleased
    BY FaultsFixed DEF AllReleased
  <2>2. NoTicketLost
    BY <2>1 DEF AllReleased, NoTicketLost
  <2> QED
    BY <2>1, <2>2, QueueMovesNext DEF JobsInv
<1> QED
  BY <1>1, <1>2, JobsInvariant, PTL DEF Spec
=============================================================================
