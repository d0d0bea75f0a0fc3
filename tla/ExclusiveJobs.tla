----------------------------- MODULE ExclusiveJobs -----------------------------
(***************************************************************************)
(* The jobs of the EDW rollup service and the queue of exclusive jobs.     *)
(*                                                                         *)
(* A rollup or maintenance job aborts when an exclusive maintenance job is *)
(* waiting or running.  An exclusive job draws a ticket, polls until the   *)
(* ticket is served, then polls until the scheduler executes no            *)
(* non-exclusive job.  Both counters live in the scheduler's context: the  *)
(* /reset request shuts the scheduler down and starts them again at 0.     *)
(*                                                                         *)
(* Quartz is external: a job that is being executed is not fired again,    *)
(* it counts as executing from before Execute is called until after it has *)
(* returned, and a shutdown that waits fires nothing and ends when nothing *)
(* is executing.  A cron trigger may fire at any time.                     *)
(***************************************************************************)
EXTENDS Integers, FiniteSets

CONSTANTS
  Jobs,       \* keys of the scheduled jobs
  Exclusive,  \* those in MaintenanceJob.ExclusiveJobGroup
  FaultSets,  \* combinations of FaultKinds to consider
  MaxFires,   \* bound: how often each job is fired
  MaxResets   \* bound: how often /reset is requested

\* Places where an event, a log entry or a query may throw.
FaultKinds == {"execute", "acquire", "wait", "release", "init"}

ASSUME JobsAssumption ==
  /\ Exclusive \subseteq Jobs
  /\ FaultSets \subseteq SUBSET FaultKinds
  /\ MaxFires \in Nat
  /\ MaxResets \in Nat

VARIABLES
  scheduler,   \* DataService._scheduler
  nextId,      \* exclusiveQueueNextId
  runningId,   \* exclusiveQueueCurrentlyRunningId
  pc,          \* how far each job's execution is
  queueId,     \* "queueId" in the job data of each execution
  fires,
  resets,
  faults       \* what may throw in this behaviour

jobVars == <<pc, queueId, fires>>
vars == <<scheduler, nextId, runningId, jobVars, resets, faults>>

None == -1

States == {"idle", "fired", "acquire", "turn", "others", "running", "release"}
Executing == {j \in Jobs : pc[j] # "idle"}

Init ==
  /\ scheduler = "down"
  /\ nextId = 0 /\ runningId = 0
  /\ pc = [j \in Jobs |-> "idle"]
  /\ queueId = [j \in Jobs |-> None]
  /\ fires = [j \in Jobs |-> 0]
  /\ resets = 0
  /\ faults \in FaultSets

-----------------------------------------------------------------------------
(* The execution of job j. *)

Move(j, p) == pc' = [pc EXCEPT ![j] = p]

\* A trigger fires; the execution gets a copy of the job's data.
Fire(j) ==
  /\ scheduler = "up"
  /\ pc[j] = "idle"
  /\ fires[j] < MaxFires
  /\ fires' = [fires EXCEPT ![j] = @ + 1]
  /\ queueId' = [queueId EXCEPT ![j] = None]
  /\ Move(j, "fired")
  /\ UNCHANGED <<scheduler, nextId, runningId, resets, faults>>

\* A non-exclusive job compares the counters and aborts or runs.
CheckIds(j) ==
  /\ j \notin Exclusive
  /\ pc[j] = "fired"
  /\ Move(j, IF nextId = runningId THEN "running" ELSE "idle")
  /\ UNCHANGED <<scheduler, nextId, runningId, queueId, fires, resets, faults>>

\* Execute and ProcessMaintenanceJob up to the try block; an exception there
\* ends the execution.
Begin(j) ==
  /\ j \in Exclusive
  /\ pc[j] = "fired"
  /\ \/ Move(j, "acquire")
     \/ "execute" \in faults /\ Move(j, "idle")
  /\ UNCHANGED <<scheduler, nextId, runningId, queueId, fires, resets, faults>>

\* Mutant: the ticket is not put into the job's data.
DrawUnrecorded(j) ==
  /\ pc[j] = "acquire"
  /\ nextId' = nextId + 1
  /\ Move(j, "turn")
  /\ UNCHANGED <<scheduler, runningId, queueId, fires, resets, faults>>

Draw(j) ==
  /\ pc[j] = "acquire"
  /\ queueId' = [queueId EXCEPT ![j] = nextId]
  /\ nextId' = nextId + 1
  /\ Move(j, "turn")
  /\ UNCHANGED <<scheduler, runningId, fires, resets, faults>>

\* The poll that sees the job's own ticket.
OwnTurn(j) ==
  /\ pc[j] = "turn"
  /\ queueId[j] = runningId
  /\ Move(j, "others")
  /\ UNCHANGED <<scheduler, nextId, runningId, queueId, fires, resets, faults>>

\* Mutant: one job that is still executing is not waited for.
OthersDoneButOne(j) ==
  /\ pc[j] = "others"
  /\ Cardinality(Executing \ Exclusive) <= 1
  /\ Move(j, "running")
  /\ UNCHANGED <<scheduler, nextId, runningId, queueId, fires, resets, faults>>

\* The poll that sees no non-exclusive job executing.
OthersDone(j) ==
  /\ pc[j] = "others"
  /\ Executing \subseteq Exclusive
  /\ Move(j, "running")
  /\ UNCHANGED <<scheduler, nextId, runningId, queueId, fires, resets, faults>>

\* An exception before the ticket is drawn, or after it while the job waits,
\* leads to the finally block too.
AcquireFails(j) ==
  /\ \/ "acquire" \in faults /\ pc[j] = "acquire"
     \/ "wait" \in faults /\ pc[j] \in {"turn", "others"}
  /\ Move(j, "release")
  /\ UNCHANGED <<scheduler, nextId, runningId, queueId, fires, resets, faults>>

AcquireExclusive(j) == Draw(j) \/ OwnTurn(j) \/ OthersDone(j) \/ AcquireFails(j)

\* The job's own work ends, with or without an exception.
RunImplementation(j) ==
  /\ pc[j] = "running"
  /\ Move(j, IF j \in Exclusive THEN "release" ELSE "idle")
  /\ UNCHANGED <<scheduler, nextId, runningId, queueId, fires, resets, faults>>

\* GetInt("queueId"): external, throws or is 0 when no ticket was drawn.
QueueId(j) == IF queueId[j] = None THEN 0 ELSE queueId[j]

\* Mutant: the counter stays where it is.
ReleaseOwn(j) ==
  /\ pc[j] = "release"
  /\ runningId' = QueueId(j)
  /\ Move(j, "idle")
  /\ UNCHANGED <<scheduler, nextId, queueId, fires, resets, faults>>

\* Mutant: everyone who waits is served.
ReleaseAll(j) ==
  /\ pc[j] = "release"
  /\ runningId' = nextId
  /\ Move(j, "idle")
  /\ UNCHANGED <<scheduler, nextId, queueId, fires, resets, faults>>

\* The start event of the release precedes its try block: when it throws, the
\* ticket is never passed on.
ReleaseExclusive(j) ==
  /\ pc[j] = "release"
  /\ \/ runningId' = QueueId(j) + 1
     \/ /\ "release" \in faults \/ queueId[j] = None
        /\ UNCHANGED runningId
  /\ Move(j, "idle")
  /\ UNCHANGED <<scheduler, nextId, queueId, fires, resets, faults>>

Execute(j) ==
  \/ CheckIds(j)
  \/ Begin(j)
  \/ AcquireExclusive(j)
  \/ RunImplementation(j)
  \/ ReleaseExclusive(j)

-----------------------------------------------------------------------------
(* The service. *)

\* InitScheduler creates a scheduler and its context; Start is its last call, so
\* that a scheduler whose jobs could not be read fires nothing.
InitScheduler ==
  /\ scheduler = "down"
  /\ nextId' = 0 /\ runningId' = 0
  /\ \/ scheduler' = "up"
     \/ "init" \in faults /\ scheduler' = "standby"
  /\ UNCHANGED <<jobVars, resets, faults>>

\* POST /reset calls ShutdownScheduler, which waits for the jobs.
Reset ==
  /\ scheduler \in {"up", "standby"}
  /\ resets < MaxResets
  /\ resets' = resets + 1
  /\ scheduler' = "stopping"
  /\ UNCHANGED <<nextId, runningId, jobVars, faults>>

ShutdownScheduler ==
  /\ scheduler = "stopping"
  /\ Executing = {}
  /\ scheduler' = "down"
  /\ UNCHANGED <<nextId, runningId, jobVars, resets, faults>>

Next ==
  \/ \E j \in Jobs : Fire(j) \/ Execute(j)
  \/ InitScheduler
  \/ Reset
  \/ ShutdownScheduler

\* Delays and calls end, and the work of every job does.
ServiceFairness ==
  /\ \A j \in Jobs : WF_vars(Execute(j))
  /\ WF_vars(InitScheduler)
  /\ WF_vars(ShutdownScheduler)

Spec == Init /\ [][Next]_vars /\ ServiceFairness

-----------------------------------------------------------------------------
(* Properties. *)

Waiters == {j \in Jobs : pc[j] = "turn"}
Served == {j \in Exclusive : pc[j] \in {"others", "running"}}
Holders == {j \in Jobs : pc[j] \in {"turn", "others", "running", "release"}
                         /\ queueId[j] # None}
Running == {j \in Jobs : pc[j] = "running"}

\* Types; and an execution past the draw has a ticket in its data.
TypeOK ==
  /\ scheduler \in {"down", "standby", "up", "stopping"}
  /\ nextId \in Nat
  /\ runningId \in Nat
  /\ pc \in [Jobs -> States]
  /\ queueId \in [Jobs -> Nat \cup {None}]
  /\ \A j \in Jobs : pc[j] \in {"turn", "others"} => queueId[j] # None
  /\ fires \in [Jobs -> 0 .. MaxFires]
  /\ resets \in 0 .. MaxResets
  /\ faults \in SUBSET FaultKinds

\* Nothing throws between the draw of a ticket and its turn.
NoTicketLost == faults \cap {"acquire", "wait"} = {}

\* Every ticket that is drawn is passed on.
AllReleased == faults \subseteq {"execute", "init"}

\* While an exclusive job does its work no other job does, exclusive or not, also
\* across a /reset, if nothing throws in its wait: the meaning of "active exclusive
\* maintenance task" in the message of a job that aborts (MaintenanceJob.cs:45).
Exclusion == NoTicketLost => \A e \in Running \cap Exclusive : Running = {e}

\* "Done waiting for other exclusive jobs to finish executing"
\* (MaintenanceJob.cs:146): no two exclusive jobs are at work together.
OtherExclusivesFinished == Cardinality(Running \cap Exclusive) <= 1

\* Two executions never hold the same ticket, whatever throws.
TicketsDistinct ==
  \A j, k \in Holders : j # k => queueId[j] # queueId[k]

\* The counter never passes a job that waits for its turn or has it: such a job
\* would poll for ever, and with it every later one.
NoneIsPassed ==
  NoTicketLost =>
    \A j \in Waiters \cup Served : runningId <= queueId[j] /\ queueId[j] < nextId

\* Every exclusive job that enters the queue gets to do its work, if every ticket
\* is passed on.
ExclusiveRuns ==
  AllReleased => \A e \in Exclusive : (pc[e] = "acquire" ~> pc[e] = "running")

\* A shutdown that waits for the jobs ends, however many exclusive jobs wait in
\* the queue when it begins, if every ticket is passed on.
ShutdownEnds == AllReleased => (scheduler = "stopping" ~> scheduler = "down")
=============================================================================
