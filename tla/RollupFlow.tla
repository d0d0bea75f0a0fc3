------------------------------ MODULE RollupFlow ------------------------------
(***************************************************************************)
(* One execution of a rollup job: its dataflow of five blocks.             *)
(*                                                                         *)
(*   prepareThreadGroup -> processReportSequence -> processRollup          *)
(*                      -> waitForAllRollups -> cleanup                    *)
(*                                                                         *)
(* A block works on up to Parallelism messages at once and in any order,   *)
(* so that messages of a block are only counted.  The job waits for        *)
(* _complete, which Cleanup or the error event of a block sets.  The stored *)
(* functions are external: prepareThreadGroup names the report sequences   *)
(* and processRs the rollups of one.  A rollup answered with "deadlock     *)
(* detected" is sent again, which changes nothing here.  The cancellation  *)
(* token is Quartz's, and nothing in the service interrupts a job.         *)
(*                                                                         *)
(* TPL Dataflow is external: a block whose delegate throws is faulted; the *)
(* messages it is working on may be finished, the others are dropped.      *)
(***************************************************************************)
EXTENDS Integers, FiniteSets

CONSTANTS
  Sequences,  \* report sequences
  Plans,      \* answers of the database: number of rollups of each sequence
  FaultSets   \* combinations of FaultKinds to consider

\* "query": a stored function fails; "event": an event or a log entry throws.
FaultKinds == {"query", "event"}

ASSUME FlowAssumption ==
  /\ IsFiniteSet(Sequences)
  /\ \A p \in Plans : \E S \in SUBSET Sequences : S # {} /\ p \in [S -> Nat]
  /\ FaultSets \subseteq SUBSET FaultKinds

VARIABLES
  job,            \* Execute: "begin", "wait" for _complete, "ended"
  complete,       \* _complete: "pending", "set" or "failed"
  plan,           \* the plan the database has answered with
  prepare,        \* the message of the first block
  sequence,       \* the message of each sequence in processReportSequence
  rollups,        \* messages of each sequence in processRollup
  finished,       \* messages of each sequence in waitForAllRollups
  completeCount,  \* _completeRollupCount
  cleanups,       \* messages in cleanup
  cleaned,        \* history: calls of Cleanup that have begun
  faulted,        \* blocks a delegate of which has thrown
  faults          \* what may throw in this behaviour

joinVars == <<finished, completeCount>>
cleanupVars == <<cleanups, cleaned>>
vars == <<job, complete, plan, prepare, sequence, rollups, joinVars,
          cleanupVars, faulted, faults>>

Blocks == {"prepare", "sequence", "rollup", "wait", "cleanup"}
MessageState == {"none", "posted", "taken"}
NoPlan == [s \in {} |-> 0]

Init ==
  /\ job = "begin" /\ complete = "pending"
  /\ plan = NoPlan
  /\ prepare = "none"
  /\ sequence = [s \in Sequences |-> "none"]
  /\ rollups = [s \in Sequences |-> 0]
  /\ finished = [s \in Sequences |-> 0]
  /\ completeCount = 0
  /\ cleanups = 0 /\ cleaned = 0
  /\ faulted = {}
  /\ faults \in FaultSets

-----------------------------------------------------------------------------
(* The job. *)

\* Execute drops the start event, links the blocks and sends the first message.
Begin ==
  /\ job = "begin"
  /\ \/ job' = "wait" /\ prepare' = "posted"
     \/ "event" \in faults /\ job' = "ended" /\ UNCHANGED prepare
  /\ UNCHANGED <<complete, plan, sequence, rollups, joinVars, cleanupVars,
                 faulted, faults>>

\* The job ends with _complete, also when its last events throw.
End ==
  /\ job = "wait"
  /\ complete # "pending"
  /\ job' = "ended"
  /\ UNCHANGED <<complete, plan, prepare, sequence, rollups, joinVars,
                 cleanupVars, faulted, faults>>

-----------------------------------------------------------------------------
(* Messages and what a delegate that throws does. *)

TakePrepare == prepare = "posted" /\ prepare' = "taken"
TakeSequence(s) == sequence[s] = "posted" /\ sequence' = [sequence EXCEPT ![s] = "taken"]
TakeRollup(s) == rollups[s] > 0 /\ rollups' = [rollups EXCEPT ![s] = @ - 1]
TakeFinished(s) == finished[s] > 0 /\ finished' = [finished EXCEPT ![s] = @ - 1]
TakeCleanup == cleanups > 0 /\ cleanups' = cleanups - 1

SetException == complete' = IF complete = "pending" THEN "failed" ELSE complete

\* Mutant: the error event does not complete the job.
DropErrorEventOnly(b) ==
  /\ faulted' = faulted \cup {b}
  /\ UNCHANGED complete

\* DropErrorEvent, then the exception reaches the block.  SetException throws when
\* _complete is already set, inside the same delegate.
DropErrorEvent(b) ==
  /\ faulted' = faulted \cup {b}
  /\ SetException

\* A call of block b fails.
QueryFails(b) ==
  /\ "query" \in faults
  /\ DropErrorEvent(b)

\* A start, error or end event of block b throws, or the message was dropped with
\* the faulted block: the message goes no further and _complete is not touched.
MessageLost(b) ==
  /\ "event" \in faults \/ b \in faulted
  /\ faulted' = faulted \cup {b}

-----------------------------------------------------------------------------
(* The blocks. *)

PrepareThreadGroup ==
  /\ TakePrepare
  /\ \/ /\ \/ /\ plan' \in Plans
              /\ sequence' = [s \in Sequences |->
                                IF s \in DOMAIN plan' THEN "posted" ELSE "none"]
              /\ UNCHANGED cleanups
           \/ /\ cleanups' = cleanups + 1   \* the answer has a message
              /\ UNCHANGED <<plan, sequence>>
        /\ UNCHANGED <<complete, faulted>>
     \/ /\ QueryFails("prepare")
        /\ UNCHANGED <<plan, sequence, cleanups>>
     \/ /\ MessageLost("prepare")
        /\ UNCHANGED <<complete, plan, sequence, cleanups>>
  /\ UNCHANGED <<job, rollups, joinVars, cleaned, faults>>

\* Mutant: one rollup too many.
PostRollupsOneMore(s) ==
  /\ rollups' = [rollups EXCEPT ![s] = plan[s] + 1]
  /\ cleanups' = IF plan[s] = 0 THEN cleanups + 1 ELSE cleanups

\* One message for each rollup; one for cleanup when there is none.
PostRollups(s) ==
  /\ rollups' = [rollups EXCEPT ![s] = plan[s]]
  /\ cleanups' = IF plan[s] = 0 THEN cleanups + 1 ELSE cleanups

ProcessReportSequence(s) ==
  /\ TakeSequence(s)
  /\ \/ /\ PostRollups(s)
        /\ UNCHANGED <<complete, faulted>>
     \/ /\ QueryFails("sequence")
        /\ UNCHANGED <<rollups, cleanups>>
     \/ /\ MessageLost("sequence")
        /\ UNCHANGED <<complete, rollups, cleanups>>
  /\ UNCHANGED <<job, plan, prepare, joinVars, cleaned, faults>>

ProcessRollup(s) ==
  /\ TakeRollup(s)
  /\ \/ /\ finished' = [finished EXCEPT ![s] = @ + 1]
        /\ UNCHANGED <<complete, faulted>>
     \/ /\ QueryFails("rollup")
        /\ UNCHANGED finished
     \/ /\ MessageLost("rollup")
        /\ UNCHANGED <<complete, finished>>
  /\ UNCHANGED <<job, plan, prepare, sequence, completeCount, cleanupVars, faults>>

\* Mutant: any rollup may be the last.
IsLastAny(s) == completeCount + 1 <= plan[s]

\* The counter belongs to the job, RollupCount to the report sequence.
IsLast(s) == completeCount + 1 = plan[s]

WaitForAllRollups(s) ==
  /\ TakeFinished(s)
  /\ \/ /\ completeCount' = completeCount + 1
        /\ cleanups' = IF IsLast(s) THEN cleanups + 1 ELSE cleanups
        /\ UNCHANGED faulted
     \/ /\ MessageLost("wait")
        /\ completeCount' \in {completeCount, completeCount + 1}
        /\ UNCHANGED cleanups
  /\ UNCHANGED <<job, complete, plan, prepare, sequence, rollups, cleaned, faults>>

\* A second SetResult throws: the block is faulted, and _complete stays as it is.
Cleanup ==
  /\ TakeCleanup
  /\ \/ /\ cleaned' = cleaned + 1
        /\ IF complete = "pending"
           THEN complete' = "set" /\ UNCHANGED faulted
           ELSE DropErrorEvent("cleanup")
     \/ /\ QueryFails("cleanup")
        /\ cleaned' = cleaned + 1
     \/ /\ MessageLost("cleanup")
        /\ UNCHANGED <<complete, cleaned>>
  /\ UNCHANGED <<job, plan, prepare, sequence, rollups, joinVars, faults>>

Next ==
  \/ Begin
  \/ End
  \/ PrepareThreadGroup
  \/ \E s \in Sequences :
       \/ ProcessReportSequence(s)
       \/ ProcessRollup(s)
       \/ WaitForAllRollups(s)
  \/ Cleanup

\* Every stored function answers within its timeout, a rollup other than by a
\* deadlock in the end, and the blocks' tasks are scheduled.
FlowFairness ==
  /\ WF_vars(Begin) /\ WF_vars(End)
  /\ WF_vars(PrepareThreadGroup)
  /\ \A s \in Sequences :
       /\ WF_vars(ProcessReportSequence(s))
       /\ WF_vars(ProcessRollup(s))
       /\ WF_vars(WaitForAllRollups(s))
  /\ WF_vars(Cleanup)

Spec == Init /\ [][Next]_vars /\ FlowFairness

-----------------------------------------------------------------------------
(* Properties. *)

\* Types; and no more messages of a sequence than it has rollups.
TypeOK ==
  /\ job \in {"begin", "wait", "ended"}
  /\ complete \in {"pending", "set", "failed"}
  /\ plan \in Plans \cup {NoPlan}
  /\ prepare \in MessageState
  /\ sequence \in [Sequences -> MessageState]
  /\ rollups \in [Sequences -> Nat] /\ finished \in [Sequences -> Nat]
  /\ \A s \in DOMAIN plan : rollups[s] + finished[s] <= plan[s]
  /\ completeCount \in Nat
  /\ cleanups \in Nat /\ cleaned \in Nat
  /\ faulted \subseteq Blocks
  /\ faults \in SUBSET FaultKinds

OneSequence == \E s \in Sequences : DOMAIN plan \subseteq {s}

\* Nothing is left to be processed or counted.
RollupsDone ==
  \A s \in Sequences : sequence[s] # "posted" /\ rollups[s] = 0 /\ finished[s] = 0

\* Cleanup waits for all rollups of the job (WaitForAllRollups,
\* RollupJob.cs:224): it drops the working set they read.
CleanupAfterRollups == cleanups + cleaned > 0 => RollupsDone

\* With one report sequence, cleanup comes after all rollups and at most once,
\* whatever throws.
OneCleanup == OneSequence => CleanupAfterRollups /\ cleanups + cleaned <= 1

\* Every job with one report sequence ends, also when stored functions fail; a
\* job that does not end keeps every exclusive maintenance job waiting.
JobEnds ==
  "event" \notin faults => <>(job = "ended" \/ ~OneSequence)

=============================================================================
