----------------------------- MODULE EndpointPool -----------------------------
(***************************************************************************)
(* LoadBalancedWriter: writes to a pool of endpoints (silos), an endpoint  *)
(* that answers "walkaway" is set aside and audited until it answers or is *)
(* given up, one that answers "removeendpoint" leaves the pool.            *)
(*                                                                         *)
(* The pool is a ConcurrentDictionary: each of its operations is one step, *)
(* and the tests and updates of RemoveEndpoint and AuditEndpoint are       *)
(* several.  A selector's scan is one step, or throws.  The two writers    *)
(* built on the class, for errors and for EDW events, differ in the        *)
(* selector, in the walkaway values and in whether an audit can throw.     *)
(*                                                                         *)
(* The polling callback changes nothing: what it builds is a local variable *)
(* that hides the pool (LoadBalancedWriter.cs:165).  The endpoints are     *)
(* external: one that is down may give any answer but success.             *)
(***************************************************************************)
EXTENDS Integers, FiniteSets

CONSTANTS
  Endpoints,
  Pools,       \* which sets of endpoints may be configured
  Writers,     \* threads that call Write
  Audits,      \* bound: slots for the tasks that audit an endpoint
  Kinds,       \* which writers to consider, of "edw" and "error"
  MaxWrites,   \* bound: calls of Write by each thread
  MaxOutages   \* bound: how often an endpoint goes down

ASSUME PoolAssumption ==
  /\ Writers \cap Audits = {}
  /\ Kinds \subseteq {"edw", "error"}
  /\ Pools \subseteq SUBSET Endpoints
  /\ MaxWrites \in Nat
  /\ MaxOutages \in Nat

VARIABLES
  kind,
  silos,    \* the endpoints in the configuration
  pool,     \* keys of the dictionary
  alive,    \* whose entry is alive
  delay,    \* delaySeconds of each entry, 0 for none
  pc,       \* where each thread or task is
  at,       \* its endpoint p
  seen,     \* its nextTimeout
  chosen,   \* alreadyChosen of each write
  writes,
  down,     \* endpoints that are down
  outages,
  told,     \* history: endpoints that answered "removeendpoint"
  threw,    \* history: endpoints an audit of which threw
  answered  \* history: audits of each endpoint that answered, up to 2

poolVars == <<pool, alive, delay>>
callVars == <<at, seen>>
writeVars == <<chosen, writes>>
envVars == <<down, outages>>
history == <<told, threw, answered>>
config == <<kind, silos>>
vars == <<config, poolVars, pc, callVars, writeVars, envVars, history>>

Actors == Writers \cup Audits
Nobody == "none"
ASSUME NobodyAssumption == Nobody \notin Endpoints

WriterStates == {"idle", "select", "write", "get", "check", "set", "remove"}
AuditStates == {"free", "delay", "audit", "revive", "get", "check", "set", "remove"}

Init ==
  /\ kind \in Kinds
  /\ silos \in Pools
  /\ pool = silos /\ alive = silos
  /\ delay = [p \in Endpoints |-> 0]
  /\ pc = [a \in Actors |-> IF a \in Writers THEN "idle" ELSE "free"]
  /\ at = [a \in Actors |-> Nobody]
  /\ seen = [a \in Actors |-> 0]
  /\ chosen = [w \in Writers |-> {}]
  /\ writes = [w \in Writers |-> 0]
  /\ down = {} /\ outages = 0
  /\ told = {} /\ threw = {}
  /\ answered = [p \in Endpoints |-> 0]

-----------------------------------------------------------------------------
(* What the two writers pass to the class. *)

NextWalkawayValue(v) ==
  CASE v = 0 -> 1
    [] v = 1 -> 5
    [] v = 5 -> 60
    [] OTHER -> IF kind = "edw" THEN 60 ELSE 0

Valid(w) == (pool \cap alive) \ chosen[w]

\* Mutant: any endpoint when none is valid, for both writers.
SelectorAny(w) == IF Valid(w) # {} THEN Valid(w) ELSE pool

\* The endpoints the selector may return, null when there is none.  The one for
\* errors returns the last endpoint it looked at when none is valid.
Selector(w) ==
  IF Valid(w) # {} \/ kind = "edw" THEN Valid(w) ELSE pool

-----------------------------------------------------------------------------
(* Operations on the dictionary. *)

Update(p, isAlive, d) ==
  /\ pool' = pool \cup {p}
  /\ alive' = IF isAlive THEN alive \cup {p} ELSE alive \ {p}
  /\ delay' = [delay EXCEPT ![p] = d]

TryRemove(p) ==
  /\ pool' = pool \ {p}
  /\ alive' = alive \ {p}
  /\ delay' = [delay EXCEPT ![p] = 0]

-----------------------------------------------------------------------------
(* Write. *)

Goto(a, s) == pc' = [pc EXCEPT ![a] = s]

\* RemoveEndpoint returns to the loop of Write, or ends the audit's task.
Return(a) ==
  /\ Goto(a, IF a \in Writers THEN "select" ELSE "free")
  /\ at' = [at EXCEPT ![a] = Nobody]
  /\ seen' = [seen EXCEPT ![a] = 0]

BeginWrite(w) ==
  /\ pc[w] = "idle"
  /\ writes[w] < MaxWrites
  /\ writes' = [writes EXCEPT ![w] = @ + 1]
  /\ chosen' = [chosen EXCEPT ![w] = {}]
  /\ Goto(w, "select")
  /\ UNCHANGED <<config, poolVars, callVars, envVars, history>>

EndWrite(w) ==
  /\ Goto(w, "idle")
  /\ at' = [at EXCEPT ![w] = Nobody]
  /\ chosen' = [chosen EXCEPT ![w] = {}]

Select(w) ==
  /\ pc[w] = "select"
  /\ \/ \E p \in Selector(w) :
          /\ at' = [at EXCEPT ![w] = p]
          /\ chosen' = [chosen EXCEPT ![w] = @ \cup {p}]
          /\ Goto(w, "write")
     \/ /\ Selector(w) = {}
        /\ EndWrite(w)
  /\ UNCHANGED <<config, poolVars, seen, writes, envVars, history>>

\* The scan throws when an endpoint it reads has been removed since it listed
\* them, and initiateWalkaway before it may: unhandled ends the write.
SelectThrows(w) ==
  /\ pc[w] = "select"
  /\ EndWrite(w)
  /\ UNCHANGED <<config, poolVars, seen, writes, envVars, history>>

\* Success, failure or an exception: each ends the write.
Answered(w) ==
  /\ pc[w] = "write"
  /\ EndWrite(w)
  /\ UNCHANGED <<config, poolVars, seen, writes, envVars, history>>

Walkaway(w) ==
  /\ pc[w] = "write"
  /\ at[w] \in down
  /\ Goto(w, "get")
  /\ UNCHANGED <<config, poolVars, callVars, writeVars, envVars, history>>

RemoveAnswered(w) ==
  /\ pc[w] = "write"
  /\ at[w] \in down
  /\ TryRemove(at[w])
  /\ told' = told \cup {at[w]}
  /\ Return(w)
  /\ UNCHANGED <<config, writeVars, envVars, threw, answered>>

Write(w) ==
  \/ BeginWrite(w)
  \/ Select(w) \/ SelectThrows(w)
  \/ Answered(w) \/ Walkaway(w) \/ RemoveAnswered(w)

-----------------------------------------------------------------------------
(* RemoveEndpoint(p, true, initialCall), called by a write with initialCall and *)
(* by an audit without.                                                    *)

TryGetValue(a) ==
  /\ pc[a] = "get"
  /\ IF at[a] \in pool
     THEN LET nextTimeout == NextWalkawayValue(delay[at[a]])
          IN  /\ Goto(a, IF nextTimeout = 0 THEN "remove" ELSE "check")
              /\ seen' = [seen EXCEPT ![a] = nextTimeout]
              /\ UNCHANGED at
     ELSE Return(a)
  /\ UNCHANGED <<config, poolVars, writeVars, envVars, history>>

GiveUp(a) ==
  /\ pc[a] = "remove"
  /\ TryRemove(at[a])
  /\ Return(a)
  /\ UNCHANGED <<config, writeVars, envVars, history>>

\* Mutant: the audit passes initialCall, too.
CheckAliveAlways(a) ==
  /\ pc[a] = "check"
  /\ IF at[a] \notin pool \/ at[a] \notin alive
     THEN Return(a)
     ELSE Goto(a, "set") /\ UNCHANGED callVars
  /\ UNCHANGED <<config, poolVars, writeVars, envVars, history>>

\* Mutant: every walkaway counts.
CheckAliveNever(a) ==
  /\ pc[a] = "check"
  /\ IF at[a] \notin pool
     THEN Return(a)
     ELSE Goto(a, "set") /\ UNCHANGED callVars
  /\ UNCHANGED <<config, poolVars, writeVars, envVars, history>>

\* The indexer throws when the endpoint has been removed meanwhile.
CheckAlive(a) ==
  /\ pc[a] = "check"
  /\ IF at[a] \notin pool \/ (at[a] \notin alive /\ a \in Writers)
     THEN Return(a)
     ELSE Goto(a, "set") /\ UNCHANGED callVars
  /\ UNCHANGED <<config, poolVars, writeVars, envVars, history>>

\* The entry is set, or added again, and a task started that audits it.
SetAside(a) ==
  /\ pc[a] = "set"
  /\ Update(at[a], FALSE, seen[a])
  /\ \/ /\ a \in Audits
        /\ Goto(a, "delay")
        /\ seen' = [seen EXCEPT ![a] = 0]
        /\ UNCHANGED at
     \/ \E b \in Audits :
          /\ a \in Writers
          /\ pc[b] = "free"
          /\ pc' = [pc EXCEPT ![a] = "select", ![b] = "delay"]
          /\ at' = [at EXCEPT ![a] = Nobody, ![b] = at[a]]
          /\ seen' = [seen EXCEPT ![a] = 0]
  /\ UNCHANGED <<config, writeVars, envVars, history>>

RemoveEndpoint(a) ==
  TryGetValue(a) \/ GiveUp(a) \/ CheckAlive(a) \/ SetAside(a)

-----------------------------------------------------------------------------
(* AuditEndpoint, after the delay. *)

DelayEnds(b) ==
  /\ pc[b] = "delay"
  /\ Goto(b, "audit")
  /\ UNCHANGED <<config, poolVars, callVars, writeVars, envVars, history>>

CountAnswer(p) == answered' = [answered EXCEPT ![p] = IF @ < 2 THEN @ + 1 ELSE @]

AuditSucceeds(b) ==
  /\ pc[b] = "audit"
  /\ at[b] \notin down
  /\ CountAnswer(at[b])
  /\ IF at[b] \in pool THEN Goto(b, "revive") /\ UNCHANGED callVars
                       ELSE Return(b)
  /\ UNCHANGED <<config, poolVars, writeVars, envVars, told, threw>>

AuditFails(b) ==
  /\ pc[b] = "audit"
  /\ at[b] \in down
  /\ CountAnswer(at[b])
  /\ Goto(b, "get")
  /\ UNCHANGED <<config, poolVars, callVars, writeVars, envVars, told, threw>>

\* ErrorSiloEndpoint.Audit catches nothing; AuditEndpoint does, and ends.
AuditThrows(b) ==
  /\ pc[b] = "audit"
  /\ at[b] \in down
  /\ kind = "error"
  /\ threw' = threw \cup {at[b]}
  /\ Return(b)
  /\ UNCHANGED <<config, poolVars, writeVars, envVars, told, answered>>

\* Mutant: the entry keeps its delay.
ReviveKeepsDelay(b) ==
  /\ pc[b] = "revive"
  /\ Update(at[b], TRUE, delay[at[b]])
  /\ Return(b)
  /\ UNCHANGED <<config, writeVars, envVars, history>>

Revive(b) ==
  /\ pc[b] = "revive"
  /\ Update(at[b], TRUE, 0)
  /\ Return(b)
  /\ UNCHANGED <<config, writeVars, envVars, history>>

AuditEndpoint(b) ==
  DelayEnds(b) \/ AuditSucceeds(b) \/ AuditFails(b) \/ AuditThrows(b) \/ Revive(b)

-----------------------------------------------------------------------------
(* The endpoints. *)

GoDown(p) ==
  /\ p \in silos \ down
  /\ outages < MaxOutages
  /\ outages' = outages + 1
  /\ down' = down \cup {p}
  /\ UNCHANGED <<config, poolVars, pc, callVars, writeVars, history>>

ComeBack(p) ==
  /\ p \in down
  /\ down' = down \ {p}
  /\ UNCHANGED <<config, poolVars, pc, callVars, writeVars, outages, history>>

Next ==
  \/ \E w \in Writers : Write(w)
  \/ \E a \in Actors : RemoveEndpoint(a)
  \/ \E b \in Audits : AuditEndpoint(b)
  \/ \E p \in Endpoints : GoDown(p) \/ ComeBack(p)

\* Threads are scheduled, delays end, and every call of an endpoint answers.
WriterFairness ==
  /\ \A w \in Writers : WF_vars((Write(w) /\ ~BeginWrite(w)) \/ RemoveEndpoint(w))
  /\ \A b \in Audits : WF_vars(AuditEndpoint(b) \/ RemoveEndpoint(b))

Spec == Init /\ [][Next]_vars /\ WriterFairness

-----------------------------------------------------------------------------
(* Properties. *)

\* Types; and an endpoint that is not in the pool has no entry.
TypeOK ==
  /\ kind \in Kinds
  /\ silos \in Pools
  /\ pool \subseteq silos /\ alive \subseteq pool
  /\ delay \in [Endpoints -> {0, 1, 5, 60}]
  /\ \A p \in Endpoints : p \in alive \/ p \notin pool <=> delay[p] = 0
  /\ pc \in [Actors -> WriterStates \cup AuditStates]
  /\ at \in [Actors -> Endpoints \cup {Nobody}]
  /\ seen \in [Actors -> {0, 1, 5, 60}]
  /\ chosen \in [Writers -> SUBSET Endpoints]
  /\ writes \in [Writers -> 0 .. MaxWrites]
  /\ down \subseteq silos /\ outages \in 0 .. MaxOutages
  /\ told \subseteq silos /\ threw \subseteq silos
  /\ answered \in [Endpoints -> 0 .. 2]

\* An endpoint that is set aside has a task that will audit it: whatever writes
\* and audits interleave, none is set aside for ever.  The exception the code
\* allows is an audit that threw.
SetAsideIsAudited ==
  \A p \in pool \ (alive \cup threw) :
    \E b \in Audits : at[b] = p /\ pc[b] # "free"

\* An endpoint that was not told to leave is given up only by the error writer,
\* and not before two audits of it have answered: however many writes walk away,
\* they do not suffice, although that writer goes on to select endpoints that are
\* set aside.  (Not: two audits answered false.  A write that read the delay
\* before a successful audit reset it advances the old value.)
GivenUpAfterAudits ==
  \A p \in silos \ (pool \cup told) : kind = "error" /\ answered[p] = 2

\* Every write ends.  The error writer selects endpoints again that have walked
\* away; its writes end because failing audits empty the pool in the end.
WriteEnds ==
  \A w \in Writers : pc[w] = "select" ~> pc[w] = "idle" \/ threw # {}

\* An endpoint that stays up does not stay set aside.
Recovers ==
  \A p \in Endpoints :
    []<>(p \in down \cup alive \cup threw \/ p \notin pool)
=============================================================================
