--------------------------- MODULE EndpointPoolProofs ---------------------------
(***************************************************************************)
(* Proofs about EndpointPool, for every set of endpoints, writers and      *)
(* audits, and every number of writes and outages.                         *)
(*                                                                         *)
(* That an endpoint set aside is being audited is inductive with the types *)
(* and with where a thread's endpoint and walkaway value are known: the    *)
(* only steps that set one aside start an audit of it or are taken by one, *)
(* and an audit lets go of an endpoint only if it is alive, has left the   *)
(* pool, or the audit threw.                                               *)
(***************************************************************************)
EXTENDS EndpointPool, TLAPS

\* A thread or task that is busy has an endpoint, and a walkaway value from
\* TryGetValue to SetAside.
CallInv ==
  \A a \in Actors :
    /\ pc[a] \in {"write", "get", "check", "set", "remove", "delay", "audit", "revive"}
         => at[a] \in silos
    /\ pc[a] \in {"check", "set"} => seen[a] # 0
    /\ pc[a] \in {"write", "select", "idle"} => a \in Writers

PoolIInv == TypeOK /\ CallInv /\ SetAsideIsAudited

LEMMA PoolInit == Init => PoolIInv
  BY PoolAssumption, NobodyAssumption
  DEF Init, PoolIInv, TypeOK, CallInv, SetAsideIsAudited, Actors, WriterStates,
      AuditStates

LEMMA WalkawayValues ==
  ASSUME NEW v \in {0, 1, 5, 60}
  PROVE  NextWalkawayValue(v) \in {0, 1, 5, 60}
  BY DEF NextWalkawayValue

\* The part of TypeOK about the dictionary.
EntriesOK ==
  /\ pool \subseteq silos /\ alive \subseteq pool
  /\ delay \in [Endpoints -> {0, 1, 5, 60}]
  /\ \A p \in Endpoints : p \in alive \/ p \notin pool <=> delay[p] = 0

\* The operations on the dictionary keep its entries consistent.
LEMMA UpdateEntries ==
  ASSUME EntriesOK, silos \subseteq Endpoints, UNCHANGED silos, NEW p \in silos,
         NEW isAlive \in BOOLEAN, NEW d \in {0, 1, 5, 60}, isAlive <=> d = 0,
         Update(p, isAlive, d)
  PROVE  EntriesOK'
  BY DEF EntriesOK, Update

LEMMA RemoveEntries ==
  ASSUME EntriesOK, silos \subseteq Endpoints, UNCHANGED silos, NEW p \in silos,
         TryRemove(p)
  PROVE  EntriesOK'
  BY DEF EntriesOK, TryRemove

LEMMA CountType ==
  ASSUME answered \in [Endpoints -> 0 .. 2], NEW p, CountAnswer(p)
  PROVE  answered' \in [Endpoints -> 0 .. 2]
<1>1. \A n \in 0 .. 2 : (IF n < 2 THEN n + 1 ELSE n) \in 0 .. 2
  OBVIOUS
<1>2. CASE p \in Endpoints
  BY <1>1, <1>2 DEF CountAnswer
<1>3. CASE p \notin Endpoints
  BY <1>3 DEF CountAnswer
<1> QED
  BY <1>2, <1>3

LEMMA TypeNext == PoolIInv /\ [Next]_vars => TypeOK'
<1> SUFFICES ASSUME TypeOK, CallInv, [Next]_vars PROVE TypeOK'
  BY DEF PoolIInv
<1> USE DEF TypeOK, Actors, WriterStates, AuditStates, config, poolVars, callVars,
            writeVars, envVars, history, Goto, Return, EndWrite
<1>s. silos \subseteq Endpoints /\ pool \subseteq Endpoints
  BY PoolAssumption
<1>0. CASE UNCHANGED vars
  BY <1>0 DEF vars
<1>1. ASSUME NEW w \in Writers, Write(w) PROVE TypeOK'
  <2>1. CASE BeginWrite(w)
    BY <2>1, PoolAssumption DEF BeginWrite
  <2>2. CASE Select(w)
    <3>1. Selector(w) \subseteq Endpoints
      BY <1>s DEF Selector, Valid
    <3> QED
      BY <2>2, <3>1 DEF Select
  <2>3. CASE SelectThrows(w)
    BY <2>3 DEF SelectThrows
  <2>4. CASE Answered(w)
    BY <2>4 DEF Answered
  <2>5. CASE Walkaway(w)
    BY <2>5 DEF Walkaway
  <2>6. CASE RemoveAnswered(w)
    <3>1. at[w] \in silos /\ TryRemove(at[w]) /\ told' = told \cup {at[w]}
      BY <2>6 DEF RemoveAnswered, CallInv
    <3>2. EntriesOK'
      BY <2>6, <3>1, <1>s, RemoveEntries DEF RemoveAnswered, EntriesOK
    <3> QED
      BY <2>6, <3>1, <3>2 DEF RemoveAnswered, EntriesOK
  <2> QED
    BY <1>1, <2>1, <2>2, <2>3, <2>4, <2>5, <2>6 DEF Write
<1>2. ASSUME NEW a \in Actors, RemoveEndpoint(a) PROVE TypeOK'
  <2>1. CASE TryGetValue(a)
    <3>1. at[a] \in pool => NextWalkawayValue(delay[at[a]]) \in {0, 1, 5, 60}
      <4> SUFFICES ASSUME at[a] \in pool
                   PROVE  NextWalkawayValue(delay[at[a]]) \in {0, 1, 5, 60}
        OBVIOUS
      <4>1. delay[at[a]] \in {0, 1, 5, 60}
        BY <1>s
      <4> QED
        BY <4>1, WalkawayValues
    <3> QED
      BY <2>1, <3>1 DEF TryGetValue
  <2>2. CASE GiveUp(a)
    BY <2>2 DEF GiveUp, TryRemove, CallInv
  <2>3. CASE CheckAlive(a)
    BY <2>3 DEF CheckAlive
  <2>4. CASE SetAside(a)
    <3>1. at[a] \in silos /\ seen[a] # 0 /\ Update(at[a], FALSE, seen[a])
      BY <2>4 DEF SetAside, CallInv
    <3>2. EntriesOK'
      BY <2>4, <3>1, <1>s, UpdateEntries, ZenonT(60) DEF SetAside, EntriesOK
    <3>3. /\ pc' \in [Actors -> WriterStates \cup AuditStates]
          /\ at' \in [Actors -> Endpoints \cup {Nobody}]
          /\ seen' \in [Actors -> {0, 1, 5, 60}]
      BY <2>4, <1>s DEF SetAside
    <3> QED
      BY <2>4, <3>2, <3>3 DEF SetAside, EntriesOK
  <2> QED
    BY <1>2, <2>1, <2>2, <2>3, <2>4 DEF RemoveEndpoint
<1>3. ASSUME NEW b \in Audits, AuditEndpoint(b) PROVE TypeOK'
  <2>1. CASE DelayEnds(b)
    BY <2>1 DEF DelayEnds
  <2>2. CASE AuditSucceeds(b)
    <3>1. answered' \in [Endpoints -> 0 .. 2]
      BY <2>2, CountType DEF AuditSucceeds
    <3> QED
      BY <2>2, <3>1 DEF AuditSucceeds
  <2>3. CASE AuditFails(b)
    <3>1. answered' \in [Endpoints -> 0 .. 2]
      BY <2>3, CountType DEF AuditFails
    <3> QED
      BY <2>3, <3>1 DEF AuditFails
  <2>4. CASE AuditThrows(b)
    BY <2>4 DEF AuditThrows, CallInv
  <2>5. CASE Revive(b)
    <3>1. at[b] \in silos /\ Update(at[b], TRUE, 0)
      BY <2>5 DEF Revive, CallInv
    <3>2. EntriesOK'
      BY <2>5, <3>1, <1>s, UpdateEntries DEF Revive, EntriesOK
    <3> QED
      BY <2>5, <3>2 DEF Revive, EntriesOK
  <2> QED
    BY <1>3, <2>1, <2>2, <2>3, <2>4, <2>5 DEF AuditEndpoint
<1>4. ASSUME NEW p \in Endpoints, GoDown(p) \/ ComeBack(p) PROVE TypeOK'
  BY <1>4, PoolAssumption DEF GoDown, ComeBack
<1> QED
  BY <1>0, <1>1, <1>2, <1>3, <1>4 DEF Next

LEMMA CallNext == PoolIInv /\ [Next]_vars => CallInv'
<1> SUFFICES ASSUME TypeOK, CallInv, [Next]_vars PROVE CallInv'
  BY DEF PoolIInv
<1> USE DEF CallInv, Actors, config, poolVars, callVars,
            writeVars, envVars, history, Goto, Return, EndWrite
<1>s. /\ pool \subseteq silos /\ pc \in [Actors -> WriterStates \cup AuditStates]
      /\ at \in [Actors -> Endpoints \cup {Nobody}] /\ seen \in [Actors -> {0, 1, 5, 60}]
      /\ Writers \cap Audits = {}
  BY PoolAssumption DEF TypeOK
<1>0. CASE UNCHANGED vars
  BY <1>0 DEF vars
<1>1. ASSUME NEW w \in Writers, Write(w) PROVE CallInv'
  <2>1. CASE BeginWrite(w)
    BY <1>s, <2>1 DEF BeginWrite
  <2>2. CASE Select(w)
    <3>1. Selector(w) \subseteq silos
      BY <1>s DEF Selector, Valid
    <3> QED
      BY <1>s, <2>2, <3>1 DEF Select
  <2>3. CASE SelectThrows(w) \/ Answered(w)
    BY <1>s, <2>3 DEF SelectThrows, Answered
  <2>4. CASE Walkaway(w)
    BY <1>s, <2>4 DEF Walkaway
  <2>5. CASE RemoveAnswered(w)
    BY <1>s, <2>5 DEF RemoveAnswered
  <2> QED
    BY <1>1, <2>1, <2>2, <2>3, <2>4, <2>5 DEF Write
<1>2. ASSUME NEW a \in Actors, RemoveEndpoint(a) PROVE CallInv'
  <2>1. CASE TryGetValue(a)
    BY <1>s, <2>1 DEF TryGetValue
  <2>2. CASE GiveUp(a)
    BY <1>s, <2>2 DEF GiveUp
  <2>3. CASE CheckAlive(a)
    BY <1>s, <2>3 DEF CheckAlive
  <2>4. CASE SetAside(a)
    BY <1>s, <2>4 DEF SetAside
  <2> QED
    BY <1>2, <2>1, <2>2, <2>3, <2>4 DEF RemoveEndpoint
<1>3. ASSUME NEW b \in Audits, AuditEndpoint(b) PROVE CallInv'
  <2>1. CASE DelayEnds(b)
    BY <1>s, <2>1 DEF DelayEnds
  <2>2. CASE AuditSucceeds(b)
    <3>1. UNCHANGED silos /\ pc[b] = "audit"
          /\ (Return(b) \/ (Goto(b, "revive") /\ UNCHANGED callVars))
      BY <2>2 DEF AuditSucceeds
    <3>2. b \notin Writers
      BY <1>s
    <3>3. CASE Return(b)
      BY <1>s, <3>1, <3>2, <3>3
    <3>4. CASE Goto(b, "revive") /\ UNCHANGED callVars
      BY <1>s, <3>1, <3>4
    <3> QED
      BY <3>1, <3>3, <3>4
  <2>3. CASE AuditFails(b)
    BY <1>s, <2>3 DEF AuditFails
  <2>4. CASE AuditThrows(b) \/ Revive(b)
    <3>1. UNCHANGED silos /\ Return(b)
      BY <2>4 DEF AuditThrows, Revive
    <3>2. b \notin Writers
      BY <1>s
    <3> QED
      BY <1>s, <3>1, <3>2
  <2> QED
    BY <1>3, <2>1, <2>2, <2>3, <2>4 DEF AuditEndpoint
<1>4. ASSUME NEW p \in Endpoints, GoDown(p) \/ ComeBack(p) PROVE CallInv'
  BY <1>4 DEF GoDown, ComeBack
<1> QED
  BY <1>0, <1>1, <1>2, <1>3, <1>4 DEF Next

\* A step that sets nothing aside keeps every endpoint covered, if it takes no
\* audit away from an endpoint that is still set aside.
LEMMA StillAudited ==
  ASSUME TypeOK, SetAsideIsAudited,
         (pool \ (alive \cup threw))' \subseteq pool \ (alive \cup threw),
         \A b \in Audits : pc[b] # "free" =>
           \/ at'[b] = at[b] /\ pc'[b] # "free"
           \/ at[b] \notin (pool \ (alive \cup threw))'
  PROVE  SetAsideIsAudited'
  BY DEF SetAsideIsAudited

LEMMA AuditedNext == PoolIInv /\ [Next]_vars => SetAsideIsAudited'
<1> SUFFICES ASSUME TypeOK, CallInv, SetAsideIsAudited, [Next]_vars
             PROVE SetAsideIsAudited'
  BY DEF PoolIInv
<1> USE DEF Actors, config, poolVars, callVars,
            writeVars, envVars, history, Goto, Return, EndWrite
<1>s. /\ pc \in [Actors -> WriterStates \cup AuditStates]
      /\ at \in [Actors -> Endpoints \cup {Nobody}]
      /\ Writers \cap Audits = {}
  BY PoolAssumption DEF TypeOK
<1>0. CASE UNCHANGED vars
  BY <1>0 DEF vars, SetAsideIsAudited
<1>1. ASSUME NEW w \in Writers, Write(w) PROVE SetAsideIsAudited'
  <2>1. CASE BeginWrite(w)
    BY <1>s, <2>1, StillAudited DEF BeginWrite
  <2>2. CASE Select(w) \/ SelectThrows(w) \/ Answered(w) \/ Walkaway(w)
    BY <1>s, <2>2, StillAudited DEF Select, SelectThrows, Answered, Walkaway
  <2>3. CASE RemoveAnswered(w)
    BY <1>s, <2>3, StillAudited DEF RemoveAnswered, TryRemove
  <2> QED
    BY <1>1, <2>1, <2>2, <2>3 DEF Write
<1>2. ASSUME NEW a \in Actors, RemoveEndpoint(a) PROVE SetAsideIsAudited'
  <2>1. CASE TryGetValue(a)
    BY <1>s, <2>1, StillAudited DEF TryGetValue
  <2>2. CASE GiveUp(a)
    BY <1>s, <2>2, StillAudited DEF GiveUp, TryRemove
  <2>3. CASE CheckAlive(a)
    BY <1>s, <2>3, StillAudited DEF CheckAlive
  <2>4. CASE SetAside(a)
    <3>1. PICK b \in Audits : at'[b] = at[a] /\ pc'[b] = "delay"
      BY <1>s, <2>4 DEF SetAside
    <3>2. \A c \in Audits : pc[c] # "free" => at'[c] = at[c] /\ pc'[c] # "free"
      BY <1>s, <2>4 DEF SetAside
    <3>3. (pool \ (alive \cup threw))' \subseteq (pool \ (alive \cup threw)) \cup {at[a]}
      BY <2>4 DEF SetAside, Update
    <3> QED
      BY <3>1, <3>2, <3>3 DEF SetAsideIsAudited
  <2> QED
    BY <1>2, <2>1, <2>2, <2>3, <2>4 DEF RemoveEndpoint
<1>3. ASSUME NEW b \in Audits, AuditEndpoint(b) PROVE SetAsideIsAudited'
  <2>1. CASE DelayEnds(b)
    BY <1>s, <2>1, StillAudited DEF DelayEnds
  <2>2. CASE AuditSucceeds(b)
    BY <1>s, <2>2, StillAudited DEF AuditSucceeds
  <2>3. CASE AuditFails(b)
    BY <1>s, <2>3, StillAudited DEF AuditFails
  <2>4. CASE AuditThrows(b)
    BY <1>s, <2>4, StillAudited DEF AuditThrows
  <2>5. CASE Revive(b)
    BY <1>s, <2>5, StillAudited DEF Revive, Update
  <2> QED
    BY <1>3, <2>1, <2>2, <2>3, <2>4, <2>5 DEF AuditEndpoint
<1>4. ASSUME NEW p \in Endpoints, GoDown(p) \/ ComeBack(p) PROVE SetAsideIsAudited'
  BY <1>4 DEF GoDown, ComeBack, SetAsideIsAudited
<1> QED
  BY <1>0, <1>1, <1>2, <1>3, <1>4 DEF Next

LEMMA PoolInvariant == Spec => []PoolIInv
<1>1. PoolIInv /\ [Next]_vars => PoolIInv'
  BY TypeNext, CallNext, AuditedNext DEF PoolIInv
<1> QED
  BY PoolInit, <1>1, PTL DEF Spec

\* Every variable keeps its type, and the entries of the pool are consistent.
THEOREM TypeCorrect == Spec => []TypeOK
<1>1. PoolIInv => TypeOK
  BY DEF PoolIInv
<1> QED
  BY <1>1, PoolInvariant, PTL

\* Whatever writes and audits interleave, an endpoint that is set aside is being
\* audited, unless an audit of it has thrown.
THEOREM SetAsideIsCovered == Spec => []SetAsideIsAudited
<1>1. PoolIInv => SetAsideIsAudited
  BY DEF PoolIInv
<1> QED
  BY <1>1, PoolInvariant, PTL

(***************************************************************************)
(* Giving up.  A walkaway value is worth the audits that answered before   *)
(* it came about: 5 one, 60 two.  Audits that answered and have not yet    *)
(* acted on it (Answering) are worth one each, in addition to the one      *)
(* behind a value that is in the entry, or that a write has read and will  *)
(* put there (Counted).                                                    *)
(***************************************************************************)
PostAnswer == {"revive", "get", "check", "set", "remove"}

Answering(p) == {b \in Audits : at[b] = p /\ pc[b] \in PostAnswer}

Counted(p) ==
  \/ delay[p] = 5
  \/ \E w \in Writers :
       /\ at[w] = p
       /\ \/ pc[w] = "check" /\ seen[w] = 60
          \/ pc[w] = "check" /\ seen[w] = 5 /\ p \in alive
          \/ pc[w] = "set" /\ seen[w] = 5

Twice(p) ==
  \/ delay[p] = 60
  \/ \E b \in Audits : at[b] = p /\ pc[b] \in {"check", "set"} /\ seen[b] = 60
  \/ \E w \in Writers :
       /\ at[w] = p /\ seen[w] = 60
       /\ pc[w] = "set" \/ (pc[w] = "check" /\ p \in alive)
  \/ \E a \in Actors : at[a] = p /\ pc[a] = "remove"

AnswersOK(p) ==
  /\ Answering(p) # {} \/ Counted(p) => answered[p] >= 1
  /\ \A b, c \in Answering(p) : b # c => answered[p] = 2
  /\ Answering(p) # {} /\ Counted(p) => answered[p] = 2
  /\ Twice(p) => answered[p] = 2

RemoveKind == \A a \in Actors : pc[a] = "remove" => kind = "error"

GivenInv ==
  RemoveKind /\ GivenUpAfterAudits /\ \A p \in Endpoints : AnswersOK(p)

\* A step after which nothing more is claimed of p.
LEMMA NoWorse ==
  ASSUME NEW p, AnswersOK(p), answered'[p] = answered[p],
         Answering(p)' \subseteq Answering(p),
         Counted(p)' => Counted(p), Twice(p)' => Twice(p)
  PROVE  AnswersOK(p)'
  BY DEF AnswersOK

\* The answer of an audit is counted when it is given.
LEMMA OneAnswerMore ==
  ASSUME TypeOK, NEW p \in Endpoints, AnswersOK(p), NEW b \in Audits, at[b] = p,
         b \notin Answering(p), CountAnswer(p),
         Answering(p)' \subseteq Answering(p) \cup {b},
         Counted(p)' => Counted(p), Twice(p)' => Twice(p)
  PROVE  AnswersOK(p)'
<1>1. /\ answered[p] \in 0 .. 2
      /\ answered'[p] = IF answered[p] < 2 THEN answered[p] + 1 ELSE answered[p]
  BY DEF TypeOK, CountAnswer
<1>2. answered'[p] >= 1
  BY <1>1
<1>3. answered[p] >= 1 => answered'[p] = 2
  BY <1>1
<1>4. Answering(p) # {} \/ Counted(p) => answered[p] >= 1
  BY DEF AnswersOK
<1>5. Twice(p) => answered[p] >= 1
  BY DEF AnswersOK
<1>6. \A c, d \in Answering(p)' : c # d => answered'[p] = 2
  BY <1>3, <1>4
<1> QED
  BY <1>2, <1>3, <1>4, <1>5, <1>6 DEF AnswersOK

\* The facts the steps below need of the types.
LEMMA Typed ==
  ASSUME TypeOK
  PROVE  /\ pool \subseteq Endpoints /\ alive \subseteq pool
         /\ delay \in [Endpoints -> {0, 1, 5, 60}]
         /\ \A p \in Endpoints : p \in alive => delay[p] = 0
         /\ pc \in [Actors -> WriterStates \cup AuditStates]
         /\ at \in [Actors -> Endpoints \cup {Nobody}]
         /\ seen \in [Actors -> {0, 1, 5, 60}]
         /\ Writers \cap Audits = {}
         /\ answered \in [Endpoints -> 0 .. 2]
  BY PoolAssumption DEF TypeOK

\* What a write does outside RemoveEndpoint claims nothing more.
LEMMA WriteAnswers ==
  ASSUME TypeOK, NEW p \in Endpoints, AnswersOK(p), NEW w \in Writers, Write(w)
  PROVE  AnswersOK(p)'
<1> USE DEF Actors, poolVars, callVars, history, Goto, Return, EndWrite
<1>1. /\ UNCHANGED answered
      /\ alive' \subseteq alive
      /\ delay'[p] \in {0, delay[p]}
      /\ \A a \in Actors \ {w} :
           pc'[a] = pc[a] /\ at'[a] = at[a] /\ seen'[a] = seen[a]
      /\ pc'[w] \in {"idle", "select", "write", "get"}
  <2>1. CASE BeginWrite(w)
    BY <2>1, Typed DEF BeginWrite
  <2>2. CASE Select(w) \/ SelectThrows(w) \/ Answered(w) \/ Walkaway(w)
    BY <2>2, Typed DEF Select, SelectThrows, Answered, Walkaway
  <2>3. CASE RemoveAnswered(w)
    BY <2>3, Typed DEF RemoveAnswered, TryRemove
  <2> QED
    BY <2>1, <2>2, <2>3 DEF Write
<1>2. w \notin Audits
  BY Typed
<1>3. Answering(p)' \subseteq Answering(p)
  BY <1>1, <1>2 DEF Answering
<1>4. Counted(p)' => Counted(p)
  BY <1>1 DEF Counted
<1>5. Twice(p)' => Twice(p)
  BY <1>1 DEF Twice
<1> QED
  BY <1>1, <1>3, <1>4, <1>5, NoWorse

\* A value read is worth what the entry is worth; 0 means that the entry is at 60.
LEMMA ReadAnswers ==
  ASSUME TypeOK, CallInv, NEW p \in Endpoints, AnswersOK(p), NEW a \in Actors,
         TryGetValue(a)
  PROVE  AnswersOK(p)'
<1> USE DEF Actors, poolVars, callVars, history, Goto, Return
<1>1. /\ UNCHANGED <<answered, alive, delay>> /\ pc[a] = "get"
      /\ \A c \in Actors \ {a} :
           pc'[c] = pc[c] /\ at'[c] = at[c] /\ seen'[c] = seen[c]
  BY Typed DEF TryGetValue
<1>2. CASE at[a] # p \/ p \notin pool
  <2>1. at'[a] = p => pc'[a] \in {"select", "free"}
    BY <1>2, Typed, NobodyAssumption DEF TryGetValue
  <2>2. Answering(p)' \subseteq Answering(p)
    BY <1>1, <2>1 DEF Answering, PostAnswer
  <2>3. (Counted(p)' => Counted(p)) /\ (Twice(p)' => Twice(p))
    BY <1>1, <2>1 DEF Counted, Twice
  <2> QED
    BY <1>1, <2>2, <2>3, NoWorse
<1>3. CASE at[a] = p /\ p \in pool
  <2> DEFINE v == NextWalkawayValue(delay[p])
  <2>1. /\ pc'[a] = IF v = 0 THEN "remove" ELSE "check"
        /\ at'[a] = p /\ seen'[a] = v
    BY <1>3, Typed DEF TryGetValue
  <2>2. /\ delay[p] \in {0, 1, 5, 60}
        /\ v = 5 => delay[p] = 1
        /\ v = 60 => delay[p] \in {5, 60}
        /\ v = 0 => delay[p] = 60
    BY Typed DEF NextWalkawayValue
  <2>3. Answering(p)' \subseteq Answering(p)
    BY <1>1, <1>3, <2>1 DEF Answering, PostAnswer
  <2>4. Counted(p)' => Counted(p) \/ Twice(p)
    <3>1. delay[p] \in {1, 5, 60} => p \notin alive
      BY Typed
    <3> QED
      BY <1>1, <1>3, <2>1, <2>2, <3>1 DEF Counted, Twice
  <2>5. Twice(p)' => Twice(p) \/ (a \in Answering(p) /\ Counted(p))
    <3>1. CASE v \in {0, 60}
      <4>1. delay[p] = 60 \/ delay[p] = 5
        BY <2>2, <3>1
      <4>2. CASE delay[p] = 60
        BY <4>2 DEF Twice
      <4>3. CASE delay[p] = 5
        <5>1. v = 60 /\ p \notin alive
          BY <2>2, <3>1, <4>3, Typed
        <5>2. CASE a \in Audits
          BY <1>1, <1>3, <4>3, <5>2 DEF Answering, PostAnswer, Counted
        <5>3. CASE a \in Writers
          BY <1>1, <1>3, <2>1, <5>1, <5>3, Typed DEF Twice
        <5> QED
          BY <5>2, <5>3
      <4> QED
        BY <4>1, <4>2, <4>3
    <3>2. CASE v \notin {0, 60}
      BY <1>1, <2>1, <3>2 DEF Twice
    <3> QED
      BY <3>1, <3>2
  <2> QED
    BY <1>1, <2>3, <2>4, <2>5 DEF AnswersOK
<1> QED
  BY <1>2, <1>3

\* A write goes on only if the endpoint is alive, which its value needs.
LEMMA CheckAnswers ==
  ASSUME TypeOK, NEW p \in Endpoints, AnswersOK(p), NEW a \in Actors,
         GiveUp(a) \/ CheckAlive(a)
  PROVE  AnswersOK(p)'
<1> USE DEF Actors, poolVars, callVars, history, Goto, Return
<1>1. /\ UNCHANGED answered /\ alive' \subseteq alive /\ delay'[p] \in {0, delay[p]}
      /\ \A c \in Actors \ {a} :
           pc'[c] = pc[c] /\ at'[c] = at[c] /\ seen'[c] = seen[c]
  BY Typed DEF GiveUp, CheckAlive, TryRemove
<1>2. CASE pc'[a] \in {"select", "free"}
  <2>1. Answering(p)' \subseteq Answering(p)
    BY <1>1, <1>2 DEF Answering, PostAnswer
  <2>2. (Counted(p)' => Counted(p)) /\ (Twice(p)' => Twice(p))
    BY <1>1, <1>2 DEF Counted, Twice
  <2> QED
    BY <1>1, <2>1, <2>2, NoWorse
<1>3. CASE /\ CheckAlive(a) /\ pc[a] = "check" /\ pc'[a] = "set"
           /\ at'[a] = at[a] /\ seen'[a] = seen[a]
           /\ a \in Writers => at[a] \in alive
  <2>1. Answering(p)' \subseteq Answering(p)
    BY <1>1, <1>3 DEF Answering, PostAnswer
  <2>2. Counted(p)' => Counted(p)
    BY <1>1, <1>3, Typed DEF Counted
  <2>3. Twice(p)' => Twice(p)
    BY <1>1, <1>3, Typed DEF Twice
  <2> QED
    BY <1>1, <2>1, <2>2, <2>3, NoWorse
<1> QED
  BY <1>2, <1>3, Typed DEF GiveUp, CheckAlive

\* The entry gets the value; the audit that brought it starts over.
LEMMA SetAnswers ==
  ASSUME TypeOK, CallInv, NEW p \in Endpoints, AnswersOK(p), NEW a \in Actors,
         SetAside(a)
  PROVE  AnswersOK(p)'
<1> USE DEF Actors, poolVars, callVars, history, Goto
<1>1. /\ UNCHANGED answered /\ alive' \subseteq alive /\ pc[a] = "set"
      /\ delay'[p] = IF p = at[a] THEN seen[a] ELSE delay[p]
      /\ \A c \in Actors : c # a /\ pc'[c] # "delay" =>
           pc'[c] = pc[c] /\ at'[c] = at[c] /\ seen'[c] = seen[c]
      /\ pc'[a] \in {"delay", "select"}
  BY Typed DEF SetAside, Update
<1>2. Answering(p)' \subseteq Answering(p) \ {a}
  BY <1>1 DEF Answering, PostAnswer
<1>3. CASE p # at[a]
  <2>1. (Counted(p)' => Counted(p)) /\ (Twice(p)' => Twice(p))
    BY <1>1, <1>3 DEF Counted, Twice
  <2> QED
    BY <1>1, <1>2, <2>1, NoWorse
<1>4. CASE p = at[a]
  <2>1. Twice(p)' => Twice(p)
    BY <1>1, <1>4 DEF Twice
  <2>2. CASE a \in Writers
    <3>1. Counted(p)' => Counted(p)
      BY <1>1, <1>4, <2>2 DEF Counted
    <3> QED
      BY <1>1, <1>2, <2>1, <3>1, NoWorse
  <2>3. CASE a \in Audits
    <3>1. a \in Answering(p)
      BY <1>1, <1>4, <2>3 DEF Answering, PostAnswer
    <3>2. Answering(p)' # {} => answered[p] = 2
      BY <1>2, <3>1 DEF AnswersOK
    <3> QED
      BY <1>1, <1>2, <2>1, <3>1, <3>2 DEF AnswersOK
  <2> QED
    BY <2>2, <2>3
<1> QED
  BY <1>3, <1>4

\* An audit answers, throws, or makes its endpoint alive again.
LEMMA AuditAnswers ==
  ASSUME TypeOK, CallInv, NEW p \in Endpoints, AnswersOK(p), NEW b \in Audits,
         AuditEndpoint(b)
  PROVE  AnswersOK(p)'
<1> USE DEF Actors, poolVars, callVars, history, Goto, Return
<1>1. b \notin Writers /\ at[b] \in Endpoints \cup {Nobody}
  BY Typed
<1>2. CASE DelayEnds(b) \/ AuditThrows(b)
  <2>1. /\ UNCHANGED <<answered, alive, delay>> /\ pc'[b] \in {"audit", "free"}
        /\ \A c \in Actors \ {b} :
             pc'[c] = pc[c] /\ at'[c] = at[c] /\ seen'[c] = seen[c]
    BY <1>1, <1>2, Typed DEF DelayEnds, AuditThrows
  <2>2. Answering(p)' \subseteq Answering(p)
    BY <2>1 DEF Answering, PostAnswer
  <2>3. (Counted(p)' => Counted(p)) /\ (Twice(p)' => Twice(p))
    BY <1>1, <2>1 DEF Counted, Twice
  <2> QED
    BY <2>1, <2>2, <2>3, NoWorse
<1>3. CASE AuditSucceeds(b) \/ AuditFails(b)
  <2>1. /\ UNCHANGED <<alive, delay>> /\ pc[b] = "audit" /\ CountAnswer(at[b])
        /\ pc'[b] \in {"revive", "get", "free"}
        /\ pc'[b] # "free" => at'[b] = at[b]
        /\ \A c \in Actors \ {b} :
             pc'[c] = pc[c] /\ at'[c] = at[c] /\ seen'[c] = seen[c]
    BY <1>1, <1>3, Typed DEF AuditSucceeds, AuditFails
  <2>2. /\ b \notin Answering(p)
        /\ Answering(p)' \subseteq Answering(p) \cup (IF at[b] = p THEN {b} ELSE {})
    BY <2>1 DEF Answering, PostAnswer
  <2>3. (Counted(p)' => Counted(p)) /\ (Twice(p)' => Twice(p))
    BY <1>1, <2>1 DEF Counted, Twice
  <2>4. CASE at[b] = p
    BY <2>1, <2>2, <2>3, <2>4, OneAnswerMore
  <2>5. CASE at[b] # p
    <3>1. answered'[p] = answered[p]
      BY <2>1, <2>5, Typed DEF CountAnswer
    <3> QED
      BY <2>2, <2>3, <2>5, <3>1, NoWorse
  <2> QED
    BY <2>4, <2>5
<1>4. CASE Revive(b)
  <2>1. /\ UNCHANGED answered /\ pc[b] = "revive" /\ pc'[b] = "free"
        /\ alive' = alive \cup {at[b]}
        /\ delay'[p] = IF p = at[b] THEN 0 ELSE delay[p]
        /\ \A c \in Actors \ {b} :
             pc'[c] = pc[c] /\ at'[c] = at[c] /\ seen'[c] = seen[c]
    BY <1>1, <1>4, Typed DEF Revive, Update
  <2>2. Answering(p)' \subseteq Answering(p) \ {b}
    BY <2>1 DEF Answering, PostAnswer
  <2>3. CASE at[b] # p
    <3>1. (Counted(p)' => Counted(p)) /\ (Twice(p)' => Twice(p))
      BY <1>1, <2>1, <2>3 DEF Counted, Twice
    <3> QED
      BY <2>1, <2>2, <3>1, NoWorse
  <2>4. CASE at[b] = p
    <3>1. b \in Answering(p)
      BY <2>1, <2>4 DEF Answering, PostAnswer
    <3>2. Answering(p)' # {} => answered[p] = 2
      BY <2>2, <3>1 DEF AnswersOK
    <3>3. Twice(p)' => Twice(p) \/ Counted(p)
      BY <1>1, <2>1, <2>4 DEF Twice, Counted
    <3> QED
      BY <2>1, <2>2, <3>1, <3>2, <3>3 DEF AnswersOK
  <2> QED
    BY <2>3, <2>4
<1> QED
  BY <1>2, <1>3, <1>4 DEF AuditEndpoint

LEMMA AnswersNext ==
  ASSUME TypeOK, CallInv, NEW p \in Endpoints, AnswersOK(p), [Next]_vars
  PROVE  AnswersOK(p)'
<1>1. CASE UNCHANGED vars \/ \E q \in Endpoints : GoDown(q) \/ ComeBack(q)
  <2>1. UNCHANGED <<alive, delay, pc, at, seen, answered>>
    BY <1>1 DEF vars, GoDown, ComeBack, poolVars, callVars, history
  <2>2. Answering(p)' = Answering(p) /\ Counted(p)' = Counted(p) /\ Twice(p)' = Twice(p)
    BY <2>1 DEF Answering, Counted, Twice
  <2> QED
    BY <2>1, <2>2 DEF AnswersOK
<1> QED
  BY <1>1, WriteAnswers, ReadAnswers, CheckAnswers, SetAnswers, AuditAnswers
     DEF Next, RemoveEndpoint

\* Only the error writer's walkaway values end.
LEMMA RemoveKindNext ==
  ASSUME TypeOK, CallInv, RemoveKind, [Next]_vars
  PROVE  RemoveKind' /\ UNCHANGED kind
<1> USE DEF RemoveKind, Actors, config, callVars, Goto, Return, EndWrite
<1>1. CASE UNCHANGED vars \/ \E q \in Endpoints : GoDown(q) \/ ComeBack(q)
  BY <1>1 DEF vars, GoDown, ComeBack
<1>2. ASSUME NEW w \in Writers, Write(w) PROVE RemoveKind' /\ UNCHANGED kind
  BY <1>2, Typed DEF Write, BeginWrite, Select, SelectThrows, Answered, Walkaway,
     RemoveAnswered
<1>3. ASSUME NEW a \in Actors, TryGetValue(a) PROVE RemoveKind' /\ UNCHANGED kind
  <2>1. \A v \in {0, 1, 5, 60} : NextWalkawayValue(v) = 0 => kind # "edw"
    BY DEF NextWalkawayValue
  <2>2. kind \in {"edw", "error"}
    BY PoolAssumption DEF TypeOK
  <2>3. at[a] \in pool => delay[at[a]] \in {0, 1, 5, 60}
    BY Typed
  <2> QED
    BY <1>3, <2>1, <2>2, <2>3, Typed DEF TryGetValue
<1>4. ASSUME NEW a \in Actors, GiveUp(a) \/ CheckAlive(a) \/ SetAside(a)
      PROVE  RemoveKind' /\ UNCHANGED kind
  <2>1. CASE GiveUp(a)
    BY <2>1, Typed DEF GiveUp
  <2>2. CASE CheckAlive(a)
    BY <2>2, Typed DEF CheckAlive
  <2>3. CASE SetAside(a)
    BY <2>3, Typed DEF SetAside
  <2> QED
    BY <1>4, <2>1, <2>2, <2>3
<1>5. ASSUME NEW b \in Audits, AuditEndpoint(b) PROVE RemoveKind' /\ UNCHANGED kind
  BY <1>5, Typed, ZenonT(60) DEF AuditEndpoint, DelayEnds, AuditSucceeds, AuditFails,
     AuditThrows, Revive
<1> QED
  BY <1>1, <1>2, <1>3, <1>4, <1>5 DEF Next, RemoveEndpoint

\* An endpoint leaves the pool because it was told to, or by GiveUp.
LEMMA GivenUpNext ==
  ASSUME TypeOK, TypeOK', CallInv, GivenInv, [Next]_vars,
         \A p \in Endpoints : AnswersOK(p)'
  PROVE  GivenUpAfterAudits'
<1>1. UNCHANGED <<kind, silos>> /\ silos \subseteq Endpoints
  <2>1. UNCHANGED config
    BY DEF Next, vars, Write, BeginWrite, Select, SelectThrows, Answered, Walkaway,
       RemoveAnswered, RemoveEndpoint, TryGetValue, GiveUp, CheckAlive, SetAside,
       AuditEndpoint, DelayEnds, AuditSucceeds, AuditFails, AuditThrows, Revive,
       GoDown, ComeBack
  <2> QED
    BY <2>1, PoolAssumption DEF config, TypeOK
<1>2. \A p \in Endpoints : answered[p] = 2 => answered'[p] = 2
  <2>1. UNCHANGED answered \/ \E b \in Audits : CountAnswer(at[b])
    BY DEF Next, vars, history, Write, BeginWrite, Select, SelectThrows, Answered,
       Walkaway, RemoveAnswered, RemoveEndpoint, TryGetValue, GiveUp, CheckAlive,
       SetAside, AuditEndpoint, DelayEnds, AuditSucceeds, AuditFails, AuditThrows,
       Revive, GoDown, ComeBack
  <2> QED
    BY <2>1, Typed DEF CountAnswer
<1>3. \/ pool \subseteq pool' /\ told \subseteq told'
      \/ \E w \in Writers : RemoveAnswered(w)
      \/ \E a \in Actors : GiveUp(a)
  BY DEF Next, vars, history, poolVars, Write, BeginWrite, Select, SelectThrows,
     Answered, Walkaway, RemoveEndpoint, TryGetValue, CheckAlive, SetAside, Update,
     AuditEndpoint, DelayEnds, AuditSucceeds, AuditFails, AuditThrows, Revive,
     GoDown, ComeBack
<1>4. CASE pool \subseteq pool' /\ told \subseteq told'
  BY <1>1, <1>2, <1>4 DEF GivenInv, GivenUpAfterAudits
<1>5. CASE \E w \in Writers : RemoveAnswered(w)
  BY <1>1, <1>2, <1>5 DEF RemoveAnswered, TryRemove, GivenInv, GivenUpAfterAudits
<1>6. ASSUME NEW a \in Actors, GiveUp(a) PROVE GivenUpAfterAudits'
  <2>1. /\ pool' = pool \ {at[a]} /\ UNCHANGED <<told, answered>>
        /\ pc[a] = "remove" /\ at[a] \in silos
    BY <1>6 DEF GiveUp, TryRemove, history, CallInv
  <2>2. Twice(at[a])
    BY <2>1 DEF Twice
  <2>3. kind = "error" /\ answered[at[a]] = 2
    BY <1>1, <2>1, <2>2 DEF GivenInv, RemoveKind, AnswersOK
  <2> QED
    BY <1>1, <2>1, <2>3 DEF GivenInv, GivenUpAfterAudits
<1> QED
  BY <1>3, <1>4, <1>5, <1>6

LEMMA GivenInit == Init => GivenInv
<1> SUFFICES ASSUME Init PROVE GivenInv
  OBVIOUS
<1>1. RemoveKind /\ GivenUpAfterAudits
  BY DEF Init, RemoveKind, GivenUpAfterAudits
<1>2. ASSUME NEW p \in Endpoints PROVE AnswersOK(p)
  <2>1. /\ delay[p] = 0
        /\ \A a \in Actors : pc[a] \in {"idle", "free"}
    BY <1>2 DEF Init
  <2>2. Answering(p) = {} /\ ~Counted(p) /\ ~Twice(p)
    BY <2>1 DEF Answering, PostAnswer, Counted, Twice, Actors
  <2> QED
    BY <2>2 DEF AnswersOK
<1> QED
  BY <1>1, <1>2 DEF GivenInv

\* However writes and audits interleave, and however many of them there are, an
\* endpoint is given up only by the error writer and after two answers of audits.
THEOREM GivenUpCovered == Spec => []GivenUpAfterAudits
<1>1. PoolIInv /\ PoolIInv' /\ GivenInv /\ [Next]_vars => GivenInv'
  <2> SUFFICES ASSUME PoolIInv, PoolIInv', GivenInv, [Next]_vars PROVE GivenInv'
    OBVIOUS
  <2>1. \A p \in Endpoints : AnswersOK(p)'
    BY AnswersNext DEF PoolIInv, GivenInv
  <2>2. RemoveKind'
    BY RemoveKindNext DEF PoolIInv, GivenInv
  <2>3. GivenUpAfterAudits'
    BY <2>1, GivenUpNext DEF PoolIInv
  <2> QED
    BY <2>1, <2>2, <2>3 DEF GivenInv
<1>2. GivenInv => GivenUpAfterAudits
  BY DEF GivenInv
<1> QED
  BY <1>1, <1>2, GivenInit, PoolInvariant, PTL DEF Spec
=============================================================================
