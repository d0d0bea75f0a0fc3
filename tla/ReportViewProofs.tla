-------------------------- MODULE ReportViewProofs --------------------------
(***************************************************************************)
(* Proofs about the reports and the Query components next to them, for any *)
(* number of both, of queries, submits and executions, and every fault.    *)
(***************************************************************************)
EXTENDS ReportView, TLAPS

Hows == {"auto", "form"}

LEMMA CallersApart ==
  /\ Null \notin Selected
  /\ \A v \in Views : v \in Callers
  /\ \A r \in Reports, how \in Hows : Caller(r, how) \in Callers \ Views
  /\ \A r, q \in Reports, how, why \in Hows :
       Caller(r, how) = Caller(q, why) => r = q /\ how = why
  BY ReportAssumption, ViewAssumption DEF Caller, Hows

(***************************************************************************)
(* The slice and the components, seen from the actions that use them       *)
(***************************************************************************)
\* What an execution or its end does to the counters.
LEMMA ExecuteShape ==
  ASSUME TypeOK, NEW c \in Callers, NEW k \in Keys, executeQuery(c, k)
  PROVE  /\ inFlight' \in [Callers -> [Keys -> 0 .. MaxInFlight]]
         /\ inFlight'[c][k] = inFlight[c][k] + 1
         /\ \A d \in Callers, l \in Keys :
              d # c \/ l # k => inFlight'[d][l] = inFlight[d][l]
<1> USE DEF TypeOK, executeQuery
<1>1. inFlight[c][k] \in 0 .. MaxInFlight /\ inFlight[c][k] < MaxInFlight
  OBVIOUS
<1>2. inFlight[c][k] + 1 \in 0 .. MaxInFlight
  BY <1>1, ViewAssumption
<1>3. inFlight' = [inFlight EXCEPT ![c] = [inFlight[c] EXCEPT ![k] = inFlight[c][k] + 1]]
  OBVIOUS
<1>4. inFlight[c] \in [Keys -> 0 .. MaxInFlight]
  OBVIOUS
<1>5. [inFlight[c] EXCEPT ![k] = inFlight[c][k] + 1] \in [Keys -> 0 .. MaxInFlight]
  BY <1>2, <1>4
<1>6. inFlight' \in [Callers -> [Keys -> 0 .. MaxInFlight]]
  BY <1>3, <1>5
<1> QED
  BY <1>3, <1>4, <1>6

LEMMA AnsweredShape ==
  ASSUME TypeOK, NEW c \in Callers, NEW k \in Keys, NEW outcome \in Outcomes,
         Answered(c, k, outcome)
  PROVE  /\ inFlight' \in [Callers -> [Keys -> 0 .. MaxInFlight]]
         /\ inFlight[c][k] > 0
         /\ inFlight'[c][k] = inFlight[c][k] - 1
         /\ \A d \in Callers, l \in Keys :
              d # c \/ l # k => inFlight'[d][l] = inFlight[d][l]
         /\ cached' \subseteq Keys /\ object' \in {0, 1} /\ listed' \in BOOLEAN
<1> USE DEF TypeOK, Answered, slice
<1>1. inFlight[c][k] \in 0 .. MaxInFlight /\ inFlight[c][k] > 0
  OBVIOUS
<1>2. inFlight[c][k] - 1 \in 0 .. MaxInFlight
  BY <1>1, ViewAssumption
<1>3. inFlight' = [inFlight EXCEPT ![c] = [inFlight[c] EXCEPT ![k] = inFlight[c][k] - 1]]
  OBVIOUS
<1>4. inFlight[c] \in [Keys -> 0 .. MaxInFlight]
  OBVIOUS
<1>5. [inFlight[c] EXCEPT ![k] = inFlight[c][k] - 1] \in [Keys -> 0 .. MaxInFlight]
  BY <1>2, <1>4
<1>6. inFlight' \in [Callers -> [Keys -> 0 .. MaxInFlight]]
  BY <1>3, <1>5
<1>7. cached' \subseteq Keys /\ object' \in {0, 1} /\ listed' \in BOOLEAN
  OBVIOUS
<1> QED
  BY <1>1, <1>3, <1>4, <1>6, <1>7

\* What SetState does, position by position.
SetTo(v, was, s, d) ==
  /\ status' \in [Views -> {"none", "loading", "loaded", "error"}]
  /\ data' \in [Views -> Keys \cup {Null}]
  /\ rendered' \in [Views -> Keys \cup {Null}]
  /\ \A w \in Views \ {v} : /\ status'[w] = status[w]
                            /\ data'[w] = data[w]
                            /\ rendered'[w] = rendered[w]
  /\ life'[v] # "gone" =>
       /\ status'[v] = s /\ data'[v] = d
       /\ rendered'[v] = IF s = "loaded" /\ was # "loaded" THEN d ELSE rendered[v]

LEMMA SetStateShape ==
  ASSUME TypeOK, NEW v \in Views, NEW was,
         NEW s \in {"none", "loading", "loaded", "error"},
         NEW d \in Keys \cup {Null}, SetState(v, was, s, d)
  PROVE  SetTo(v, was, s, d)
<1>1. /\ status \in [Views -> {"none", "loading", "loaded", "error"}]
      /\ data \in [Views -> Keys \cup {Null}]
      /\ rendered \in [Views -> Keys \cup {Null}]
  BY DEF TypeOK
<1> QED
  BY <1>1 DEF SetState, SetTo, display

\* A load leaves every component but its own alone, and no counter but its own grows.
LoadFrame(v) ==
  /\ status' \in [Views -> {"none", "loading", "loaded", "error"}]
  /\ data' \in [Views -> Keys \cup {Null}]
  /\ rendered' \in [Views -> Keys \cup {Null}]
  /\ skipped' \in [Views -> BOOLEAN]
  /\ inFlight' \in [Callers -> [Keys -> 0 .. MaxInFlight]]
  /\ \A w \in Views \ {v} : /\ status'[w] = status[w]
                            /\ data'[w] = data[w]
                            /\ rendered'[w] = rendered[w]
                            /\ skipped'[w] = skipped[w]
  /\ \A c \in Callers, l \in Keys :
       inFlight'[c][l] = inFlight[c][l]
       \/ (c = v /\ inFlight'[c][l] = inFlight[c][l] + 1)

\* A load finds no config, or an invalid one, or the result, or executes the query.
LEMMA LoadShape ==
  ASSUME TypeOK, NEW v \in Views, NEW k \in Keys \cup Invalid,
         NEW was \in {"none", "loading", "loaded", "error"},
         NEW d \in Keys \cup {Null}, loadRemoteData(v, k, was, d)
  PROVE  /\ LoadFrame(v)
         /\ life'[v] # "gone" =>
              \/ /\ skipped'[v] /\ status'[v] = was /\ data'[v] = d
                 /\ rendered'[v] = rendered[v]
              \/ k \in Invalid /\ status'[v] = "error"
              \/ /\ status'[v] = "loaded" /\ data'[v] = k
                 /\ rendered'[v] = IF was # "loaded" THEN k ELSE rendered[v]
              \/ /\ status'[v] = "loading"
                 /\ Running(v)' \/ runCount[v] >= MaxRuns
<1>0. v \in Callers
  BY CallersApart
<1>1. /\ skipped' \in [Views -> BOOLEAN]
      /\ \A w \in Views \ {v} : skipped'[w] = skipped[w]
      /\ skipped'[v] = ~listed
  BY DEF loadRemoteData, TypeOK
<1>2. ASSUME NEW s \in {"none", "loading", "loaded", "error"},
             NEW e \in Keys \cup {Null}, SetState(v, was, s, e),
             \/ inFlight' = inFlight
             \/ k \in Keys /\ executeQuery(v, k)
      PROVE  LoadFrame(v)
  <2>1. /\ inFlight' \in [Callers -> [Keys -> 0 .. MaxInFlight]]
        /\ \A c \in Callers, l \in Keys :
             inFlight'[c][l] = inFlight[c][l]
             \/ (c = v /\ inFlight'[c][l] = inFlight[c][l] + 1)
    <3>1. CASE inFlight' = inFlight
      BY <3>1 DEF TypeOK
    <3>2. CASE k \in Keys /\ executeQuery(v, k)
      BY <1>0, <3>2, ExecuteShape
    <3> QED
      BY <1>2, <3>1, <3>2
  <2>2. /\ status' \in [Views -> {"none", "loading", "loaded", "error"}]
        /\ data' \in [Views -> Keys \cup {Null}]
        /\ rendered' \in [Views -> Keys \cup {Null}]
        /\ \A w \in Views \ {v} : /\ status'[w] = status[w]
                                  /\ data'[w] = data[w]
                                  /\ rendered'[w] = rendered[w]
    <3>1. SetTo(v, was, s, e)
      BY <1>2, SetStateShape, Zenon
    <3> QED
      BY <3>1 DEF SetTo
  <2> QED
    BY <1>1, <2>1, <2>2 DEF LoadFrame
<1>3. CASE ~listed
  <2>1. SetState(v, was, was, d) /\ inFlight' = inFlight
    BY <1>3 DEF loadRemoteData
  <2>2. life'[v] # "gone" =>
          status'[v] = was /\ data'[v] = d /\ rendered'[v] = rendered[v]
    <3>1. SetTo(v, was, was, d)
      BY <2>1, SetStateShape, Zenon
    <3> QED
      BY <3>1 DEF SetTo
  <2> QED
    BY <1>1, <1>2, <1>3, <2>1, <2>2
<1>4. CASE listed /\ k \in cached
  <2>1. SetState(v, was, "loaded", k) /\ inFlight' = inFlight /\ k \in Keys
    BY <1>4, ViewAssumption DEF loadRemoteData, TypeOK
  <2>2. life'[v] # "gone" =>
          /\ status'[v] = "loaded" /\ data'[v] = k
          /\ rendered'[v] = IF was # "loaded" THEN k ELSE rendered[v]
    <3>1. SetTo(v, was, "loaded", k)
      BY <2>1, SetStateShape
    <3> QED
      BY <3>1 DEF SetTo
  <2> QED
    BY <1>2, <2>1, <2>2
<1>5. CASE listed /\ k \in Keys \ cached
  <2> k \in Keys
    BY <1>5
  <2>1. SetState(v, was, "loading", d)
    BY <1>5, ViewAssumption DEF loadRemoteData
  <2>2. life'[v] # "gone" => status'[v] = "loading"
    <3>1. SetTo(v, was, "loading", d)
      BY <2>1, SetStateShape
    <3> QED
      BY <3>1 DEF SetTo
  <2>3. CASE runCount[v] < MaxRuns
    <3>1. executeQuery(v, k)
      BY <1>5, <2>3, ViewAssumption DEF loadRemoteData
    <3>2. inFlight[v][k] \in Nat
      BY <1>0, ViewAssumption DEF TypeOK
    <3>3. Running(v)'
      BY <1>0, <3>1, <3>2, ExecuteShape DEF Running
    <3> QED
      BY <1>2, <2>1, <2>2, <3>1, <3>3
  <2>4. CASE ~(runCount[v] < MaxRuns)
    <3>1. inFlight' = inFlight
      BY <1>5, <2>4, ViewAssumption DEF loadRemoteData
    <3>2. runCount[v] >= MaxRuns
      BY <2>4, ViewAssumption DEF TypeOK
    <3> QED
      BY <1>2, <2>1, <2>2, <3>1, <3>2
  <2> QED
    BY <2>3, <2>4
<1>6. CASE listed /\ k \in Invalid
  <2>1. SetState(v, was, "error", d) /\ inFlight' = inFlight
    BY <1>6, ViewAssumption DEF loadRemoteData, TypeOK
  <2>2. life'[v] # "gone" => status'[v] = "error"
    <3>1. SetTo(v, was, "error", d)
      BY <2>1, SetStateShape
    <3> QED
      BY <3>1 DEF SetTo
  <2> QED
    BY <1>2, <1>6, <2>1, <2>2
<1> QED
  BY <1>3, <1>4, <1>5, <1>6

(***************************************************************************)
(* What a Query component shows                                            *)
(***************************************************************************)
\* A loading comes to an end by an execution, and the end of a loading starts a
\* timer; what is loaded is the result of the query the component is bound to.
ViewInv(v) ==
  life[v] = "mounted" =>
    /\ status[v] = "loaded" => data[v] = query[v] /\ rendered[v] = query[v]
    /\ status[v] = "loading" => Running(v) \/ runCount[v] >= MaxRuns
    /\ status[v] = "error" => rejected[v] \/ query[v] \in Invalid
    /\ status[v] = "none" =>
         \/ reloads[v] > 0 \/ rejected[v] \/ skipped[v] \/ query[v] \in Invalid
         \/ (data[v] = query[v] /\ rendered[v] = query[v])

\* What ViewInv says of a component depends on nothing else.
SameView(v) ==
  /\ life'[v] = life[v] /\ query'[v] = query[v]
  /\ status'[v] = status[v] /\ data'[v] = data[v] /\ rendered'[v] = rendered[v]
  /\ runCount'[v] = runCount[v] /\ reloads'[v] = reloads[v]
  /\ skipped'[v] = skipped[v] /\ rejected'[v] = rejected[v]
  /\ \A k \in Keys : inFlight'[v][k] = inFlight[v][k]

LEMMA SameViewKeeps ==
  ASSUME NEW v \in Views, ViewInv(v), SameView(v)
  PROVE  ViewInv(v)'
  BY DEF ViewInv, SameView, Running

\* A step of a component changes nothing of another.
LEMMA OthersSame ==
  ASSUME TypeOK, NEW v \in Views, NEW w \in Views, w # v,
         \/ componentDidMount(v) \/ (\E k \in Keys \cup Invalid : Rebind(v, k))
         \/ renderChildren(v) \/ Reload(v) \/ componentWillUnmount(v) \/ ViewAnswers(v)
  PROVE  SameView(w)
<1>0. v \in Callers /\ w \in Callers
  BY CallersApart
<1>1. ASSUME LoadFrame(v),
             life'[w] = life[w], query'[w] = query[w], runCount'[w] = runCount[w],
             reloads'[w] = reloads[w], rejected'[w] = rejected[w]
      PROVE  SameView(w)
  BY <1>0, <1>1 DEF LoadFrame, SameView
<1>2. CASE componentDidMount(v)
  <2>1. LoadFrame(v)
    BY <1>2, LoadShape DEF componentDidMount, TypeOK
  <2> QED
    BY <1>1, <1>2, <2>1 DEF componentDidMount, TypeOK
<1>3. ASSUME NEW k \in Keys \cup Invalid, Rebind(v, k) PROVE SameView(w)
  <2>1. LoadFrame(v)
    BY <1>3, LoadShape DEF Rebind
  <2>2. /\ life' = life /\ query'[w] = query[w] /\ runCount' = runCount
        /\ reloads'[w] = reloads[w] /\ rejected'[w] = rejected[w]
    BY <1>3 DEF Rebind, TypeOK
  <2> QED
    BY <1>1, <2>1, <2>2
<1>4. CASE renderChildren(v)
  BY <1>4 DEF renderChildren, SameView, TypeOK
<1>5. CASE Reload(v)
  <2>1. LoadFrame(v)
    BY <1>5, LoadShape DEF Reload, TypeOK
  <2>2. /\ life' = life /\ query' = query /\ runCount' = runCount
        /\ reloads'[w] = reloads[w] /\ rejected' = rejected
    BY <1>5 DEF Reload, TypeOK
  <2> QED
    BY <1>1, <2>1, <2>2
<1>6. CASE componentWillUnmount(v)
  BY <1>6 DEF componentWillUnmount, SameView, display, TypeOK
<1>7. ASSUME NEW k \in Keys, NEW outcome \in Outcomes, Answer(v, k, outcome)
      PROVE  SameView(w)
  <2>1. \A l \in Keys : inFlight'[w][l] = inFlight[w][l]
    BY <1>0, <1>7, AnsweredShape DEF Answer
  <2>2. status'[w] = status[w] /\ data'[w] = data[w] /\ rendered'[w] = rendered[w]
    <3> DEFINE s == IF outcome = "reject" THEN "error" ELSE "none"
    <3>1. data[v] \in Keys \cup {Null} /\ s \in {"none", "loading", "loaded", "error"}
      BY DEF TypeOK
    <3>2. SetState(v, status[v], s, data[v])
      BY <1>7 DEF Answer
    <3> HIDE DEF s
    <3>3. SetTo(v, status[v], s, data[v])
      BY <3>1, <3>2, SetStateShape, Zenon
    <3> QED
      BY <3>3 DEF SetTo
  <2>3. /\ life' = life /\ query' = query /\ skipped' = skipped
        /\ runCount'[w] = runCount[w] /\ reloads'[w] = reloads[w]
        /\ rejected'[w] = rejected[w]
    BY <1>7 DEF Answer, TypeOK
  <2> QED
    BY <2>1, <2>2, <2>3 DEF SameView
<1> QED
  BY <1>2, <1>3, <1>4, <1>5, <1>6, <1>7 DEF ViewAnswers

LEMMA ComponentTypes ==
  ASSUME TypeOK, Next
  PROVE  TypeOK'
<1>1. CASE ListLoads \/ ListPending
  BY <1>1 DEF ListLoads, ListPending, TypeOK, slice, display
<1>2. ASSUME NEW v \in Views, componentDidMount(v) PROVE TypeOK'
  <2>1. query[v] \in Keys \cup Invalid
    BY DEF TypeOK
  <2>2. LoadFrame(v)
    BY <1>2, <2>1, LoadShape DEF componentDidMount
  <2> QED
    BY <1>2, <2>2 DEF componentDidMount, TypeOK, slice, LoadFrame
<1>3. ASSUME NEW v \in Views, NEW k \in Keys \cup Invalid, Rebind(v, k) PROVE TypeOK'
  <2>1. LoadFrame(v)
    BY <1>3, LoadShape DEF Rebind
  <2>2. rebinds' \in 0 .. MaxRebinds
    BY <1>3, ViewAssumption DEF Rebind, TypeOK
  <2>3. reloads' \in [Views -> Nat]
    BY <1>3 DEF Rebind, TypeOK
  <2> QED
    BY <1>3, <2>1, <2>2, <2>3 DEF Rebind, TypeOK, slice, LoadFrame
<1>4. ASSUME NEW v \in Views, renderChildren(v) PROVE TypeOK'
  BY <1>4 DEF renderChildren, TypeOK, slice
<1>5. ASSUME NEW v \in Views, Reload(v) PROVE TypeOK'
  <2>1. /\ query[v] \in Keys \cup Invalid /\ data[v] \in Keys \cup {Null}
        /\ status[v] \in {"none", "loading", "loaded", "error"}
    BY DEF TypeOK
  <2>2. LoadFrame(v)
    BY <1>5, <2>1, LoadShape DEF Reload
  <2>3. reloads' \in [Views -> Nat]
    BY <1>5 DEF Reload, TypeOK
  <2> QED
    BY <1>5, <2>2, <2>3 DEF Reload, TypeOK, slice, LoadFrame
<1>6. ASSUME NEW v \in Views, componentWillUnmount(v) PROVE TypeOK'
  BY <1>6 DEF componentWillUnmount, TypeOK, slice, display
<1>7. ASSUME NEW v \in Views, NEW k \in Keys, NEW outcome \in Outcomes,
             Answer(v, k, outcome)
      PROVE  TypeOK'
  <2>1. /\ inFlight' \in [Callers -> [Keys -> 0 .. MaxInFlight]]
        /\ cached' \subseteq Keys /\ object' \in {0, 1} /\ listed' \in BOOLEAN
    BY <1>7, AnsweredShape, CallersApart DEF Answer
  <2>2. data[v] \in Keys \cup {Null}
    BY DEF TypeOK
  <2>3. /\ status' \in [Views -> {"none", "loading", "loaded", "error"}]
        /\ data' \in [Views -> Keys \cup {Null}]
        /\ rendered' \in [Views -> Keys \cup {Null}]
    <3> DEFINE s == IF outcome = "reject" THEN "error" ELSE "none"
    <3>1. s \in {"none", "loading", "loaded", "error"}
      OBVIOUS
    <3>2. SetState(v, status[v], s, data[v])
      BY <1>7 DEF Answer
    <3> HIDE DEF s
    <3>3. SetTo(v, status[v], s, data[v])
      BY <2>2, <3>1, <3>2, SetStateShape, Zenon
    <3> QED
      BY <3>3 DEF SetTo
  <2>4. runCount' \in [Views -> Nat] /\ reloads' \in [Views -> Nat]
    BY <1>7 DEF Answer, TypeOK
  <2> QED
    BY <1>7, <2>1, <2>3, <2>4 DEF Answer, TypeOK
<1> QED
  BY <1>1, <1>2, <1>3, <1>4, <1>5, <1>6, <1>7 DEF Next, ViewAnswers

LEMMA ShownStep ==
  ASSUME TypeOK, Next, NEW v \in Views, ViewInv(v)
  PROVE  ViewInv(v)'
<1>0. v \in Callers
  BY CallersApart
<1>1. CASE ListLoads \/ ListPending
  BY <1>1, SameViewKeeps DEF ListLoads, ListPending, SameView, display
<1>2. CASE componentDidMount(v)
  <2>1. query[v] \in Keys \cup Invalid
    BY DEF TypeOK
  <2>2. life'[v] = "mounted" /\ query' = query /\ runCount' = runCount
    BY <1>2 DEF componentDidMount, TypeOK
  <2>3. \/ skipped'[v] /\ status'[v] = "none"
        \/ status'[v] = "error" /\ query[v] \in Invalid
        \/ /\ status'[v] = "loaded" /\ data'[v] = query[v] /\ rendered'[v] = query[v]
        \/ status'[v] = "loading" /\ (Running(v)' \/ runCount[v] >= MaxRuns)
    BY <1>2, <2>1, <2>2, LoadShape DEF componentDidMount
  <2> QED
    BY <2>2, <2>3 DEF ViewInv
<1>3. ASSUME NEW k \in Keys \cup Invalid, Rebind(v, k) PROVE ViewInv(v)'
  <2>1. life'[v] = "mounted" /\ query'[v] = k /\ runCount' = runCount
    BY <1>3 DEF Rebind, TypeOK
  <2>2. \/ skipped'[v] /\ status'[v] = "none"
        \/ status'[v] = "error" /\ k \in Invalid
        \/ /\ status'[v] = "loaded" /\ data'[v] = k /\ rendered'[v] = k
        \/ status'[v] = "loading" /\ (Running(v)' \/ runCount[v] >= MaxRuns)
    BY <1>3, <2>1, LoadShape DEF Rebind
  <2> QED
    BY <2>1, <2>2 DEF ViewInv
<1>4. CASE renderChildren(v)
  <2>1. /\ rendered'[v] = data[v] /\ data' = data /\ status' = status /\ query' = query
        /\ UNCHANGED <<life, reloads, skipped, rejected, runCount, inFlight>>
    BY <1>4 DEF renderChildren, TypeOK
  <2> QED
    BY <2>1 DEF ViewInv, Running
<1>5. CASE Reload(v)
  <2>1. /\ query[v] \in Keys \cup Invalid /\ data[v] \in Keys \cup {Null}
        /\ status[v] \in {"none", "loading", "loaded", "error"}
    BY DEF TypeOK
  <2>2. life' = life /\ query' = query /\ runCount' = runCount /\ rejected' = rejected
    BY <1>5 DEF Reload
  <2>3. life'[v] # "gone" =>
          \/ /\ skipped'[v] /\ status'[v] = status[v] /\ data'[v] = data[v]
             /\ rendered'[v] = rendered[v]
          \/ status'[v] = "error" /\ query[v] \in Invalid
          \/ /\ status'[v] = "loaded" /\ data'[v] = query[v]
             /\ rendered'[v] = IF status[v] # "loaded" THEN query[v] ELSE rendered[v]
          \/ status'[v] = "loading" /\ (Running(v)' \/ runCount[v] >= MaxRuns)
    BY <1>5, <2>1, LoadShape DEF Reload
  <2>4. Running(v) => Running(v)'
    <3>1. LoadFrame(v)
      BY <1>5, <2>1, LoadShape DEF Reload
    <3>2. \A k \in Keys : inFlight[v][k] \in Nat
      BY <1>0, ViewAssumption DEF TypeOK
    <3> QED
      BY <1>0, <3>1, <3>2 DEF LoadFrame, Running
  <2> QED
    BY <2>2, <2>3, <2>4 DEF ViewInv
<1>6. CASE componentWillUnmount(v)
  <2>1. life'[v] = "gone"
    BY <1>6 DEF componentWillUnmount, TypeOK
  <2> QED
    BY <2>1 DEF ViewInv
<1>7. ASSUME NEW k \in Keys, NEW outcome \in Outcomes, Answer(v, k, outcome)
      PROVE  ViewInv(v)'
  <2> SUFFICES ASSUME life[v] = "mounted" PROVE ViewInv(v)'
    BY <1>7 DEF Answer, ViewInv
  <2>1. data[v] \in Keys \cup {Null} /\ life' = life /\ query' = query
    BY <1>7 DEF Answer, TypeOK
  <2>2. /\ status'[v] = IF outcome = "reject" THEN "error" ELSE "none"
        /\ data'[v] = data[v] /\ rendered'[v] = rendered[v]
    <3> DEFINE s == IF outcome = "reject" THEN "error" ELSE "none"
    <3>1. s \in {"none", "loading", "loaded", "error"} /\ s # "loaded"
      OBVIOUS
    <3>2. SetState(v, status[v], s, data[v]) /\ life'[v] # "gone"
      BY <1>7, <2>1 DEF Answer
    <3>3. SetTo(v, status[v], s, data[v])
      <4> HIDE DEF s
      <4> QED
        BY <2>1, <3>1, <3>2, SetStateShape, Zenon
    <3> QED
      BY <3>1, <3>2, <3>3 DEF SetTo
  <2>3. CASE outcome = "reject"
    <3>1. rejected'[v]
      BY <1>7, <2>3 DEF Answer, TypeOK
    <3> QED
      BY <2>2, <2>3, <3>1 DEF ViewInv
  <2>4. CASE outcome # "reject"
    <3>1. rejected' = rejected /\ skipped' = skipped
      BY <1>7, <2>4 DEF Answer
    <3>2. CASE status[v] = "loading"
      <4>1. reloads'[v] > 0
        BY <1>7, <2>4, <3>2 DEF Answer, TypeOK
      <4> QED
        BY <2>2, <2>4, <4>1 DEF ViewInv
    <3>3. CASE status[v] # "loading"
      <4>1. reloads' = reloads
        BY <1>7, <2>4, <3>3 DEF Answer
      <4>2. status[v] \in {"none", "loaded", "error"}
        BY <3>3 DEF TypeOK
      <4> QED
        BY <2>1, <2>2, <2>4, <3>1, <4>1, <4>2 DEF ViewInv
    <3> QED
      BY <3>2, <3>3
  <2> QED
    BY <2>3, <2>4
<1>8. ASSUME NEW w \in Views, w # v,
             \/ componentDidMount(w) \/ (\E k \in Keys \cup Invalid : Rebind(w, k))
             \/ renderChildren(w) \/ Reload(w) \/ componentWillUnmount(w) \/ ViewAnswers(w)
      PROVE  ViewInv(v)'
  BY <1>8, OthersSame, SameViewKeeps
<1> QED
  BY <1>1, <1>2, <1>3, <1>4, <1>5, <1>6, <1>7, <1>8 DEF Next, ViewAnswers

(***************************************************************************)
(* The hook                                                                *)
(***************************************************************************)
Shown == [executing : BOOLEAN, current : BOOLEAN, missing : BOOLEAN]

ReportTypes ==
  /\ on \subseteq Reports /\ due \subseteq on /\ failed \subseteq on
  /\ shown \in [Reports -> Shown]
  /\ listening \in [Reports -> Selected \cup {Null}]
  /\ ran \in [Reports -> [executing : BOOLEAN, missing : BOOLEAN] \cup {Null}]
  /\ key \in [Reports -> Keys]
  /\ submits \in 0 .. MaxSubmits /\ tried \subseteq on

LEMMA TypesAre == ReportTypeOK <=> TypeOK /\ ReportTypes
  BY DEF ReportTypeOK, ReportTypes, Shown

LEMMA RenderIs ==
  ASSUME NEW r \in Reports
  PROVE  /\ Render(r) \in Shown
         /\ Render(r).executing = isExecutingQuery
         /\ Render(r).current = TRUE
         /\ Render(r).missing = (key[r] \notin cached)
<1>1. isExecutingQuery \in BOOLEAN
  BY DEF isExecutingQuery
<1>2. (key[r] \notin cached) \in BOOLEAN
  OBVIOUS
<1> QED
  BY <1>1, <1>2 DEF Render, Shown

LEMMA AgedIs ==
  ASSUME NEW sel \in Selected
  PROVE  /\ Aged(sel) \in Selected /\ Aged(sel).executing = sel.executing
         /\ object' = object => Aged(sel) = sel
         /\ object' # object => Aged(sel).current = FALSE
  BY CallersApart DEF Aged, Selected

LEMMA AgedShown ==
  ASSUME NEW sel \in Shown
  PROVE  /\ Aged(sel) \in Shown
         /\ Aged(sel).executing = sel.executing /\ Aged(sel).missing = sel.missing
         /\ object' = object => Aged(sel) = sel
  BY DEF Aged, Shown

LEMMA AgedNull == Aged(Null) = Null
  BY DEF Aged

LEMMA RenderIsNext ==
  ASSUME NEW r \in Reports
  PROVE  /\ Render(r)' \in Shown
         /\ Render(r)'.executing = isExecutingQuery'
         /\ Render(r)'.current = TRUE
         /\ Render(r)'.missing = (key'[r] \notin cached')
<1>1. isExecutingQuery' \in BOOLEAN
  BY DEF isExecutingQuery
<1>2. (key'[r] \notin cached') \in BOOLEAN
  OBVIOUS
<1> QED
  BY <1>1, <1>2 DEF Render, Shown

\* A change of the store makes those render that are told of it or render anyway;
\* the selection of the others is what the store has.
LEMMA NotifyShape ==
  ASSUME ReportTypes, NEW again \in SUBSET on, Notify(listening, again)
  PROVE  /\ shown' \in [Reports -> Shown]
         /\ listening' \in [Reports -> Selected \cup {Null}]
         /\ due \subseteq due' /\ due' \subseteq on
         /\ \A r \in Reports :
              \/ r \in due' /\ shown'[r] = Render(r)'
              \/ /\ r \notin again
                 /\ shown'[r] = Aged(shown[r]) /\ listening'[r] = Aged(listening[r])
                 /\ r \in on /\ listening[r] # Null =>
                      Aged(listening[r]) = [executing |-> isExecutingQuery', current |-> TRUE]
<1> DEFINE rendering == Notified(listening) \cup again
<1>1. rendering \subseteq on
  BY DEF Notified
<1>2. due' = due \cup rendering
  BY DEF Notify
<1>3. \A r \in Reports :
        /\ shown'[r] = IF r \in rendering THEN Render(r)' ELSE Aged(shown[r])
        /\ listening'[r] = Aged(listening[r])
  BY DEF Notify
<1>4. shown' \in [Reports -> Shown]
  <2>1. \A r \in Reports : Render(r)' \in Shown /\ Aged(shown[r]) \in Shown
    BY RenderIsNext, AgedShown DEF ReportTypes
  <2>2. shown' = [r \in Reports |-> IF r \in rendering THEN Render(r)' ELSE Aged(shown[r])]
    BY DEF Notify
  <2> HIDE DEF rendering
  <2> QED
    BY <2>1, <2>2
<1>5. listening' \in [Reports -> Selected \cup {Null}]
  <2>1. \A r \in Reports : Aged(listening[r]) \in Selected \cup {Null}
    BY AgedIs, AgedNull DEF ReportTypes
  <2>2. listening' = [r \in Reports |-> Aged(listening[r])]
    BY DEF Notify
  <2> QED
    BY <2>1, <2>2
<1>6. ASSUME NEW r \in Reports, r \notin rendering
      PROVE  /\ r \notin again
             /\ r \in on /\ listening[r] # Null =>
                  Aged(listening[r]) = [executing |-> isExecutingQuery', current |-> TRUE]
  BY <1>6 DEF Notified
<1> HIDE DEF rendering
<1> QED
  BY <1>1, <1>2, <1>3, <1>4, <1>5, <1>6 DEF ReportTypes

(***************************************************************************)
(* What a report has rendered                                              *)
(***************************************************************************)
\* Only a mounted report executes.
MountInv(r) == \A how \in Hows, k \in Keys : inFlight[Caller(r, how)][k] > 0 => r \in on

\* A report knows of the automatic execution it has under way.
AutoInv(r) ==
  /\ inFlight[Caller(r, "auto")][Home[r]] <= 1
  /\ inFlight[Caller(r, "auto")][Home[r]] > 0 => shown[r].executing = TRUE

\* The results it shows are those of the store, and it takes nothing for being
\* executed when nothing is.
FollowInv(r) ==
  r \in on =>
    /\ shown[r].current = TRUE
    /\ shown[r].missing = (key[r] \notin cached)
    /\ shown[r].executing = TRUE => isExecutingQuery
    /\ r \notin due => /\ listening[r] # Null
                      /\ listening[r].executing = shown[r].executing

ReportInv(r) == MountInv(r) /\ AutoInv(r) /\ FollowInv(r)

\* A change of the store is noticed: before it no effects are due, or it leaves the
\* results alone and ends no execution.
LEMMA FollowStep ==
  ASSUME ReportTypes, NEW again \in SUBSET on, Notify(listening, again),
         on' = on, NEW r \in Reports, FollowInv(r),
         \/ due = {}
         \/ object' = object /\ (isExecutingQuery => isExecutingQuery'),
         object' = object => cached' = cached,
         key'[r] = key[r] \/ r \in again
  PROVE  FollowInv(r)'
<1> SUFFICES ASSUME r \in on PROVE FollowInv(r)'
  BY DEF FollowInv
<1>1. CASE r \in due' /\ shown'[r] = Render(r)'
  BY <1>1, RenderIsNext DEF FollowInv
<1>2. CASE ~(r \in due' /\ shown'[r] = Render(r)')
  <2>1. /\ due \subseteq due'
        /\ r \notin again
        /\ shown'[r] = Aged(shown[r]) /\ listening'[r] = Aged(listening[r])
        /\ r \in on /\ listening[r] # Null =>
             Aged(listening[r]) = [executing |-> isExecutingQuery', current |-> TRUE]
    BY <1>2, NotifyShape
  <2>2. shown[r] \in Shown /\ listening[r] \in Selected \cup {Null}
    BY DEF ReportTypes
  <2>3. CASE r \in due
    <3>1. object' = object /\ (isExecutingQuery => isExecutingQuery')
      BY <2>3
    <3>2. shown'[r] = shown[r] /\ key'[r] = key[r] /\ cached' = cached /\ r \in due'
      BY <2>1, <2>2, <2>3, <3>1, AgedShown
    <3> QED
      BY <3>1, <3>2 DEF FollowInv
  <2>4. CASE r \notin due
    <3>1. listening[r] # Null /\ listening[r].executing = shown[r].executing
      BY <2>4 DEF FollowInv
    <3>2. listening[r] \in Selected
      BY <2>2, <3>1
    <3>3. Aged(listening[r]).executing = isExecutingQuery' /\ Aged(listening[r]).current = TRUE
      BY <2>1, <3>1
    <3>4. object' = object
      BY <3>2, <3>3, AgedIs
    <3>5. /\ shown'[r] = shown[r] /\ listening'[r] = listening[r]
          /\ key'[r] = key[r] /\ cached' = cached
      BY <2>1, <2>2, <3>2, <3>4, AgedShown, AgedIs
    <3>6. isExecutingQuery' = shown[r].executing
      BY <3>1, <3>2, <3>3, AgedIs
    <3> QED
      BY <3>1, <3>5, <3>6 DEF FollowInv
  <2> QED
    BY <2>3, <2>4
<1> QED
  BY <1>1, <1>2

LEMMA Counting ==
  ASSUME TypeOK, NEW c \in Callers, NEW k \in Keys
  PROVE  inFlight[c][k] \in Nat /\ (inFlight[c][k] > 0 => isExecutingQuery)
  BY ViewAssumption DEF TypeOK, isExecutingQuery

LEMMA CountingNext ==
  ASSUME TypeOK', NEW c \in Callers, NEW k \in Keys
  PROVE  inFlight'[c][k] \in Nat /\ (inFlight'[c][k] > 0 => isExecutingQuery')
  BY ViewAssumption DEF TypeOK, isExecutingQuery

\* What the report renders while its execution is under way says so.
LEMMA AutoStep ==
  ASSUME TypeOK, TypeOK', ReportTypes, NEW again \in SUBSET on, Notify(listening, again),
         NEW r \in Reports, AutoInv(r),
         inFlight'[Caller(r, "auto")][Home[r]] <= inFlight[Caller(r, "auto")][Home[r]]
  PROVE  AutoInv(r)'
<1> DEFINE c == Caller(r, "auto")
<1>1. c \in Callers /\ Home[r] \in Keys
  BY CallersApart, ReportAssumption DEF Hows
<1>2. inFlight[c][Home[r]] \in Nat /\ inFlight'[c][Home[r]] \in Nat
  BY <1>1, Counting, CountingNext
<1>3. inFlight'[c][Home[r]] <= 1
  BY <1>2 DEF AutoInv
<1>4. ASSUME inFlight'[c][Home[r]] > 0 PROVE shown'[r].executing = TRUE
  <2>1. isExecutingQuery'
    BY <1>1, <1>4, CountingNext
  <2>2. shown[r].executing = TRUE
    BY <1>2, <1>4 DEF AutoInv
  <2>3. shown[r] \in Shown
    BY DEF ReportTypes
  <2>4. shown'[r] = Render(r)' \/ shown'[r] = Aged(shown[r])
    BY NotifyShape
  <2> QED
    BY <2>1, <2>2, <2>3, <2>4, RenderIsNext, AgedShown
<1> QED
  BY <1>3, <1>4 DEF AutoInv

\* What a step of a component means to the reports.
LEMMA ComponentStep ==
  ASSUME TypeOK, Next
  PROVE  /\ \A r \in Reports, how \in Hows, k \in Keys :
              inFlight'[Caller(r, how)][k] = inFlight[Caller(r, how)][k]
         /\ object' = object => cached' = cached
         /\ life' # life => object' = object /\ (isExecutingQuery => isExecutingQuery')
<1> DEFINE Goal ==
      /\ \A r \in Reports, how \in Hows, k \in Keys :
           inFlight'[Caller(r, how)][k] = inFlight[Caller(r, how)][k]
      /\ object' = object => cached' = cached
      /\ life' # life => object' = object /\ (isExecutingQuery => isExecutingQuery')
<1> SUFFICES Goal
  OBVIOUS
<1>0. ASSUME NEW v \in Views
      PROVE  v \in Callers /\ \A r \in Reports, how \in Hows : Caller(r, how) \in Callers \ {v}
  BY CallersApart
<1>1. ASSUME NEW v \in Views, LoadFrame(v), UNCHANGED slice PROVE Goal
  <2>1. \A r \in Reports, how \in Hows, k \in Keys :
          inFlight'[Caller(r, how)][k] = inFlight[Caller(r, how)][k]
    BY <1>0, <1>1 DEF LoadFrame
  <2>2. isExecutingQuery => isExecutingQuery'
    <3>1. \A c \in Callers, k \in Keys :
            inFlight[c][k] \in Nat
            /\ (inFlight'[c][k] = inFlight[c][k] \/ inFlight'[c][k] = inFlight[c][k] + 1)
      BY <1>1, Counting DEF LoadFrame
    <3> QED
      BY <3>1 DEF isExecutingQuery
  <2> QED
    BY <1>1, <2>1, <2>2 DEF slice
<1>2. ASSUME ListLoads \/ ListPending PROVE Goal
  BY <1>2 DEF ListLoads, ListPending, slice, isExecutingQuery
<1>3. ASSUME NEW v \in Views, componentDidMount(v) PROVE Goal
  <2>1. LoadFrame(v)
    BY <1>3, LoadShape DEF componentDidMount, TypeOK
  <2> QED
    BY <1>1, <1>3, <2>1 DEF componentDidMount
<1>4. ASSUME NEW v \in Views, NEW k \in Keys \cup Invalid, Rebind(v, k) PROVE Goal
  <2>1. LoadFrame(v)
    BY <1>4, LoadShape DEF Rebind
  <2> QED
    BY <1>1, <1>4, <2>1 DEF Rebind
<1>5. ASSUME NEW v \in Views, renderChildren(v) PROVE Goal
  BY <1>5 DEF renderChildren, slice
<1>6. ASSUME NEW v \in Views, Reload(v) PROVE Goal
  <2>1. LoadFrame(v)
    BY <1>6, LoadShape DEF Reload, TypeOK
  <2> QED
    BY <1>1, <1>6, <2>1 DEF Reload
<1>7. ASSUME NEW v \in Views, componentWillUnmount(v) PROVE Goal
  BY <1>7 DEF componentWillUnmount, slice, isExecutingQuery
<1>8. ASSUME NEW v \in Views, NEW k \in Keys, NEW outcome \in Outcomes,
             Answer(v, k, outcome)
      PROVE  Goal
  <2>1. \A r \in Reports, how \in Hows, l \in Keys :
          inFlight'[Caller(r, how)][l] = inFlight[Caller(r, how)][l]
    BY <1>0, <1>8, AnsweredShape DEF Answer
  <2>2. object' = object => cached' = cached
    BY <1>8 DEF Answer, Answered, slice, TypeOK
  <2>3. life' = life
    BY <1>8 DEF Answer
  <2> QED
    BY <2>1, <2>2, <2>3
<1> HIDE DEF Goal
<1> QED
  BY <1>2, <1>3, <1>4, <1>5, <1>6, <1>7, <1>8 DEF Next, ViewAnswers

(***************************************************************************)
(* The steps of ReportView                                                 *)
(***************************************************************************)
RInv == TypeOK /\ ReportTypes /\ \A r \in Reports : ReportInv(r)

LEMMA ViewsKeep ==
  ASSUME TypeOK, NEW v \in Views,
         UNCHANGED <<life, query, display, runCount, reloads, skipped, rejected>>,
         \/ inFlight' = inFlight
         \/ \E c \in Callers \ Views, k \in Keys : executeQuery(c, k)
         \/ \E c \in Callers \ Views, k \in Keys, outcome \in Outcomes :
               Answered(c, k, outcome)
  PROVE  SameView(v)
<1>1. v \in Callers
  BY CallersApart
<1>2. \A k \in Keys : inFlight'[v][k] = inFlight[v][k]
  BY <1>1, ExecuteShape, AnsweredShape
<1> QED
  BY <1>2 DEF SameView, display

LEMMA ComponentSteps ==
  ASSUME RInv, ViewStep
  PROVE  RInv'
<1>1. TypeOK /\ ReportTypes /\ TypeOK'
  BY ComponentTypes DEF RInv, ViewStep
<1>2. UNCHANGED <<on, ran, key, failed, submits, tried>>
  BY DEF ViewStep, ReportsNotice
<1>3. \A r \in Reports, how \in Hows, k \in Keys :
        inFlight'[Caller(r, how)][k] = inFlight[Caller(r, how)][k]
  BY <1>1, ComponentStep DEF ViewStep
<1>4. \A r \in Reports : MountInv(r)'
  BY <1>2, <1>3 DEF RInv, ReportInv, MountInv
<1>5. CASE UNCHANGED <<slice, inFlight>> /\ UNCHANGED <<shown, listening, due>>
  <2>1. ReportTypes'
    BY <1>1, <1>2, <1>5 DEF ReportTypes
  <2>2. \A r \in Reports : AutoInv(r)' /\ FollowInv(r)'
    BY <1>2, <1>5 DEF RInv, ReportInv, AutoInv, FollowInv, isExecutingQuery, slice
  <2> QED
    BY <1>1, <1>4, <2>1, <2>2 DEF RInv, ReportInv
<1>6. CASE StoreChanges({})
  <2>1. Notify(listening, {})
    BY <1>6 DEF StoreChanges
  <2>2. ReportTypes'
    BY <1>1, <1>2, <2>1, NotifyShape DEF ReportTypes
  <2>3. \/ due = {}
        \/ object' = object /\ (isExecutingQuery => isExecutingQuery')
    BY <1>1, <1>6, ComponentStep DEF StoreChanges, ViewStep, ReportsNotice
  <2>4. object' = object => cached' = cached
    BY <1>1, ComponentStep DEF ViewStep
  <2>5. ASSUME NEW r \in Reports PROVE FollowInv(r)'
    BY <1>1, <1>2, <2>1, <2>3, <2>4, FollowStep DEF RInv, ReportInv
  <2>6. ASSUME NEW r \in Reports PROVE AutoInv(r)'
    <3>1. /\ inFlight'[Caller(r, "auto")][Home[r]] = inFlight[Caller(r, "auto")][Home[r]]
          /\ inFlight[Caller(r, "auto")][Home[r]] \in Nat
      BY <1>1, <1>3, Counting, CallersApart, ReportAssumption DEF Hows
    <3> QED
      BY <1>1, <2>1, <3>1, AutoStep DEF RInv, ReportInv
  <2> QED
    BY <1>1, <1>4, <2>2, <2>5, <2>6 DEF RInv, ReportInv
<1> QED
  BY <1>5, <1>6 DEF ViewStep, ReportsNotice

LEMMA MountSteps ==
  ASSUME RInv, NEW r \in Reports, MountReport(r)
  PROVE  RInv'
<1> USE DEF MountReport
<1>1. TypeOK /\ ReportTypes
  BY DEF RInv
<1>2. TypeOK'
  <2>1. UNCHANGED vars
    OBVIOUS
  <2> QED
    BY ONLY <1>1, <2>1 DEF TypeOK, vars, slice, display
<1>3. shown' = [shown EXCEPT ![r] = Render(r)] /\ on' = on \cup {r} /\ due' = due \cup {r}
  OBVIOUS
<1>4. ReportTypes'
  <2>1. shown' \in [Reports -> Shown]
    <3>1. Render(r) \in Shown
      BY RenderIs
    <3>2. shown \in [Reports -> Shown]
      BY <1>1 DEF ReportTypes
    <3> QED
      BY ONLY <1>3, <3>1, <3>2
  <2> QED
    BY <1>1, <1>3, <2>1 DEF ReportTypes
<1>5. \A q \in Reports : MountInv(q)'
  BY <1>3 DEF RInv, ReportInv, MountInv, vars
<1>6. ASSUME NEW q \in Reports PROVE AutoInv(q)'
  <2>1. CASE q # r
    BY <1>1, <1>3, <2>1 DEF RInv, ReportInv, AutoInv, ReportTypes, vars
  <2>2. CASE q = r
    <3>1. ~(inFlight[Caller(r, "auto")][Home[r]] > 0)
      BY ReportAssumption DEF RInv, ReportInv, MountInv, Hows
    <3> QED
      BY <2>2, <3>1 DEF RInv, ReportInv, AutoInv, vars
  <2> QED
    BY <2>1, <2>2
<1>7. ASSUME NEW q \in Reports PROVE FollowInv(q)'
  <2>1. UNCHANGED <<key, cached, inFlight, listening>>
    BY DEF vars, slice
  <2>2. CASE q # r
    <3>1. shown'[q] = shown[q] /\ (q \in on' <=> q \in on) /\ (q \in due' <=> q \in due)
      BY <1>1, <1>3, <2>2 DEF ReportTypes
    <3> QED
      BY <2>1, <3>1 DEF RInv, ReportInv, FollowInv, isExecutingQuery
  <2>3. CASE q = r
    <3>1. shown'[r] = Render(r) /\ r \in due'
      BY <1>1, <1>3 DEF ReportTypes
    <3> QED
      BY <2>1, <2>3, <3>1, RenderIs DEF FollowInv, isExecutingQuery
  <2> QED
    BY <2>2, <2>3
<1> QED
  BY <1>2, <1>4, <1>5, <1>6, <1>7 DEF RInv, ReportInv

\* The form executes for the key it sets; the report renders with it.
LEMMA FormSteps ==
  ASSUME RInv, NEW r \in Reports, NEW k \in Keys, handleQueryFormSubmit(r, k)
  PROVE  RInv'
<1> USE DEF handleQueryFormSubmit
<1>1. TypeOK /\ ReportTypes /\ r \in on
  BY DEF RInv
<1>2. Caller(r, "form") \in Callers \ Views
  BY CallersApart DEF Hows
<1>3. /\ inFlight' \in [Callers -> [Keys -> 0 .. MaxInFlight]]
      /\ inFlight'[Caller(r, "form")][k] = inFlight[Caller(r, "form")][k] + 1
      /\ \A d \in Callers, l \in Keys :
           d # Caller(r, "form") \/ l # k => inFlight'[d][l] = inFlight[d][l]
  BY <1>1, <1>2, ExecuteShape
<1>4. TypeOK'
  BY <1>1, <1>3 DEF TypeOK, slice, display
<1>5. Notify(listening, {r})
  BY DEF StoreChanges
<1>6. key' \in [Reports -> Keys] /\ submits' \in 0 .. MaxSubmits
  BY <1>1, ReportAssumption DEF ReportTypes
<1>7. ReportTypes'
  <2>1. /\ shown' \in [Reports -> Shown]
        /\ listening' \in [Reports -> Selected \cup {Null}]
        /\ due' \subseteq on
    BY <1>1, <1>5, NotifyShape
  <2> QED
    BY <1>1, <1>6, <2>1 DEF ReportTypes
<1>8. ASSUME NEW q \in Reports PROVE MountInv(q)'
  <2>1. CASE q = r
    BY <1>1, <2>1 DEF MountInv
  <2>2. CASE q # r
    <3>1. \A how \in Hows, l \in Keys :
            inFlight'[Caller(q, how)][l] = inFlight[Caller(q, how)][l]
      BY <1>3, <2>2, CallersApart DEF Hows
    <3> QED
      BY <3>1 DEF RInv, ReportInv, MountInv
  <2> QED
    BY <2>1, <2>2
<1>9. ASSUME NEW q \in Reports PROVE AutoInv(q)'
  <2>1. /\ Caller(q, "auto") \in Callers /\ Home[q] \in Keys
        /\ Caller(q, "auto") # Caller(r, "form")
    BY CallersApart, ReportAssumption DEF Hows
  <2>2. /\ inFlight'[Caller(q, "auto")][Home[q]] = inFlight[Caller(q, "auto")][Home[q]]
        /\ inFlight[Caller(q, "auto")][Home[q]] \in Nat
    BY <1>1, <1>3, <2>1, Counting
  <2>3. {r} \in SUBSET on
    BY <1>1
  <2> QED
    BY <1>1, <1>4, <1>5, <2>2, <2>3, AutoStep DEF RInv, ReportInv
<1>10. ASSUME NEW q \in Reports PROVE FollowInv(q)'
  <2>1. inFlight[Caller(r, "form")][k] \in Nat
    BY <1>1, <1>2, Counting
  <2>2. isExecutingQuery'
    BY <1>2, <1>3, <2>1 DEF isExecutingQuery
  <2>3. object' = object /\ cached' = cached /\ on' = on
    BY DEF slice
  <2>4. key'[q] = key[q] \/ q \in {r}
    BY <1>1 DEF ReportTypes
  <2>5. {r} \in SUBSET on
    BY <1>1
  <2> QED
    BY <1>1, <1>5, <2>2, <2>3, <2>4, <2>5, FollowStep DEF RInv, ReportInv
<1> QED
  BY <1>4, <1>7, <1>8, <1>9, <1>10 DEF RInv, ReportInv

LEMMA AnswerSteps ==
  ASSUME RInv, NEW r \in Reports, ReportAnswers(r)
  PROVE  RInv'
<1>1. PICK how \in Hows, k \in Keys, outcome \in Outcomes :
        AnswerReport(r, how, k, outcome)
  BY DEF ReportAnswers, Hows
<1> DEFINE c == Caller(r, how)
           stops == how = "auto" /\ outcome = "reject"
           again == IF stops THEN {r} ELSE {}
<1>2. TypeOK /\ ReportTypes /\ c \in Callers \ Views
  BY CallersApart DEF RInv
<1>3. /\ Answered(c, k, outcome)
      /\ failed' = IF stops THEN failed \cup {r} ELSE failed
      /\ UNCHANGED <<life, query, display, runCount, reloads, rebinds, skipped,
                     rejected, on, ran, key, submits, tried>>
      /\ StoreChanges(again)
  BY <1>1 DEF AnswerReport
<1>4. /\ inFlight' \in [Callers -> [Keys -> 0 .. MaxInFlight]]
      /\ inFlight[c][k] > 0
      /\ inFlight'[c][k] = inFlight[c][k] - 1
      /\ \A d \in Callers, l \in Keys :
           d # c \/ l # k => inFlight'[d][l] = inFlight[d][l]
      /\ cached' \subseteq Keys /\ object' \in {0, 1} /\ listed' \in BOOLEAN
  BY <1>2, <1>3, AnsweredShape
<1>5. r \in on
  BY <1>2, <1>4 DEF RInv, ReportInv, MountInv
<1>6. again \in SUBSET on
  BY <1>5
<1>7. Notify(listening, again) /\ due = {}
  BY <1>3 DEF StoreChanges
<1> HIDE DEF again
<1>8. TypeOK'
  BY <1>2, <1>3, <1>4 DEF TypeOK, display
<1>9. ReportTypes'
  <2>1. /\ shown' \in [Reports -> Shown]
        /\ listening' \in [Reports -> Selected \cup {Null}]
        /\ due' \subseteq on
    BY <1>2, <1>6, <1>7, NotifyShape
  <2> QED
    BY <1>2, <1>3, <1>5, <2>1 DEF ReportTypes
<1>10. \A d \in Callers, l \in Keys :
         inFlight[d][l] \in Nat /\ inFlight'[d][l] \in Nat
         /\ inFlight'[d][l] <= inFlight[d][l]
  <2>1. \A d \in Callers, l \in Keys : inFlight[d][l] \in Nat /\ inFlight'[d][l] \in Nat
    BY <1>2, <1>8, Counting, CountingNext
  <2> QED
    BY <1>2, <1>4, <2>1
<1>11. ASSUME NEW q \in Reports PROVE MountInv(q)'
  <2>1. \A why \in Hows : Caller(q, why) \in Callers
    BY CallersApart
  <2>2. \A why \in Hows, l \in Keys :
          inFlight'[Caller(q, why)][l] > 0 => inFlight[Caller(q, why)][l] > 0
    BY <1>10, <2>1
  <2> QED
    BY <1>3, <2>2 DEF RInv, ReportInv, MountInv
<1>12. ASSUME NEW q \in Reports PROVE AutoInv(q)'
  <2>1. Caller(q, "auto") \in Callers /\ Home[q] \in Keys
    BY CallersApart, ReportAssumption DEF Hows
  <2>2. inFlight'[Caller(q, "auto")][Home[q]] <= inFlight[Caller(q, "auto")][Home[q]]
    BY <1>10, <2>1
  <2> QED
    BY <1>2, <1>6, <1>7, <1>8, <2>2, AutoStep DEF RInv, ReportInv
<1>13. ASSUME NEW q \in Reports PROVE FollowInv(q)'
  <2>1. object' = object => cached' = cached
    BY <1>2, <1>3 DEF Answered, slice, TypeOK
  <2> QED
    BY <1>2, <1>3, <1>6, <1>7, <2>1, FollowStep DEF RInv, ReportInv
<1> QED
  BY <1>8, <1>9, <1>11, <1>12, <1>13 DEF RInv, ReportInv

\* The effects of a report subscribe it with what it rendered; if it executes, that
\* is not what the store has any more, and it renders again.
LEMMA EffectsSteps ==
  ASSUME RInv, NEW r \in Reports, RunEffects(r)
  PROVE  RInv'
<1> DEFINE subscribed == [q \in Reports |->
                            IF q = r THEN [executing |-> shown[r].executing,
                                           current |-> shown[r].current]
                            ELSE IF q \in due THEN Null ELSE listening[q]]
           rendering == Notified(subscribed)
           c == Caller(r, "auto")
<1>1. TypeOK /\ ReportTypes /\ c \in Callers \ Views /\ Home[r] \in Keys
  BY CallersApart, ReportAssumption DEF RInv, Hows
<1>2. /\ r \in due /\ r \in on /\ listening' = subscribed
      /\ ran' = [ran EXCEPT ![r] = Dependencies(r)]
      /\ UNCHANGED <<slice, listed, life, query, display, runCount, reloads, rebinds,
                     skipped, rejected, on, key, failed, submits>>
  BY <1>1 DEF RunEffects, ReportTypes
<1>3. shown[r] \in Shown /\ Null \notin Selected
  BY <1>1, CallersApart DEF ReportTypes
<1>4. subscribed \in [Reports -> Selected \cup {Null}]
  <2>1. [executing |-> shown[r].executing, current |-> shown[r].current] \in Selected
    BY <1>3 DEF Shown, Selected
  <2> QED
    BY <1>1, <2>1 DEF ReportTypes
<1>5. ran' \in [Reports -> [executing : BOOLEAN, missing : BOOLEAN] \cup {Null}]
  <2>1. Dependencies(r) \in [executing : BOOLEAN, missing : BOOLEAN]
    BY <1>3 DEF Dependencies, Shown
  <2> QED
    BY <1>1, <1>2, <2>1 DEF ReportTypes
<1>6. /\ subscribed[r] # Null /\ subscribed[r].executing = shown[r].executing
      /\ \A q \in Reports \ {r} : q \notin due => subscribed[q] = listening[q]
  <2>1. subscribed[r] \in Selected
    BY <1>3 DEF Shown, Selected
  <2> QED
    BY <1>3, <2>1
<1>7. CASE Executes(r)
  <2>1. /\ executeQuery(c, Home[r])
        /\ tried' = tried \cup {r}
        /\ shown' = [q \in Reports |-> IF q \in rendering THEN Render(q)' ELSE shown[q]]
        /\ due' = (due \ {r}) \cup rendering
    BY <1>7 DEF RunEffects
  <2>2. /\ inFlight' \in [Callers -> [Keys -> 0 .. MaxInFlight]]
        /\ inFlight'[c][Home[r]] = inFlight[c][Home[r]] + 1
        /\ \A d \in Callers, l \in Keys :
             d # c \/ l # Home[r] => inFlight'[d][l] = inFlight[d][l]
    BY <1>1, <2>1, ExecuteShape
  <2>3. isExecutingQuery'
    <3>1. inFlight[c][Home[r]] \in Nat
      BY <1>1, Counting
    <3> QED
      BY <1>1, <2>2, <3>1 DEF isExecutingQuery
  <2>4. TypeOK'
    BY <1>1, <1>2, <2>2 DEF TypeOK, slice, display
  <2>5. object' = object /\ cached' = cached /\ rendering \subseteq on
    BY <1>2 DEF slice, Notified
  <2>6. r \in rendering /\ shown[r].executing = FALSE
    <3>1. shown[r].executing = FALSE
      BY <1>3, <1>7 DEF Executes, Shown
    <3>2. Aged(subscribed[r]) = subscribed[r]
      BY <2>5 DEF Aged
    <3>3. Aged(subscribed[r]) # [executing |-> isExecutingQuery', current |-> TRUE]
      BY <1>6, <2>3, <3>1, <3>2
    <3> QED
      BY <1>2, <1>6, <3>1, <3>3 DEF Notified
  <2> HIDE DEF rendering, subscribed
  <2>7. \A q \in Reports : shown'[q] = IF q \in rendering THEN Render(q)' ELSE shown[q]
    BY <2>1
  <2>8. ReportTypes'
    <3>1. \A q \in Reports : Render(q)' \in Shown /\ shown[q] \in Shown
      BY <1>1, RenderIsNext DEF ReportTypes
    <3>2. shown' \in [Reports -> Shown]
      BY <2>1, <3>1
    <3> QED
      BY <1>1, <1>2, <1>4, <1>5, <2>1, <2>5, <3>2 DEF ReportTypes
  <2>9. ASSUME NEW q \in Reports PROVE MountInv(q)'
    <3>1. CASE q = r
      BY <1>2, <3>1 DEF MountInv
    <3>2. CASE q # r
      <4>1. \A how \in Hows, l \in Keys :
              inFlight'[Caller(q, how)][l] = inFlight[Caller(q, how)][l]
        BY <2>2, <3>2, CallersApart DEF Hows
      <4> QED
        BY <1>2, <4>1 DEF RInv, ReportInv, MountInv
    <3> QED
      BY <3>1, <3>2
  <2>10. ASSUME NEW q \in Reports PROVE AutoInv(q)'
    <3>1. CASE q = r
      <4>1. inFlight[c][Home[r]] = 0
        <5>1. inFlight[c][Home[r]] \in Nat
          BY <1>1, Counting
        <5>2. ~(inFlight[c][Home[r]] > 0)
          BY <2>6 DEF RInv, ReportInv, AutoInv
        <5> QED
          BY <5>1, <5>2
      <4>2. shown'[r].executing = TRUE
        BY <2>3, <2>6, <2>7, RenderIsNext
      <4> QED
        BY <2>2, <3>1, <4>1, <4>2 DEF AutoInv
    <3>2. CASE q # r
      <4>1. /\ Caller(q, "auto") \in Callers /\ Home[q] \in Keys
            /\ Caller(q, "auto") # c
        BY <3>2, CallersApart, ReportAssumption DEF Hows
      <4>2. inFlight'[Caller(q, "auto")][Home[q]] = inFlight[Caller(q, "auto")][Home[q]]
        BY <2>2, <4>1
      <4>3. shown'[q].executing = TRUE \/ shown'[q] = shown[q]
        BY <2>3, <2>7, RenderIsNext
      <4> QED
        BY <4>2, <4>3 DEF RInv, ReportInv, AutoInv
    <3> QED
      BY <3>1, <3>2
  <2>11. ASSUME NEW q \in Reports PROVE FollowInv(q)'
    <3>1. CASE q \in rendering
      <4>1. shown'[q] = Render(q)' /\ q \in due'
        BY <2>1, <2>7, <3>1
      <4> QED
        BY <4>1, RenderIsNext DEF FollowInv
    <3>2. CASE q \notin rendering
      <4>1. shown'[q] = shown[q] /\ q # r /\ (q \in due => q \in due')
        BY <2>1, <2>6, <2>7, <3>2
      <4>2. q \notin due => listening'[q] = listening[q]
        BY <1>2, <1>6, <4>1
      <4> QED
        BY <1>2, <2>3, <2>5, <4>1, <4>2 DEF RInv, ReportInv, FollowInv
    <3> QED
      BY <3>1, <3>2
  <2> QED
    BY <2>4, <2>8, <2>9, <2>10, <2>11 DEF RInv, ReportInv
<1>8. CASE ~Executes(r)
  <2>1. due' = due \ {r} /\ UNCHANGED <<inFlight, tried, shown>>
    BY <1>8 DEF RunEffects
  <2> HIDE DEF subscribed
  <2>2. TypeOK'
    BY <1>1, <1>2, <2>1 DEF TypeOK, slice, display
  <2>3. ReportTypes'
    BY <1>1, <1>2, <1>4, <1>5, <2>1 DEF ReportTypes
  <2>4. ASSUME NEW q \in Reports PROVE MountInv(q)' /\ AutoInv(q)'
    BY <1>2, <2>1 DEF RInv, ReportInv, MountInv, AutoInv
  <2>5. ASSUME NEW q \in Reports PROVE FollowInv(q)'
    <3>1. CASE q = r
      BY <1>2, <1>6, <2>1, <3>1 DEF RInv, ReportInv, FollowInv, isExecutingQuery, slice
    <3>2. CASE q # r
      <4>1. q \notin due' => q \notin due /\ listening'[q] = listening[q]
        BY <1>2, <1>6, <2>1, <3>2
      <4> QED
        BY <1>2, <2>1, <4>1 DEF RInv, ReportInv, FollowInv, isExecutingQuery, slice
    <3> QED
      BY <3>1, <3>2
  <2> QED
    BY <2>2, <2>3, <2>4, <2>5 DEF RInv, ReportInv
<1> QED
  BY <1>7, <1>8

(***************************************************************************)
(* Theorems                                                                *)
(***************************************************************************)
IInv == RInv /\ \A v \in Views : ViewInv(v)

LEMMA StartsSo == ReportInit => IInv
<1> SUFFICES ASSUME ReportInit PROVE IInv
  OBVIOUS
<1> USE DEF ReportInit, Init
<1>1. TypeOK
  <2>1. 0 \in 0 .. MaxInFlight /\ 0 \in 0 .. MaxRebinds /\ 0 \in Nat
    BY ViewAssumption
  <2>2. inFlight \in [Callers -> [Keys -> 0 .. MaxInFlight]]
    BY <2>1
  <2> QED
    BY <2>1, <2>2 DEF TypeOK
<1>2. ReportTypes
  BY ReportAssumption DEF ReportTypes, Shown
<1>3. ASSUME NEW r \in Reports PROVE ReportInv(r)
  <2>1. \A how \in Hows, k \in Keys : inFlight[Caller(r, how)][k] = 0
    BY CallersApart
  <2>2. inFlight[Caller(r, "auto")][Home[r]] = 0
    BY <2>1, ReportAssumption DEF Hows
  <2>3. MountInv(r)
    BY <2>1 DEF MountInv
  <2>4. AutoInv(r)
    BY <2>2 DEF AutoInv
  <2>5. FollowInv(r)
    BY DEF FollowInv
  <2> QED
    BY <2>3, <2>4, <2>5, Zenon DEF ReportInv
<1>4. ASSUME NEW v \in Views PROVE ViewInv(v)
  BY DEF ViewInv
<1> QED
  BY <1>1, <1>2, <1>3, <1>4 DEF IInv, RInv

LEMMA KeepsSo == IInv /\ [ReportNext]_allVars => IInv'
<1> SUFFICES ASSUME IInv, [ReportNext]_allVars PROVE IInv'
  OBVIOUS
<1>1. CASE ViewStep
  <2>1. RInv'
    BY <1>1, ComponentSteps DEF IInv
  <2>2. \A v \in Views : ViewInv(v)'
    BY <1>1, ShownStep DEF IInv, RInv, ViewStep
  <2> QED
    BY <2>1, <2>2 DEF IInv
<1>2. ASSUME NEW r \in Reports, MountReport(r) PROVE IInv'
  <2>1. \A v \in Views : SameView(v)
    BY <1>2 DEF MountReport, SameView, vars, display
  <2> QED
    BY <1>2, <2>1, MountSteps, SameViewKeeps DEF IInv
<1>3. ASSUME NEW r \in Reports, NEW k \in Keys, handleQueryFormSubmit(r, k) PROVE IInv'
  <2>1. Caller(r, "form") \in Callers \ Views
    BY CallersApart DEF Hows
  <2>2. \A v \in Views : SameView(v)
    BY <1>3, <2>1, ViewsKeep DEF handleQueryFormSubmit, IInv, RInv
  <2> QED
    BY <1>3, <2>2, FormSteps, SameViewKeeps DEF IInv
<1>4. ASSUME NEW r \in Reports, RunEffects(r) PROVE IInv'
  <2>1. Caller(r, "auto") \in Callers \ Views /\ Home[r] \in Keys
    BY CallersApart, ReportAssumption DEF Hows
  <2>2. inFlight' = inFlight \/ executeQuery(Caller(r, "auto"), Home[r])
    BY <1>4 DEF RunEffects
  <2>3. UNCHANGED <<life, query, display, runCount, reloads, skipped, rejected>>
    BY <1>4 DEF RunEffects
  <2>4. \A v \in Views : SameView(v)
    BY <2>1, <2>2, <2>3, ViewsKeep DEF IInv, RInv
  <2> QED
    BY <1>4, <2>4, EffectsSteps, SameViewKeeps DEF IInv
<1>5. ASSUME NEW r \in Reports, ReportAnswers(r) PROVE IInv'
  <2>1. PICK how \in Hows, k \in Keys, outcome \in Outcomes :
          AnswerReport(r, how, k, outcome)
    BY <1>5 DEF ReportAnswers, Hows
  <2>2. Caller(r, how) \in Callers \ Views
    BY CallersApart
  <2>3. \A v \in Views : SameView(v)
    BY <2>1, <2>2, ViewsKeep DEF AnswerReport, IInv, RInv
  <2> QED
    BY <1>5, <2>3, AnswerSteps, SameViewKeeps DEF IInv
<1>6. CASE UNCHANGED allVars
  <2>1. UNCHANGED <<vars, reportVars>>
    BY <1>6 DEF allVars
  <2>2. \A v \in Views : SameView(v)
    BY <2>1 DEF SameView, vars, display
  <2>3. TypeOK' /\ ReportTypes'
    BY <2>1 DEF IInv, RInv, TypeOK, ReportTypes, vars, reportVars, slice, display
  <2>4. \A r \in Reports : ReportInv(r)'
    BY <2>1 DEF IInv, RInv, ReportInv, MountInv, AutoInv, FollowInv, isExecutingQuery,
       vars, reportVars, slice
  <2> QED
    BY <2>2, <2>3, <2>4, SameViewKeeps DEF IInv, RInv
<1> QED
  BY <1>1, <1>2, <1>3, <1>4, <1>5, <1>6 DEF ReportNext

LEMMA Always == ReportSpec => []IInv
  BY StartsSo, KeepsSo, PTL DEF ReportSpec

\* Types of the slice, the components, the reports and their subscriptions.
THEOREM TypeCorrect == ReportSpec => []ReportTypeOK
<1>1. IInv => ReportTypeOK
  BY TypesAre DEF IInv, RInv
<1> QED
  BY <1>1, Always, PTL

\* No Query component overlooks a result: when nothing of it is under way, it shows
\* the result of the query it is bound to (Query.tsx:98).
THEOREM ResultsAreShown == ReportSpec => []ResultShown
<1>1. IInv => ResultShown
  <2> SUFFICES ASSUME IInv, NEW v \in Views, life[v] = "mounted", ~Running(v),
                      reloads[v] = 0, query[v] \in cached
               PROVE  rendered[v] = query[v] \/ skipped[v] \/ rejected[v]
                      \/ runCount[v] >= MaxRuns
    BY DEF ResultShown
  <2>1. /\ status[v] \in {"none", "loading", "loaded", "error"} /\ ViewInv(v)
        /\ query[v] \notin Invalid
    BY ViewAssumption DEF IInv, RInv, TypeOK
  <2> QED
    BY <2>1 DEF ViewInv
<1> QED
  BY <1>1, Always, PTL

\* A report never has two automatic executions under way, although it decides on a
\* flag it rendered before (ReportBody.tsx:140).
THEOREM OneAutomaticEach == ReportSpec => []OneAutomatic
<1>1. IInv => OneAutomatic
  BY DEF IInv, RInv, ReportInv, AutoInv, OneAutomatic
<1> QED
  BY <1>1, Always, PTL

\* What a mounted report shows is in step with the store: its results are those of
\* the store, and it never waits for an execution that has ended.
Follows ==
  \A r \in on :
    /\ shown[r].current /\ (shown[r].missing <=> key[r] \notin cached)
    /\ shown[r].executing => isExecutingQuery

\* A report never misses a change of the store between its render and the effects
\* that subscribe it: it never shows results the store has replaced, nor waits for
\* an execution that is over (use-rematch.ts:39).
THEOREM ReportsFollow == ReportSpec => []Follows
<1>1. IInv => Follows
  <2> SUFFICES ASSUME IInv, NEW r \in on
               PROVE  /\ shown[r].current /\ (shown[r].missing <=> key[r] \notin cached)
                      /\ shown[r].executing => isExecutingQuery
    BY DEF Follows
  <2>1. r \in Reports
    BY DEF IInv, RInv, ReportTypes
  <2>2. FollowInv(r)
    BY <2>1 DEF IInv, RInv, ReportInv
  <2>3. shown[r] \in Shown
    BY <2>1 DEF IInv, RInv, ReportTypes
  <2> QED
    BY <2>2, <2>3 DEF FollowInv, Shown
<1> QED
  BY <1>1, Always, PTL
(***************************************************************************)
(* No report is idle                                                       *)
(***************************************************************************)
\* An automatic report that has run its effects, while nothing is executed, has executed its query at
\* some time or has a result: it does not wait for an execution whose end it has missed
\* between its render and its subscription (ReportBody.tsx:138-160).
NoReportIdle ==
  \A r \in (on \cap Automatic) \ due : ~isExecutingQuery => r \in tried \/ key[r] \in cached

\* The executing effect has run for what the report has rendered, and it has executed if it
\* ever ran with nothing executed and the result missing.
IdleInv(r) ==
  /\ r \in on \ due => ran[r] = Dependencies(r)
  /\ r \in Automatic /\ ran[r] # Null /\ ran[r].executing = FALSE /\ ran[r].missing = TRUE
       => r \in tried
  /\ r \in failed => r \in tried
  /\ \A k \in Keys : inFlight[Caller(r, "auto")][k] > 0 => r \in tried

\* A change of the store makes a report run its effects again, or leaves their
\* dependencies alone.
LEMMA IdleKept ==
  ASSUME ReportTypes, NEW again \in SUBSET on, Notify(listening, again), on' = on,
         NEW r \in Reports, IdleInv(r), ran' = ran, tried' = tried,
         r \in failed' => r \in tried,
         \A k \in Keys : inFlight'[Caller(r, "auto")][k] > 0 => r \in tried
  PROVE  IdleInv(r)'
<1>1. r \in on' \ due' => ran'[r] = Dependencies(r)'
  <2> SUFFICES ASSUME r \in on \ due' PROVE ran[r] = Dependencies(r)'
    OBVIOUS
  <2>1. r \notin due /\ shown'[r] = Aged(shown[r]) /\ shown[r] \in Shown
    BY NotifyShape DEF ReportTypes
  <2>2. Dependencies(r)' = Dependencies(r)
    BY <2>1, AgedShown DEF Dependencies
  <2> QED
    BY <2>1, <2>2 DEF IdleInv
<1> QED
  BY <1>1 DEF IdleInv

LEMMA IdleSame ==
  ASSUME NEW r \in Reports, IdleInv(r),
         UNCHANGED <<on, due, ran, shown, failed, tried, inFlight>>
  PROVE  IdleInv(r)'
  BY DEF IdleInv, Dependencies

LEMMA IdleEffects ==
  ASSUME RInv, NEW r \in Reports, RunEffects(r), NEW q \in Reports, IdleInv(q)
  PROVE  IdleInv(q)'
<1> DEFINE subscribed == [p \in Reports |->
                            IF p = r THEN [executing |-> shown[r].executing,
                                           current |-> shown[r].current]
                            ELSE IF p \in due THEN Null ELSE listening[p]]
           rendering == Notified(subscribed)
           c == Caller(r, "auto")
<1>1. TypeOK /\ ReportTypes /\ c \in Callers \ Views /\ Home[r] \in Keys
  BY CallersApart, ReportAssumption DEF RInv, Hows
<1>2. /\ r \in due /\ r \in on /\ ran' = [ran EXCEPT ![r] = Dependencies(r)]
      /\ UNCHANGED <<on, failed>>
  BY <1>1 DEF RunEffects, ReportTypes
<1>3. shown[r] \in Shown /\ ran \in [Reports -> [executing : BOOLEAN, missing : BOOLEAN] \cup {Null}]
  BY <1>1 DEF ReportTypes
<1>4. ran'[r] = Dependencies(r) /\ (q # r => ran'[q] = ran[q])
  BY <1>2, <1>3
\* Had the effect run before with the same dependencies, it would have executed then.
<1>5. CASE ~Executes(r)
  <2>1. due' = due \ {r} /\ UNCHANGED <<inFlight, tried, shown>>
    BY <1>5 DEF RunEffects
  <2>2. q = r /\ r \in Automatic /\ ran'[r] # Null
          /\ ran'[r].executing = FALSE /\ ran'[r].missing = TRUE
          => r \in tried
    <3> SUFFICES ASSUME q = r, r \in Automatic, ran'[r].executing = FALSE, ran'[r].missing = TRUE
                 PROVE  r \in tried
      OBVIOUS
    <3>1. shown[r].executing = FALSE /\ shown[r].missing = TRUE
      BY <1>4 DEF Dependencies
    <3>2. ran[r] = Dependencies(r) \/ r \in failed
      BY <1>5, <3>1 DEF Executes
    <3>3. Dependencies(r).executing = FALSE /\ Dependencies(r).missing = TRUE
      BY <3>1 DEF Dependencies
    <3>4. Dependencies(r) # Null
      <4>1. Dependencies(r) \in [executing : BOOLEAN, missing : BOOLEAN]
        BY <1>3 DEF Dependencies, Shown
      <4> QED
        BY <4>1, ReportAssumption
    <3> QED
      BY <3>2, <3>3, <3>4 DEF IdleInv
  <2>3. CASE q = r
    <3>1. Dependencies(r)' = Dependencies(r)
      BY <2>1 DEF Dependencies
    <3> QED
      BY <1>2, <1>4, <2>1, <2>2, <2>3, <3>1 DEF IdleInv
  <2>4. CASE q # r
    BY <1>2, <1>4, <2>1, <2>4 DEF IdleInv, Dependencies
  <2> QED
    BY <2>3, <2>4
<1>6. CASE Executes(r)
  <2>1. /\ executeQuery(c, Home[r]) /\ tried' = tried \cup {r}
        /\ shown' = [p \in Reports |-> IF p \in rendering THEN Render(p)' ELSE shown[p]]
        /\ due' = (due \ {r}) \cup rendering
    BY <1>6 DEF RunEffects
  <2> HIDE DEF rendering, subscribed
  <2>2. q \in on' \ due' => ran'[q] = Dependencies(q)'
    <3> SUFFICES ASSUME q \in on \ due' PROVE ran'[q] = Dependencies(q)'
      BY <1>2
    <3>1. q \notin rendering /\ shown'[q] = shown[q]
      BY <2>1
    <3>2. Dependencies(q)' = Dependencies(q)
      BY <3>1 DEF Dependencies
    <3>3. CASE q = r
      BY <1>4, <3>2, <3>3
    <3>4. CASE q # r
      <4>1. q \notin due
        BY <2>1, <3>4
      <4> QED
        BY <1>4, <3>2, <3>4, <4>1 DEF IdleInv
    <3> QED
      BY <3>3, <3>4
  <2>3. CASE q = r
    BY <2>1, <2>2, <2>3 DEF IdleInv
  <2>4. CASE q # r
    <3>1. Caller(q, "auto") \in Callers /\ Caller(q, "auto") # c
      BY <2>4, CallersApart DEF Hows
    <3>2. \A k \in Keys : inFlight'[Caller(q, "auto")][k] = inFlight[Caller(q, "auto")][k]
      BY <1>1, <2>1, <3>1, ExecuteShape
    <3> QED
      BY <1>2, <1>4, <2>1, <2>2, <2>4, <3>2 DEF IdleInv
  <2> QED
    BY <2>3, <2>4
<1> QED
  BY <1>5, <1>6

LEMMA IdleNext ==
  ASSUME RInv, NEW q \in Reports, IdleInv(q), [ReportNext]_allVars
  PROVE  IdleInv(q)'
<1>0. TypeOK /\ ReportTypes
  BY DEF RInv
<1>1. CASE ViewStep
  <2>1. UNCHANGED <<on, ran, key, failed, submits, tried>>
    BY <1>1 DEF ViewStep, ReportsNotice
  <2>2. \A k \in Keys : inFlight'[Caller(q, "auto")][k] = inFlight[Caller(q, "auto")][k]
    BY <1>0, <1>1, ComponentStep DEF ViewStep, Hows
  <2>3. CASE UNCHANGED <<slice, inFlight>> /\ UNCHANGED <<shown, listening, due>>
    BY <2>1, <2>3, IdleSame
  <2>4. CASE Notify(listening, {})
    BY <1>0, <2>1, <2>2, <2>4, IdleKept DEF IdleInv
  <2> QED
    BY <1>1, <2>3, <2>4 DEF ViewStep, ReportsNotice, StoreChanges
<1>2. ASSUME NEW r \in Reports, MountReport(r) PROVE IdleInv(q)'
  <2>1. UNCHANGED <<ran, failed, tried, inFlight>>
    BY <1>2 DEF MountReport, vars
  <2>2. q = r => q \in due'
    BY <1>2 DEF MountReport
  <2>3. q # r => shown'[q] = shown[q] /\ (q \in due' <=> q \in due) /\ (q \in on' <=> q \in on)
    BY <1>0, <1>2 DEF MountReport, ReportTypes
  <2> QED
    BY <2>1, <2>2, <2>3 DEF IdleInv, Dependencies
<1>3. ASSUME NEW r \in Reports, NEW k \in Keys, handleQueryFormSubmit(r, k) PROVE IdleInv(q)'
  <2>1. /\ executeQuery(Caller(r, "form"), k) /\ r \in on /\ StoreChanges({r})
        /\ UNCHANGED <<on, ran, failed, tried>>
    BY <1>3 DEF handleQueryFormSubmit
  <2>2. /\ Caller(r, "form") \in Callers /\ Caller(q, "auto") \in Callers
        /\ Caller(q, "auto") # Caller(r, "form")
    BY CallersApart DEF Hows
  <2>3. \A l \in Keys : inFlight'[Caller(q, "auto")][l] = inFlight[Caller(q, "auto")][l]
    BY <1>0, <2>1, <2>2, ExecuteShape
  <2>4. Notify(listening, {r}) /\ {r} \in SUBSET on
    BY <2>1 DEF StoreChanges
  <2> QED
    BY <1>0, <2>1, <2>3, <2>4, IdleKept DEF IdleInv
<1>4. ASSUME NEW r \in Reports, RunEffects(r) PROVE IdleInv(q)'
  BY <1>4, IdleEffects
<1>5. ASSUME NEW r \in Reports, ReportAnswers(r) PROVE IdleInv(q)'
  <2>1. PICK how \in Hows, k \in Keys, outcome \in Outcomes :
          AnswerReport(r, how, k, outcome)
    BY <1>5 DEF ReportAnswers, Hows
  <2> DEFINE stops == how = "auto" /\ outcome = "reject"
  <2>2. /\ Answered(Caller(r, how), k, outcome)
        /\ failed' = IF stops THEN failed \cup {r} ELSE failed
        /\ UNCHANGED <<on, ran, tried>>
        /\ Notify(listening, IF stops THEN {r} ELSE {})
    BY <2>1 DEF AnswerReport, StoreChanges
  <2>3. Caller(r, how) \in Callers /\ Caller(q, "auto") \in Callers
    BY CallersApart DEF Hows
  <2>4. /\ inFlight[Caller(r, how)][k] > 0
        /\ inFlight'[Caller(r, how)][k] = inFlight[Caller(r, how)][k] - 1
        /\ \A d \in Callers, l \in Keys :
             d # Caller(r, how) \/ l # k => inFlight'[d][l] = inFlight[d][l]
    BY <1>0, <2>2, <2>3, AnsweredShape
  <2>5. ASSUME NEW l \in Keys, inFlight'[Caller(q, "auto")][l] > 0 PROVE q \in tried
    <3>1. CASE Caller(q, "auto") = Caller(r, how) /\ l = k
      BY <2>4, <3>1 DEF IdleInv
    <3>2. CASE ~(Caller(q, "auto") = Caller(r, how) /\ l = k)
      BY <2>3, <2>4, <2>5, <3>2 DEF IdleInv
    <3> QED
      BY <3>1, <3>2
  <2>6. q \in failed' => q \in tried
    BY <2>2, <2>4 DEF IdleInv
  <2>7. (IF stops THEN {r} ELSE {}) \in SUBSET on
    BY <2>4 DEF RInv, ReportInv, MountInv
  <2> QED
    BY <1>0, <2>2, <2>5, <2>6, <2>7, IdleKept
<1>6. CASE UNCHANGED allVars
  BY <1>6, IdleSame DEF allVars, vars, reportVars
<1> QED
  BY <1>1, <1>2, <1>3, <1>4, <1>5, <1>6 DEF ReportNext

\* No automatic report idles without its result: once its effects have run and nothing is executed, it
\* has executed its query or has a result. It is what MountExecutes rests on.
THEOREM ReportsNeverIdle == ReportSpec => []NoReportIdle
<1> DEFINE Inv == IInv /\ \A r \in Reports : IdleInv(r)
<1>1. ReportInit => Inv
  <2> SUFFICES ASSUME ReportInit, NEW r \in Reports PROVE IdleInv(r)
    BY StartsSo
  <2>1. \A k \in Keys : inFlight[Caller(r, "auto")][k] = 0
    BY CallersApart DEF ReportInit, Init, Hows
  <2> QED
    BY <2>1 DEF ReportInit, IdleInv
<1>2. Inv /\ [ReportNext]_allVars => Inv'
  BY KeepsSo, IdleNext DEF IInv
<1>3. Inv => NoReportIdle
  <2> SUFFICES ASSUME Inv, NEW r \in (on \cap Automatic) \ due, ~isExecutingQuery, key[r] \notin cached
               PROVE  r \in tried
    BY DEF NoReportIdle
  <2>1. r \in Reports /\ ReportTypes /\ FollowInv(r) /\ IdleInv(r)
    BY DEF IInv, RInv, ReportTypes, ReportInv
  <2>2. shown[r] \in Shown
    BY <2>1 DEF ReportTypes
  <2>3. shown[r].executing = FALSE /\ shown[r].missing = TRUE
    BY <2>1, <2>2 DEF FollowInv, Shown
  <2>4. ran[r] = [executing |-> FALSE, missing |-> TRUE]
    BY <2>1, <2>3 DEF IdleInv, Dependencies
  <2>5. ran[r] # Null
    <3>1. ran[r] \in [executing : BOOLEAN, missing : BOOLEAN]
      BY <2>4
    <3> QED
      BY <3>1, ReportAssumption
  <2> QED
    BY <2>1, <2>4, <2>5 DEF IdleInv
<1> QED
  BY <1>1, <1>2, <1>3, PTL DEF ReportSpec
=============================================================================
