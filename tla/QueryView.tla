----------------------------- MODULE QueryView -----------------------------
(***************************************************************************)
(* The reports slice of DashboardApp (the results of queries, by query and *)
(* parameters) and the Query components that show results from it.  A      *)
(* Query asks for its result when it is mounted and when it is bound to    *)
(* another query; an answer changes the slice, then the component looks    *)
(* there again.                                                            *)
(*                                                                         *)
(* One step is one handler with the renders and callbacks it causes.  No   *)
(* page passes the refresh property, so no component polls.                *)
(***************************************************************************)
EXTENDS Naturals

CONSTANTS
    Views,       \* Query components
    Callers,     \* whoever executes queries: the views, and others
    Keys,        \* resultURI: a query with its parameters
    Invalid,     \* queries whose config cannot be decoded: they get no resultURI
    Null,        \* no result
    MaxRuns,     \* the limit of runCount, 50 in the code
    MaxRebinds,  \* bound: how often the views are bound to another query
    MaxInFlight, \* bound: executions of one query by one caller at once
    Faults       \* how answers may fail, a subset of FaultKinds

\* "refuse" resolves the promise without a result; "reject" rejects it, as a
\* query of format HTTPRequest does on an HttpError.
FaultKinds == {"refuse", "reject"}

ASSUME ViewAssumption ==
    /\ Views \subseteq Callers
    /\ Null \notin Keys /\ Keys \cap Invalid = {}
    /\ MaxRuns \in Nat \ {0} /\ MaxRebinds \in Nat /\ MaxInFlight \in Nat \ {0}
    /\ Faults \subseteq FaultKinds

VARIABLES
    cached,    \* the keys of reportDataByQuery
    object,    \* which object reportDataByQuery is: it differs from the last one
    inFlight,  \* executions under way, by caller and key
    listed,    \* globalConfig holds the configs
    life,      \* "new", "mounted", "gone"
    query,     \* props.remoteQuery
    status,    \* state.loadStatus
    data,      \* state.data: the key it was read under, Null for []
    rendered,  \* the data state.renderedChildren was made with
    runCount,  \* state.runCount
    reloads,   \* timers that will call loadRemoteData
    rebinds,
    skipped,   \* history: the last load did not find the query's config
    rejected   \* history: an execution was rejected since the query was bound

slice == <<cached, object>>
display == <<status, data, rendered>>
vars == <<slice, inFlight, listed, life, query, display, runCount, reloads, rebinds,
          skipped, rejected>>

TypeOK ==
    /\ cached \subseteq Keys /\ object \in {0, 1}
    /\ inFlight \in [Callers -> [Keys -> 0 .. MaxInFlight]]
    /\ listed \in BOOLEAN
    /\ life \in [Views -> {"new", "mounted", "gone"}]
    /\ query \in [Views -> Keys \cup Invalid]
    /\ status \in [Views -> {"none", "loading", "loaded", "error"}]
    /\ data \in [Views -> Keys \cup {Null}]
    /\ rendered \in [Views -> Keys \cup {Null}]
    /\ runCount \in [Views -> Nat] /\ reloads \in [Views -> Nat]
    /\ rebinds \in 0 .. MaxRebinds
    /\ skipped \in [Views -> BOOLEAN] /\ rejected \in [Views -> BOOLEAN]

Init ==
    /\ cached = {} /\ object = 0
    /\ inFlight = [c \in Callers |-> [k \in Keys |-> 0]]
    /\ listed = FALSE
    /\ life = [v \in Views |-> "new"]
    /\ query \in [Views -> Keys \cup Invalid]
    /\ status = [v \in Views |-> "none"]
    /\ data = [v \in Views |-> Null] /\ rendered = [v \in Views |-> Null]
    /\ runCount = [v \in Views |-> 0] /\ reloads = [v \in Views |-> 0]
    /\ rebinds = 0
    /\ skipped = [v \in Views |-> FALSE] /\ rejected = [v \in Views |-> FALSE]

(***************************************************************************)
(* The slice                                                               *)
(***************************************************************************)
\* loadRemoteConfigs has answered.
ListLoads ==
    /\ ~listed /\ listed' = TRUE
    /\ UNCHANGED <<slice, inFlight, life, query, display, runCount, reloads, rebinds,
                   skipped, rejected>>

\* The page loads the list again, and it is pending until the answer.
ListPending ==
    /\ listed /\ listed' = FALSE
    /\ UNCHANGED <<slice, inFlight, life, query, display, runCount, reloads, rebinds,
                   skipped, rejected>>

executeQuery(c, k) ==
    /\ inFlight[c][k] < MaxInFlight
    /\ inFlight' = [inFlight EXCEPT ![c][k] = @ + 1]

Outcomes == {"ok"} \cup Faults

\* Mutant: the execution is counted off at its result and again at its end.
AnsweredTwice(c, k, outcome) ==
    /\ inFlight[c][k] > 0
    /\ inFlight' = [inFlight EXCEPT ![c][k] = @ - IF outcome = "ok" THEN 2 ELSE 1]
    /\ IF outcome = "ok" THEN cached' = cached \cup {k} /\ object' = 1 - object
                         ELSE UNCHANGED slice
    /\ UNCHANGED listed

\* The execution of k by c ends: a result goes to the slice, an error is notified.
Answered(c, k, outcome) ==
    /\ inFlight[c][k] > 0
    /\ inFlight' = [inFlight EXCEPT ![c][k] = @ - 1]
    /\ IF outcome = "ok" THEN cached' = cached \cup {k} /\ object' = 1 - object
                         ELSE UNCHANGED slice
    /\ UNCHANGED listed

(***************************************************************************)
(* A Query component                                                       *)
(***************************************************************************)
\* setState with a load status and data, coming from status was.  It does
\* nothing once the component has gone.  The children are made anew when the
\* status becomes loaded.
SetState(v, was, s, d) ==
    IF life'[v] = "gone" THEN UNCHANGED display
    ELSE /\ status' = [status EXCEPT ![v] = s]
         /\ data' = [data EXCEPT ![v] = d]
         /\ rendered' = IF s = "loaded" /\ was # "loaded"
                        THEN [rendered EXCEPT ![v] = d] ELSE rendered

\* loadRemoteData for query k, when the state holds load status was and data d.
loadRemoteData(v, k, was, d) ==
    /\ skipped' = [skipped EXCEPT ![v] = ~listed]
    /\ \/ /\ ~listed
          /\ SetState(v, was, was, d)
          /\ UNCHANGED inFlight
       \/ /\ listed /\ k \in Invalid
          /\ SetState(v, was, "error", d)
          /\ UNCHANGED inFlight
       \/ /\ listed /\ k \in cached
          /\ SetState(v, was, "loaded", k)
          /\ UNCHANGED inFlight
       \/ /\ listed /\ k \in Keys \ cached
          /\ SetState(v, was, "loading", d)
          /\ IF runCount[v] < MaxRuns THEN executeQuery(v, k) ELSE UNCHANGED inFlight

componentDidMount(v) ==
    /\ life[v] = "new" /\ life' = [life EXCEPT ![v] = "mounted"]
    /\ loadRemoteData(v, query[v], "none", Null)
    /\ UNCHANGED <<slice, listed, query, runCount, reloads, rebinds, rejected>>

\* Mutant: the new query is loaded by the timer of the old one, if there is any.
RebindWithoutLoad(v, k) ==
    /\ life[v] = "mounted" /\ k # query[v]
    /\ rebinds < MaxRebinds /\ rebinds' = rebinds + 1
    /\ query' = [query EXCEPT ![v] = k]
    /\ rejected' = [rejected EXCEPT ![v] = FALSE]
    /\ reloads' = IF status[v] = "loading" THEN [reloads EXCEPT ![v] = @ + 1] ELSE reloads
    /\ UNCHANGED <<slice, inFlight, listed, life, runCount, skipped>>
    /\ SetState(v, status[v], "none", Null)

\* Another remoteQuery: the state is reset, then loaded.  The update handler sees
\* the reset first: if it ended a loading, a timer will load a second time.
Rebind(v, k) ==
    /\ life[v] = "mounted" /\ k # query[v]
    /\ rebinds < MaxRebinds /\ rebinds' = rebinds + 1
    /\ query' = [query EXCEPT ![v] = k]
    /\ rejected' = [rejected EXCEPT ![v] = FALSE]
    /\ reloads' = IF status[v] = "loading" THEN [reloads EXCEPT ![v] = @ + 1] ELSE reloads
    /\ UNCHANGED <<slice, listed, life, runCount>>
    /\ loadRemoteData(v, k, "none", Null)

\* The parent renders: new children, with the data there are.
renderChildren(v) ==
    /\ life[v] = "mounted"
    /\ rendered' = [rendered EXCEPT ![v] = data[v]]
    /\ UNCHANGED <<slice, inFlight, listed, life, query, status, data, runCount, reloads,
                   rebinds, skipped, rejected>>

\* The timer fires, on a component that may have gone.
Reload(v) ==
    /\ reloads[v] > 0 /\ reloads' = [reloads EXCEPT ![v] = @ - 1]
    /\ UNCHANGED <<slice, listed, life, query, runCount, rebinds, rejected>>
    /\ loadRemoteData(v, query[v], status[v], data[v])

componentWillUnmount(v) ==
    /\ life[v] = "mounted" /\ life' = [life EXCEPT ![v] = "gone"]
    /\ UNCHANGED <<slice, inFlight, listed, query, display, runCount, reloads, rebinds,
                   skipped, rejected>>

\* The answer of an execution, of whatever query, ends the loading; the update
\* handler then starts the timer.  A rejected one shows its error.
Answer(v, k, outcome) ==
    /\ Answered(v, k, outcome)
    /\ UNCHANGED <<life, query, rebinds, skipped>>
    /\ IF life[v] = "gone" \/ outcome = "reject"
       THEN UNCHANGED <<runCount, reloads>>
       ELSE /\ runCount' = [runCount EXCEPT ![v] = @ + 1]
            /\ reloads' = IF status[v] = "loading"
                          THEN [reloads EXCEPT ![v] = @ + 1] ELSE reloads
    /\ rejected' = IF outcome = "reject" THEN [rejected EXCEPT ![v] = TRUE] ELSE rejected
    /\ SetState(v, status[v], IF outcome = "reject" THEN "error" ELSE "none", data[v])

ViewAnswers(v) == \E k \in Keys, outcome \in Outcomes : Answer(v, k, outcome)

Next ==
    \/ ListLoads \/ ListPending
    \/ \E v \in Views :
         \/ componentDidMount(v)
         \/ \E k \in Keys \cup Invalid : Rebind(v, k)
         \/ renderChildren(v)
         \/ Reload(v)
         \/ componentWillUnmount(v)
         \/ ViewAnswers(v)

(***************************************************************************)
(* Properties                                                              *)
(***************************************************************************)
Running(v) == \E k \in Keys : inFlight[v][k] > 0

\* No result is overlooked: when nothing of a mounted component is under way, it
\* shows the result of the query it is bound to, if there is one, whatever its
\* other executions answered and in which order.  Not so when the config was not
\* listed as it loaded, when an execution was rejected (an answer after an error
\* starts no timer, Query.tsx:98), or when it has used up its runs.
ResultShown ==
    \A v \in Views :
        life[v] = "mounted" /\ ~Running(v) /\ reloads[v] = 0 /\ query[v] \in cached
          => rendered[v] = query[v] \/ skipped[v] \/ rejected[v] \/ runCount[v] >= MaxRuns
=============================================================================
