---------------------------- MODULE ExecuteView ----------------------------
(***************************************************************************)
(* The Execute component of a page, with a remote query as its data source *)
(* and "execute immediately" on, displayed: class component, RemoteQuery   *)
(* and QueryForm together.  It follows two things it does not control, the *)
(* page it is on (mounted) and the list of configs it looks its query up   *)
(* in (found), and the model its settings are bound to (SetSource,         *)
(* SetInterval).                                                           *)
(*                                                                         *)
(* One step is one handler with the renders and effects it causes.         *)
(***************************************************************************)
EXTENDS Integers

CONSTANTS
    Queries,     \* ids of query configs
    None,        \* an unset data source
    MaxAsked,    \* bound: executions under way at once
    MaxTimers    \* bound: intervals the browser runs at once

VARIABLES
    mounted,     \* environment: the page shows the component
    found,       \* environment: the queries loadById finds
    source,      \* props.remoteQuery
    every,       \* props.autoExecuteIntervalSeconds is set
    submitting,  \* state.submitting
    timers,      \* the intervals the browser runs: number and query captured
    timer,       \* autoExecuteTimer: the number of an interval, 0 for null
    asked,       \* executions under way, by query
    loading,     \* the model's value under outboundLoadingKey
    erred        \* history: the last answer was an error

own == <<submitting, timers, timer>>
outcome == <<asked, loading, erred>>

ViewTypeOK ==
    /\ source \in Queries \cup {None}
    /\ {every, submitting, loading, erred} \subseteq BOOLEAN
    /\ timers \subseteq [no : 1 .. MaxTimers, query : Queries]
    /\ timer \in 0 .. MaxTimers
    /\ asked \in [Queries -> 0 .. MaxAsked]

ViewInit(s, e) ==
    /\ source = s /\ every = e
    /\ submitting = FALSE
    /\ timers = {} /\ timer = 0
    /\ asked = [q \in Queries |-> 0]
    /\ loading = FALSE /\ erred = FALSE

\* RemoteQuery renders QueryForm only if the query was found, else Empty.
FormShown == mounted /\ source \in found

\* handleSubmit of RemoteQuery, called for query q.
Execute(q) ==
    /\ asked[q] < MaxAsked
    /\ asked' = [asked EXCEPT ![q] = @ + 1]
    /\ loading' = TRUE
    /\ UNCHANGED erred

\* The numbers setInterval may give: the least, as nothing depends on it.
FreeNumbers == 1 .. MaxTimers \ ({t.no : t \in timers} \cup {timer})

(***************************************************************************)
(* What mounting and unmounting do                                         *)
(***************************************************************************)
\* handleQueryFormMount: the interval keeps the handleSubmit of this render.
FormMounts ==
    /\ Execute(source')
    /\ IF every'
       THEN \E n \in FreeNumbers :
              /\ \A m \in FreeNumbers : n <= m
              /\ timers' = timers \cup {[no |-> n, query |-> source']}
              /\ timer' = n
       ELSE UNCHANGED <<timers, timer>>

\* componentWillUnmount; the state of the component goes with it.
Unmounts ==
    /\ timers' = {t \in timers : t.no # timer}
    /\ timer' = 0
    /\ submitting' = FALSE
    /\ UNCHANGED outcome

\* What the component does when page or list have changed and its settings
\* have not.
Follows ==
    /\ UNCHANGED <<source, every>>
    /\ \/ mounted /\ ~mounted' /\ Unmounts
       \/ /\ ~FormShown /\ FormShown'
          /\ FormMounts /\ UNCHANGED submitting
       \/ /\ ~(mounted /\ ~mounted') /\ ~(~FormShown /\ FormShown')
          /\ UNCHANGED <<own, outcome>>

(***************************************************************************)
(* Handlers of its own                                                     *)
(***************************************************************************)
\* The bound data source changes: componentDidUpdate asks for a submit.
SetSource(s) ==
    /\ mounted /\ s # source
    /\ UNCHANGED every
    /\ source' = s /\ submitting' = TRUE
    /\ IF ~FormShown /\ FormShown'
       THEN FormMounts
       ELSE UNCHANGED <<timers, timer, outcome>>

\* The bound interval changes: only the next mount of the form looks at it.
SetInterval(e) ==
    /\ mounted /\ e # every
    /\ every' = e
    /\ UNCHANGED <<source, own, outcome>>

\* submit(): called from the page, for instance by a button's LBM.
submit ==
    /\ mounted /\ ~submitting
    /\ submitting' = TRUE
    /\ UNCHANGED <<source, every, timers, timer, outcome>>

\* QueryForm's effects: the parent's flag, its own, the submit, both reset.
FormSubmits ==
    /\ FormShown /\ submitting
    /\ Execute(source)
    /\ submitting' = FALSE
    /\ UNCHANGED <<source, every, timers, timer>>

\* The browser calls an interval's handler, whatever is on the page.
TimerFires(t) ==
    /\ Execute(t.query)
    /\ UNCHANGED <<source, every, own>>

\* Mutant: an answer is taken in although nothing was asked.
ResultArrivesAny(q) ==
    /\ asked' = [asked EXCEPT ![q] = @ - 1]
    /\ loading' = FALSE /\ erred' = FALSE
    /\ UNCHANGED <<source, every, own>>

\* Mutant: the event is not raised for an answer.
ResultArrivesQuietly(q) ==
    /\ asked[q] > 0
    /\ asked' = [asked EXCEPT ![q] = @ - 1]
    /\ erred' = FALSE
    /\ UNCHANGED <<source, every, own, loading>>

\* Data, or for a refusal or an HttpError the notification executeQuery
\* resolves with: onResults, and the event "loaded" clears the flag.
ResultArrives(q) ==
    /\ asked[q] > 0
    /\ asked' = [asked EXCEPT ![q] = @ - 1]
    /\ loading' = FALSE /\ erred' = FALSE
    /\ UNCHANGED <<source, every, own>>

\* OK with {status: "error"}: the handler returns before onRaiseEvent.
ErrorArrives(q) ==
    /\ asked[q] > 0
    /\ asked' = [asked EXCEPT ![q] = @ - 1]
    /\ erred' = TRUE
    /\ UNCHANGED <<source, every, own, loading>>
=============================================================================
