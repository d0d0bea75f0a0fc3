----------------------------- MODULE Dashboard -----------------------------
(***************************************************************************)
(* DashboardApp: the session, the two slices a sync reloads (globalConfig  *)
(* and apps), and a page with an Execute component.  The page's layout     *)
(* comes from apps, the query's config from globalConfig: the component is *)
(* on the page while apps holds a list, and its form while globalConfig    *)
(* holds its query.  The answers of the two loads come in any order.       *)
(***************************************************************************)
EXTENDS ConfigStore

CONSTANTS
    None,               \* see ExecuteView
    Bound,              \* the values the data source may be bound to
    MaxAsked, MaxTimers \* bounds, see ExecuteView

\* A data source is chosen from the configs there are.
ASSUME BoundAssumption ==
    /\ Bound \subseteq Present \cup {None}
    /\ None \notin Rows
    /\ MaxAsked \in Nat
    /\ MaxTimers \in Nat

VARIABLES
    session,    \* "out"; "new": the profile is set, its effect has not run; "in"
    apps,       \* apps.configs: the RemoteData case
    appLoads,   \* the loads of apps under way
    source, every, submitting, timers, timer, asked, loading, erred,
    disturbed   \* history: a delete, a refusal, or a new data source

\* The routes render the Shell for a profile, and the page's layout is empty
\* unless apps holds a list.
PageShown == session # "out" /\ apps = "success"

View == INSTANCE ExecuteView WITH
    Queries <- Rows,
    mounted <- PageShown,
    found <- {q \in Rows : loadById(q)}

page == <<session, apps, appLoads, disturbed>>
view == <<source, every, submitting, timers, timer, asked, loading, erred>>
allVars == <<vars, page, view>>

AppLoad == [no : 1 .. MaxLoads, at : {"sent", "read", "refused"}]

DashboardTypeOK ==
    /\ TypeOK
    /\ View!ViewTypeOK
    /\ session \in {"out", "new", "in"}
    /\ apps \in {"initial", "pending", "success", "failure"}
    /\ appLoads \subseteq AppLoad
    /\ disturbed \in BOOLEAN

DashboardInit ==
    /\ Init
    /\ session = "out" /\ apps = "initial" /\ appLoads = {}
    /\ disturbed = FALSE
    /\ \E s \in Bound : View!ViewInit(s, TRUE)

(***************************************************************************)
(* Session and syncs                                                       *)
(***************************************************************************)
Login ==
    /\ session = "out" /\ session' = "new"
    /\ UNCHANGED <<vars, apps, appLoads, disturbed>>
    /\ View!Follows

\* iam.reset and remoteDataClient.reset: the slices keep what they have.
logout ==
    /\ session = "in" /\ session' = "out"
    /\ UNCHANGED <<vars, apps, appLoads, disturbed>>
    /\ View!Follows

\* Mutant: apps keeps its list until the new one has come.
LoadBothInPlace ==
    /\ loadRemoteConfigs
    /\ appLoads' = appLoads \cup {[no |-> loaded + 1, at |-> "sent"]}
    /\ UNCHANGED <<apps, disturbed>>
    /\ View!Follows

\* loadAppConfigs and loadRemoteConfigs, called one after the other.
LoadBoth ==
    /\ loadRemoteConfigs
    /\ apps' = "pending"
    /\ appLoads' = appLoads \cup {[no |-> loaded + 1, at |-> "sent"]}
    /\ UNCHANGED disturbed
    /\ View!Follows

\* ThemeLoader's effect on the profile.
ProfileEffect == session = "new" /\ session' = "in" /\ LoadBoth

\* SyncConfigButton, in the header of the Shell.
Sync == session = "in" /\ UNCHANGED session /\ LoadBoth

(***************************************************************************)
(* The apps slice: loads only                                              *)
(***************************************************************************)
AppServed(a, at) ==
    /\ a.at = "sent"
    /\ appLoads' = (appLoads \ {a}) \cup {[a EXCEPT !.at = at]}
    /\ UNCHANGED <<vars, view, session, apps, disturbed>>

AppRead(a) == AppServed(a, "read")
AppRefusal(a) == "refused" \in Faults /\ AppServed(a, "refused")

AppsArrive(a, at, result) ==
    /\ a.at = at
    /\ appLoads' = appLoads \ {a}
    /\ apps' = result
    /\ disturbed' = (disturbed \/ at = "refused")
    /\ UNCHANGED <<vars, session>>
    /\ View!Follows

AppOK(a) == AppsArrive(a, "read", "success")
AppRefused(a) == AppsArrive(a, "refused", "failure")

AppHttpError(a) ==
    /\ "http" \in Faults
    /\ appLoads' = appLoads \ {a}
    /\ UNCHANGED <<vars, view, session, apps, disturbed>>

AppStep(a) ==
    AppRead(a) \/ AppRefusal(a) \/ AppOK(a) \/ AppRefused(a) \/ AppHttpError(a)

(***************************************************************************)
(* The globalConfig slice, with what the page makes of every change        *)
(***************************************************************************)
\* The pages of the Shell write.
SendsWrite(send(_)) ==
    /\ PageShown
    /\ \E r \in Rows : send(r)
    /\ UNCHANGED <<session, apps, appLoads, view>>

Create == SendsWrite(createRemoteConfig) /\ UNCHANGED disturbed
Update == SendsWrite(updateRemoteConfig) /\ UNCHANGED disturbed
Delete == SendsWrite(deleteRemoteConfigs) /\ disturbed' = TRUE

WriteMoves(w) ==
    /\ WriteStep(w)
    /\ disturbed' = (disturbed \/ w.at = "refused")
    /\ UNCHANGED <<session, apps, appLoads>>
    /\ View!Follows

LoadMoves(l) ==
    /\ LoadStep(l)
    /\ disturbed' = (disturbed \/ l.at = "refused")
    /\ UNCHANGED <<session, apps, appLoads>>
    /\ View!Follows

(***************************************************************************)
(* The page itself                                                         *)
(***************************************************************************)
Rebind ==
    /\ disturbed' = TRUE
    /\ UNCHANGED <<vars, session, apps, appLoads>>
    /\ \E s \in Bound : View!SetSource(s)

Intervals == \E t \in timers : View!TimerFires(t)

Answers == \E q \in Rows : View!ResultArrives(q) \/ View!ErrorArrives(q)

PageActs ==
    /\ \/ \E e \in BOOLEAN : View!SetInterval(e)
       \/ View!submit
       \/ View!FormSubmits
       \/ Intervals
       \/ Answers
    /\ UNCHANGED <<vars, page>>

DashboardNext ==
    \/ Login \/ logout \/ ProfileEffect \/ Sync
    \/ \E a \in appLoads : AppStep(a)
    \/ Create \/ Update \/ Delete
    \/ \E w \in writes : WriteMoves(w)
    \/ \E l \in loads : LoadMoves(l)
    \/ Rebind \/ PageActs

DashboardSpec == DashboardInit /\ [][DashboardNext]_allVars

----------------------------------------------------------------------------
(***************************************************************************)
(* Properties                                                              *)
(***************************************************************************)
\* No interval is left behind: unless a config was deleted, a call refused or
\* the data source bound anew, the browser runs no interval but the one the
\* Execute component of the page will clear, and none without the page.  The
\* component keeps one interval and overwrites it when its form mounts again
\* (ExecuteInterfaceComponent.tsx:151-154), so this rests on the form never
\* coming back on a page that stayed: on both slices being reset by every
\* sync and on answers of loads that overlap (ThemeLoader.tsx:35-40,
\* SyncConfigButton.tsx:9-13).
IntervalsOwned ==
    ~disturbed => \A t \in timers : t.no = timer /\ PageShown

\* The loading flag of the page's model is on only while an execution is under
\* way, or because the last answer was an error: RemoteQuery.tsx:87-95 returns
\* before the event that clears it, and nothing else does until an execution
\* succeeds.  Executions of the interval, of a rebound query and of a page
\* that has gone set and clear the same flag (settings.ts:50).
LoadingEnds == loading /\ ~erred => \E q \in Rows : asked[q] > 0
=============================================================================
