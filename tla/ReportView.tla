----------------------------- MODULE ReportView -----------------------------
(***************************************************************************)
(* Reports next to Query components, over the same results.  A report      *)
(* reads the store through the hook useRematch: it renders what it         *)
(* selected, its effects run some time after the render, and only there    *)
(* the hook subscribes, comparing what it selects later with what that     *)
(* render had.  A change of the store before is not noticed.               *)
(*                                                                         *)
(* React runs the effects that are due before it renders again, and what   *)
(* changes the store renders too: a result renders the context provider,   *)
(* an error its notification, the rest the component they begin in.        *)
(***************************************************************************)
EXTENDS QueryView

CONSTANTS
    Reports,     \* ReportBody components
    Automatic,   \* reports that execute without a submit: executeImmediately is not
                 \* off, and they need no parameter of the form or are without one
    Home,        \* the key of each report's query with the parameters it is given
    MaxSubmits   \* bound: submits of the reports' forms

Caller(r, how) == <<r, how>>   \* how: "auto" or "form"

\* What a subscription compares.
Selected == [executing : BOOLEAN, current : BOOLEAN]

ASSUME ReportAssumption ==
    /\ Callers = Views \cup (Reports \X {"auto", "form"})
    /\ Views \cap (Reports \X {"auto", "form"}) = {}
    /\ Null \notin Selected \cup [executing : BOOLEAN, missing : BOOLEAN]
    /\ Home \in [Reports -> Keys] /\ Automatic \subseteq Reports
    /\ MaxSubmits \in Nat

VARIABLES
    on,        \* reports that are mounted
    shown,     \* what a report has rendered: the flag isExecutingQuery, whether the
               \* results are still those of the store, and whether its own is missing
    listening, \* what its subscription compares with; Null before it subscribes
    due,       \* reports whose effects have not run since they rendered
    ran,       \* the dependencies of the last run of the executing effect
    key,       \* hashKey
    failed,    \* automaticQueryErrorState is set
    submits,
    tried      \* history: reports that have executed automatically

reportVars == <<on, shown, listening, due, ran, key, failed, submits, tried>>
allVars == <<vars, reportVars>>

ReportTypeOK ==
    /\ TypeOK
    /\ on \subseteq Reports /\ due \subseteq on /\ failed \subseteq on
    /\ shown \in [Reports -> [executing : BOOLEAN, current : BOOLEAN, missing : BOOLEAN]]
    /\ listening \in [Reports -> Selected \cup {Null}]
    /\ ran \in [Reports -> [executing : BOOLEAN, missing : BOOLEAN] \cup {Null}]
    /\ key \in [Reports -> Keys]
    /\ submits \in 0 .. MaxSubmits /\ tried \subseteq on

ReportInit ==
    /\ Init
    /\ on = {} /\ due = {} /\ failed = {}
    /\ shown = [r \in Reports |->
                  [executing |-> FALSE, current |-> TRUE, missing |-> TRUE]]
    /\ listening = [r \in Reports |-> Null]
    /\ ran = [r \in Reports |-> Null]
    /\ key = Home
    /\ submits = 0 /\ tried = {}

(***************************************************************************)
(* The hook                                                                *)
(***************************************************************************)
\* The loading plugin's flag for executeQuery.
isExecutingQuery == \E c \in Callers, k \in Keys : inFlight[c][k] > 0

\* What a report renders when it selects from the store as it is.
Render(r) ==
    [executing |-> isExecutingQuery, current |-> TRUE, missing |-> key[r] \notin cached]

\* What remains of a selection when the store has new results.
Aged(sel) == IF object' # object /\ sel # Null THEN [sel EXCEPT !.current = FALSE] ELSE sel

\* Mutant: the hook looks at the results only.
NotifiedOfResults(subscribed) ==
    {r \in on : subscribed[r] # Null /\ ~Aged(subscribed[r]).current}

\* Subscribers whose selection differs from what their subscription compares with.
Notified(subscribed) ==
    {r \in on : /\ subscribed[r] # Null
                /\ Aged(subscribed[r]) # [executing |-> isExecutingQuery', current |-> TRUE]}

\* The store has changed, and the reports again may render besides.
Notify(subscribed, again) ==
    LET rendering == Notified(subscribed) \cup again
    IN  /\ shown' = [r \in Reports |-> IF r \in rendering THEN Render(r)' ELSE Aged(shown[r])]
        /\ listening' = [r \in Reports |-> Aged(subscribed[r])]
        /\ due' = due \cup rendering

\* A change of the store comes after the effects that are due, except that a
\* component mounted together with others changes it before the others' effects.
\*
\* The end of an execution is two changes in the code: its result is stored, then
\* the flag goes off.  The first renders the context provider, which runs the
\* effects that are due; what they have not noticed of it, they notice at the
\* second.  The model has one change, after those effects.
StoreChanges(again) ==
    /\ Notify(listening, again)
    /\ \/ due = {}
       \/ life' # life /\ due \cap Notified(listening) = {}

(***************************************************************************)
(* A report                                                                *)
(***************************************************************************)
MountReport(r) ==
    /\ r \notin on /\ on' = on \cup {r}
    /\ shown' = [shown EXCEPT ![r] = Render(r)]
    /\ due' = due \cup {r}
    /\ UNCHANGED <<vars, listening, ran, key, failed, submits, tried>>

Dependencies(r) == [executing |-> shown[r].executing, missing |-> shown[r].missing]

\* Mutant: the effect does not look at what is being executed.
ExecutesUngated(r) ==
    /\ r \in Automatic
    /\ ran[r] # Dependencies(r)
    /\ shown[r].missing /\ r \notin failed

\* The effect that executes the query "on page mount" (ReportBody.tsx:140).
Executes(r) ==
    /\ r \in Automatic
    /\ ran[r] # Dependencies(r)
    /\ ~shown[r].executing /\ shown[r].missing /\ r \notin failed

\* The effects of one report that is due: it subscribes, then it executes.  React
\* has ended the subscriptions of all that are due before it runs the first.
RunEffects(r) ==
    LET subscribed == [q \in Reports |->
                         IF q = r THEN [executing |-> shown[r].executing,
                                        current |-> shown[r].current]
                         ELSE IF q \in due THEN Null ELSE listening[q]]
    IN  /\ r \in due
        /\ ran' = [ran EXCEPT ![r] = Dependencies(r)]
        /\ UNCHANGED <<slice, listed, life, query, display, runCount, reloads, rebinds,
                       skipped, rejected, on, key, failed, submits>>
        /\ IF Executes(r)
           THEN LET rendering == Notified(subscribed)
                IN  /\ executeQuery(Caller(r, "auto"), Home[r])
                    /\ tried' = tried \cup {r}
                    /\ shown' = [q \in Reports |-> IF q \in rendering THEN Render(q)'
                                                                      ELSE shown[q]]
                    /\ listening' = subscribed
                    /\ due' = (due \ {r}) \cup rendering
           ELSE /\ listening' = subscribed
                /\ due' = due \ {r}
                /\ UNCHANGED <<inFlight, tried, shown>>

\* handleQueryFormSubmit: the report shows the result for the parameters entered.
handleQueryFormSubmit(r, k) ==
    /\ r \in on
    /\ submits < MaxSubmits /\ submits' = submits + 1
    /\ key' = [key EXCEPT ![r] = k]
    /\ executeQuery(Caller(r, "form"), k)
    /\ UNCHANGED <<slice, listed, life, query, display, runCount, reloads, rebinds,
                   skipped, rejected, on, ran, failed, tried>>
    /\ StoreChanges({r})

\* An execution of a report ends; a rejected automatic one stops the effect.
AnswerReport(r, how, k, outcome) ==
    LET stops == how = "auto" /\ outcome = "reject"
    IN  /\ Answered(Caller(r, how), k, outcome)
        /\ failed' = IF stops THEN failed \cup {r} ELSE failed
        /\ UNCHANGED <<life, query, display, runCount, reloads, rebinds, skipped,
                       rejected, on, ran, key, submits, tried>>
        /\ StoreChanges(IF stops THEN {r} ELSE {})

ReportAnswers(r) ==
    \E how \in {"auto", "form"}, k \in Keys, outcome \in Outcomes :
        AnswerReport(r, how, k, outcome)

\* What the reports notice of a step of the Query components.
ReportsNotice ==
    /\ UNCHANGED <<on, ran, key, failed, submits, tried>>
    /\ IF UNCHANGED <<slice, inFlight>> THEN UNCHANGED <<shown, listening, due>>
                                        ELSE StoreChanges({})

ViewStep == Next /\ ReportsNotice

ReportNext ==
    \/ ViewStep
    \/ \E r \in Reports :
         \/ MountReport(r)
         \/ \E k \in Keys : handleQueryFormSubmit(r, k)
         \/ RunEffects(r)
         \/ ReportAnswers(r)

\* React runs effects and timers fire.  That calls return is an assumption about
\* the server and the network: the client waits without a limit.
ReportFairness ==
    /\ \A r \in Reports : WF_allVars(RunEffects(r)) /\ WF_allVars(ReportAnswers(r))
    /\ \A v \in Views : WF_allVars(ViewAnswers(v) /\ ReportsNotice)
                        /\ WF_allVars(Reload(v) /\ ReportsNotice)

ReportSpec == ReportInit /\ [][ReportNext]_allVars /\ ReportFairness

(***************************************************************************)
(* Properties                                                              *)
(***************************************************************************)
\* A report has at most one automatic execution under way, although it decides on
\* a flag it rendered some time before.
OneAutomatic == \A r \in Reports : inFlight[Caller(r, "auto")][Home[r]] <= 1

\* "Execute Query on page mount when executeImmediately is not turned off"
\* (ReportBody.tsx:138), if it needs no parameter of a form (:145): such a report,
\* once mounted, executes its query, unless its result comes about otherwise.  It
\* does not while anything is executed, so this
\* rests on its noticing the end of the last execution, which may come at any time
\* around the effects that subscribe it to the store.
MountExecutes ==
    \A r \in Automatic : r \in on ~> r \in tried \/ key[r] \in cached
=============================================================================
