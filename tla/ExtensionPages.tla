--------------------------- MODULE ExtensionPages ---------------------------
(***************************************************************************)
(* The settings and what uses them: the settings pane of the popup, the    *)
(* options page, updateSettings of the worker, and the server              *)
(* configuration that refreshServerConfig caches; and the status pane of   *)
(* the popup with its countdown.  The pages talk to the worker in messages *)
(* whose handlers interleave at every await.                               *)
(*                                                                         *)
(* hpp_active stands for the four settings that both pages edit and        *)
(* server_endpoint_override for the two that only the options page has,    *)
(* of which max_clock_skew_ms is read nowhere.  A page edits its form once *)
(* it is loaded.  The two panes share no state, so that a behaviour uses   *)
(* one of them.                                                            *)
(***************************************************************************)
EXTENDS Integers

CONSTANTS
    None,
    PROD_SERVER,
    Override,   \* servers that an override may name
    Task,       \* slots for the worker's handlers
    Ticker,     \* identifiers of intervals
    MaxTime     \* bound of the clock and of the expiries

ASSUME PagesAssumption ==
    /\ None \notin {PROD_SERVER} \cup Override \cup Ticker \cup Int
    /\ MaxTime \in Nat

VARIABLES
    pane,       \* the pane that is used
    settings,   \* hpp_settings, with the defaults
    config,     \* the server whose configuration is cached, None for the defaults
    form,       \* what each page shows of the settings; None before it is loaded
    task,       \* what each handler of the worker does next
    stale,      \* handlers whose settings were overwritten after they read (history)
    chosen,     \* the override the options page saved last (history)
    overtaken,  \* a stale handler of the popup wrote after that (history)
    session,    \* expiry of the session of the popup's tab
    answers,    \* answers to GET_SESSION under way: an expiry or None
    view,       \* the pane's session, by its expiry; None is "inactive"
    countdownInterval,
    live,       \* the expiry that each running interval counts to
    now

settingsVars == <<settings, config, form, task, stale, chosen, overtaken>>
statusVars   == <<session, answers, view, countdownInterval, live>>
vars == <<pane, settingsVars, statusVars, now>>

Page == {"popup", "options"}
Server == {PROD_SERVER} \cup Override

DEFAULT_SETTINGS == [hpp_active |-> TRUE, override |-> None]

Settings == [hpp_active : BOOLEAN, override : Override \cup {None}]
PopupForm == [hpp_active : BOOLEAN]

Idle == [pc |-> "idle", page |-> None, with |-> None]
NoTicker == [i \in Ticker |-> None]

TypeOK ==
    /\ pane \in {"settings", "status"} /\ settings \in Settings
    /\ config \in Server \cup {None}
    /\ form \in [Page -> Settings \cup PopupForm \cup {None}]
    /\ task \in [Task -> [pc : {"idle", "read", "write", "fetch"},
                          page : Page \cup {None},
                          with : Settings \cup PopupForm \cup Server \cup {None}]]
    /\ stale \in SUBSET Task
    /\ chosen \in Override \cup {None} /\ overtaken \in BOOLEAN
    /\ session \in 0..MaxTime \cup {None} /\ view \in 0..MaxTime \cup {None}
    /\ answers \in SUBSET (0..MaxTime \cup {None})
    /\ countdownInterval \in Ticker \cup {None}
    /\ live \in [Ticker -> 0..MaxTime \cup {None}]
    /\ now \in 0..MaxTime

Init ==
    /\ pane \in {"settings", "status"}
    /\ settings = DEFAULT_SETTINGS /\ config = None
    /\ form = [p \in Page |-> None]
    /\ task = [k \in Task |-> Idle]
    /\ stale = {} /\ chosen = None /\ overtaken = FALSE
    /\ session \in 0..MaxTime \cup {None} /\ answers = {} /\ view = None
    /\ countdownInterval = None /\ live = NoTicker
    /\ now = 0

-----------------------------------------------------------------------------
\* Settings

Goto(k, pc, with) == task' = [task EXCEPT ![k].pc = pc, ![k].with = with]
Finish(k) == task' = [task EXCEPT ![k] = Idle] /\ stale' = stale \ {k}
Start(k, pc, p, with) ==
    /\ task[k] = Idle
    /\ task' = [task EXCEPT ![k] = [pc |-> pc, page |-> p, with |-> with]]

\* The part of the settings that a page shows and sends.
Shown(p, s) == IF p = "options" THEN s ELSE [hpp_active |-> s.hpp_active]

\* The page is opened and shows the settings it is answered (GET_SETTINGS).
LoadSettings(p) ==
    /\ form' = [form EXCEPT ![p] = Shown(p, settings)]
    /\ UNCHANGED <<settings, config, task, stale, chosen, overtaken, statusVars, now>>

\* The user changes a field and the page sends its whole form
\* (UPDATE_SETTINGS).
SaveFromPopup(k) ==
    LET edited == [form["popup"] EXCEPT !.hpp_active = ~@] IN
    /\ form["popup"] # None
    /\ form' = [form EXCEPT !["popup"] = edited]
    /\ Start(k, "read", "popup", edited)
    /\ UNCHANGED <<settings, config, stale, chosen, overtaken, statusVars, now>>

SaveFromOptions(k) ==
    /\ form["options"] # None
    /\ \E edited \in {[form["options"] EXCEPT !.hpp_active = ~@]}
          \cup {[form["options"] EXCEPT !.override = o] : o \in Override \cup {None}} :
        /\ form' = [form EXCEPT !["options"] = edited]
        /\ Start(k, "read", "options", edited)
    /\ UNCHANGED <<settings, config, stale, chosen, overtaken, statusVars, now>>

\* What a page sends replaces the settings.
MergeNothing(current, partial) == partial

\* What a page leaves out is taken from the defaults.
MergeDefaults(current, partial) ==
    [f \in DOMAIN DEFAULT_SETTINGS \cup DOMAIN partial |->
        IF f \in DOMAIN partial THEN partial[f] ELSE DEFAULT_SETTINGS[f]]

\* { ...current, ...partial }
Merge(current, partial) ==
    [f \in DOMAIN current \cup DOMAIN partial |->
        IF f \in DOMAIN partial THEN partial[f] ELSE current[f]]

\* updateSettings, up to its read.
ReadSettings(k) ==
    /\ task[k].pc = "read"
    /\ Goto(k, "write", Merge(settings, task[k].with))
    /\ UNCHANGED <<settings, config, form, stale, chosen, overtaken, statusVars, now>>

WriteSettings(k) ==
    LET p == task[k].page IN
    /\ task[k].pc = "write"
    /\ settings' = task[k].with
    /\ task' = [task EXCEPT ![k] = Idle]
    /\ stale' = {j \in Task \ {k} : j \in stale \/ task[j].pc = "write"}
    /\ IF p = "options"
       THEN chosen' = task[k].with.override /\ overtaken' = FALSE
       ELSE overtaken' = (overtaken \/ k \in stale) /\ UNCHANGED chosen
    /\ UNCHANGED <<config, form, statusVars, now>>

-----------------------------------------------------------------------------
\* The server configuration

\* getServerBase
BaseOf(override) == IF override = None THEN PROD_SERVER ELSE override

\* The alarm every five minutes, installation or the start of the browser.
RefreshServerConfig(k) ==
    /\ Start(k, "fetch", None, BaseOf(settings.override))
    /\ UNCHANGED <<settings, config, form, stale, chosen, overtaken, statusVars, now>>

\* A network error or a status other than 2xx is only logged.
FetchFails(k) ==
    /\ task[k].pc = "fetch"
    /\ Finish(k)
    /\ UNCHANGED <<settings, config, form, chosen, overtaken, statusVars, now>>

\* A configuration that is kept once there is one.
SetServerConfigOnce(k) ==
    /\ task[k].pc = "fetch"
    /\ config' = IF config = None THEN task[k].with ELSE config
    /\ Finish(k)
    /\ UNCHANGED <<settings, form, chosen, overtaken, statusVars, now>>

SetServerConfig(k) ==
    /\ task[k].pc = "fetch"
    /\ config' = task[k].with
    /\ Finish(k)
    /\ UNCHANGED <<settings, form, chosen, overtaken, statusVars, now>>

\* Chrome ends the worker (external): its handlers are gone, storage stays.
WorkerEnds ==
    /\ \E k \in Task : task[k] # Idle
    /\ task' = [k \in Task |-> Idle] /\ stale' = {}
    /\ UNCHANGED <<settings, config, form, chosen, overtaken, statusVars, now>>

\* The browser starts again (external): what session storage held is gone too.
BrowserRestarts ==
    /\ task' = [k \in Task |-> Idle] /\ stale' = {}
    /\ config' = None /\ form' = [p \in Page |-> None]
    /\ UNCHANGED <<settings, chosen, overtaken, statusVars, now>>

-----------------------------------------------------------------------------
\* The status pane

\* A verification issues a session; the purge, the end of the tab or "Clear All
\* Sessions" removes it (external to the pages, but for the last).
SessionIssued(expiry) ==
    /\ expiry > now
    /\ session' = expiry
    /\ UNCHANGED <<settingsVars, answers, view, countdownInterval, live, now>>

SessionEnds ==
    /\ session # None
    /\ session' = None
    /\ UNCHANGED <<settingsVars, answers, view, countdownInterval, live, now>>

\* loadStatus, on opening and on "Refresh": GET_SESSION is answered with the
\* session unless it has expired (onGetSession).
LoadStatus ==
    /\ answers' = answers \cup {IF session # None /\ session >= now THEN session ELSE None}
    /\ UNCHANGED <<settingsVars, session, view, countdownInterval, live, now>>

Cleared == IF countdownInterval = None THEN live
           ELSE [live EXCEPT ![countdownInterval] = None]

\* An interval that runs beside the one before.
StartBeside(expiry, i) ==
    /\ i # countdownInterval
    /\ countdownInterval' = i
    /\ live' = [live EXCEPT ![i] = expiry]

\* startCountdown: the interval before is cleared, tick() runs at once, and an
\* interval is started whatever it did.
StartCountdown(expiry, i) ==
    /\ i # countdownInterval
    /\ countdownInterval' = i
    /\ live' = [Cleared EXCEPT ![i] = expiry]

\* The first tick() shows an expired session as inactive.
ShowActive(expiry, i) ==
    /\ expiry \in answers /\ expiry # None /\ live[i] = None
    /\ answers' = answers \ {expiry}
    /\ view' = IF expiry <= now THEN None ELSE expiry
    /\ StartCountdown(expiry, i)
    /\ UNCHANGED <<settingsVars, session, now>>

ShowInactive ==
    /\ None \in answers
    /\ answers' = answers \ {None}
    /\ view' = None /\ live' = Cleared
    /\ UNCHANGED <<settingsVars, session, countdownInterval, now>>

\* An interval that hides the session and runs on.
TickerHides(i) ==
    /\ live[i] # None /\ live[i] <= now
    /\ view' = None
    /\ UNCHANGED <<settingsVars, session, answers, countdownInterval, live, now>>

\* tick() of an interval whose time is over; before, it only writes the time.
TickerEnds(i) ==
    /\ live[i] # None /\ live[i] <= now
    /\ view' = None /\ live' = Cleared
    /\ UNCHANGED <<settingsVars, session, answers, countdownInterval, now>>

ClosePopup ==
    /\ answers' = {} /\ view' = None
    /\ countdownInterval' = None /\ live' = NoTicker
    /\ UNCHANGED <<settingsVars, session, now>>

Tick ==
    /\ now < MaxTime /\ now' = now + 1
    /\ UNCHANGED <<settingsVars, statusVars>>

-----------------------------------------------------------------------------
TaskStep(k) ==
    \/ ReadSettings(k) \/ WriteSettings(k) \/ FetchFails(k) \/ SetServerConfig(k)

SettingsNext ==
    \/ WorkerEnds \/ BrowserRestarts \/ \E p \in Page : LoadSettings(p)
    \/ \E k \in Task :
         \/ SaveFromPopup(k) \/ SaveFromOptions(k) \/ RefreshServerConfig(k) \/ TaskStep(k)

StatusNext ==
    \/ SessionEnds \/ LoadStatus \/ ShowInactive \/ ClosePopup \/ Tick
    \/ \E expiry \in 0..MaxTime : SessionIssued(expiry)
    \/ \E i \in Ticker :
         \/ TickerEnds(i)
         \/ \E expiry \in 0..MaxTime : ShowActive(expiry, i)

Next ==
    /\ \/ pane = "settings" /\ SettingsNext
       \/ pane = "status" /\ StatusNext
    /\ UNCHANGED pane

Spec == Init /\ [][Next]_vars

\* Time passes and the browser calls the intervals.
FairSpec ==
    /\ Spec /\ WF_vars(pane = "status" /\ Tick /\ UNCHANGED pane)
    /\ \A i \in Ticker : WF_vars(pane = "status" /\ TickerEnds(i) /\ UNCHANGED pane)

-----------------------------------------------------------------------------
\* Properties

\* The server that the extension talks to is the one the options page saved
\* last, through any saves of the popup's stale form, unless a save of the popup
\* had read the settings before and wrote them back after (updateSettings).
OverrideAsChosen == ~overtaken => settings.override = chosen

\* Once the server is no longer changed, and refreshes keep succeeding, the
\* cached configuration comes to be that server's and stays so, whatever
\* answers of other servers were under way (refreshServerConfig,
\* setServerConfig); a new browser session starts with the defaults.
ConfigFollows ==
    \A s \in Override \cup {None} :
        /\ <>[](settings.override = s)
        /\ []<><<\E k \in Task : SetServerConfig(k)>>_vars
        => <>[](config \in {BaseOf(s), None})

\* The popup runs one interval at most, the one it can clear, and a session it
\* shows as active has that interval count to its expiry, in whatever order the
\* answers of several refreshes arrive (startCountdown, showInactive).
CountdownOwned ==
    /\ \A i \in Ticker : live[i] # None => i = countdownInterval /\ view \in {None, live[i]}
    /\ view # None => countdownInterval # None /\ live[countdownInterval] = view

\* A session is not shown as active for ever, and every interval is cleared, be
\* it one that was started for a session that had already expired (tick() of
\* startCountdown).
CountdownEnds ==
    /\ view # None ~> view = None
    /\ \A i \in Ticker : live[i] # None ~> live[i] = None
=============================================================================
