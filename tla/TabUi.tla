-------------------------------- MODULE TabUi -------------------------------
(***************************************************************************)
(* What the extension shows in a tab: the icon that background.js sets     *)
(* (updateIconForTab, updateIconForAllTabs, showError) and the overlays    *)
(* that content.js draws (gate, enrollment prompt, error).  The worker's   *)
(* handlers and the page run concurrently and only exchange messages; a    *)
(* message reaches whatever page the tab shows when it arrives.            *)
(*                                                                         *)
(* A verification is seen from its outside: what HppAttest models between  *)
(* the click and the outcome is one step here.  An update of the icon,     *)
(* four calls of chrome.action, is one step.                               *)
(***************************************************************************)
EXTENDS Integers

CONSTANTS
    Tab, Origin, None,
    Verification,   \* calls of onVerifyPresence
    Task,           \* slots for the other handlers of the worker
    Life,           \* lifetime of a certificate
    Soon,           \* remaining lifetime below which the icon is "expiring"
    MaxLoads,       \* bound of the pages that are loaded
    MaxTime         \* bound of the clock

ASSUME TabUiAssumption ==
    /\ None \notin Tab \cup Origin \cup Verification \cup Int
    /\ Life \in Nat /\ Soon \in Nat /\ MaxLoads \in Nat /\ MaxTime \in Nat

VARIABLES
    icon,       \* the icon of each tab
    page,       \* the page each tab shows; None while it has no content script
    gate,       \* the gate or the prompt in the page (gateHost, gateInjected)
    asked,      \* the verification the gate's button has asked for
    overlay,    \* an error overlay is shown (errorHost)
    timers,     \* verifications whose error overlay's timer is armed
    session,    \* expiry of the session of each tab
    enrolled,   \* enrolled origins
    verify,     \* what each verification does next
    task,       \* what each other handler does next
    loads, now,
    earned,     \* tabs that were given a certificate or an enrollment (history)
    broken      \* verifications that ended without a word to the tab (history)

pageVars   == <<page, gate, asked, overlay, timers>>
workerVars == <<session, enrolled, verify, task>>
vars == <<icon, pageVars, workerVars, loads, now, earned, broken>>

Icon == {"default", "active", "pending", "expiring", "error", "enrollment"}
Gate == {"none", "gate", "verifying", "prompt"}

VerifyPc == {"new", "running", "errorIcon", "hideGate", "showError", "activeIcon",
             "certReady", "done"}
TaskPc == {"idle", "findSite", "findSession", "pendingIcon", "showGate", "enrollIcon",
           "showPrompt", "enrolling", "activeIcon", "defaultIcon", "purge", "sessions",
           "icons"}

NoSessions == [t \in Tab |-> None]
Idle == [pc |-> "idle", tab |-> None, origin |-> None, seen |-> NoSessions, todo |-> {}]

TypeOK ==
    /\ icon \in [Tab -> Icon] /\ page \in [Tab -> Origin \cup {None}]
    /\ gate \in [Tab -> Gate] /\ asked \in [Tab -> Verification \cup {None}]
    /\ overlay \in [Tab -> BOOLEAN] /\ timers \in [Tab -> SUBSET Verification]
    /\ session \in [Tab -> Int \cup {None}] /\ enrolled \in SUBSET Origin
    /\ verify \in [Verification -> [pc : VerifyPc, tab : Tab \cup {None}]]
    /\ task \in [Task -> [pc : TaskPc, tab : Tab \cup {None}, origin : Origin \cup {None},
                          seen : [Tab -> Int \cup {None}], todo : SUBSET Tab]]
    /\ loads \in 0..MaxLoads /\ now \in 0..MaxTime
    /\ earned \in SUBSET Tab /\ broken \in SUBSET Verification

Init ==
    /\ icon = [t \in Tab |-> "default"] /\ page = NoSessions
    /\ gate = [t \in Tab |-> "none"] /\ asked = NoSessions
    /\ overlay = [t \in Tab |-> FALSE] /\ timers = [t \in Tab |-> {}]
    /\ session = NoSessions /\ enrolled \in SUBSET Origin
    /\ verify = [v \in Verification |-> [pc |-> "new", tab |-> None]]
    /\ task = [k \in Task |-> Idle]
    /\ loads = 0 /\ now = 0 /\ earned = {} /\ broken = {}

-----------------------------------------------------------------------------
\* Steps of handlers

SetIcon(t, state) == icon' = [icon EXCEPT ![t] = state]
VerifyGoto(v, from, to) ==
    /\ verify[v].pc = from
    /\ verify' = [verify EXCEPT ![v].pc = to]
Goto(k, to) == task' = [task EXCEPT ![k].pc = to]
Finish(k)   == task' = [task EXCEPT ![k] = Idle]
Spawn(k, pc, t, o) ==
    /\ task[k] = Idle
    /\ task' = [task EXCEPT ![k] = [Idle EXCEPT !.pc = pc, !.tab = t, !.origin = o]]

RemoveGate(t) ==
    /\ gate' = [gate EXCEPT ![t] = "none"]
    /\ asked' = [asked EXCEPT ![t] = None]

-----------------------------------------------------------------------------
\* The page (content.js)

\* run(): the script starts with a page that names HPP in a meta tag, and tells
\* the worker, whose onSiteDetected stops where HPP is switched off.
PageLoads(k, t, o) ==
    /\ page[t] = None /\ loads < MaxLoads
    /\ page' = [page EXCEPT ![t] = o] /\ loads' = loads + 1
    /\ \/ Spawn(k, "findSite", t, o)
       \/ UNCHANGED task
    /\ UNCHANGED <<icon, gate, asked, overlay, timers, session, enrolled, verify, now,
                   earned, broken>>

\* The old page goes with all its script knew, and Chrome resets the icon that
\* was set for the tab.
PageUnloads(t) ==
    /\ page[t] # None
    /\ page' = [page EXCEPT ![t] = None]
    /\ RemoveGate(t)
    /\ overlay' = [overlay EXCEPT ![t] = FALSE] /\ timers' = [timers EXCEPT ![t] = {}]
    /\ SetIcon(t, "default")
    /\ UNCHANGED <<workerVars, loads, now, earned, broken>>

\* The click on "Verify Your Presence", which the disabled button takes once.
ClickVerify(t, v) ==
    /\ gate[t] = "gate" /\ verify[v].pc = "new"
    /\ gate' = [gate EXCEPT ![t] = "verifying"] /\ asked' = [asked EXCEPT ![t] = v]
    /\ verify' = [verify EXCEPT ![v] = [pc |-> "running", tab |-> t]]
    /\ UNCHANGED <<icon, page, overlay, timers, session, enrolled, task, loads, now,
                   earned, broken>>

\* hpp-presence-requested of the page, or "Re-Attest" in the popup.
RequestPresence(t, v) ==
    /\ page[t] # None /\ verify[v].pc = "new"
    /\ verify' = [verify EXCEPT ![v] = [pc |-> "running", tab |-> t]]
    /\ UNCHANGED <<icon, pageVars, session, enrolled, task, loads, now, earned, broken>>

ClickDismiss(k, t) ==
    /\ gate[t] \in {"gate", "verifying"}
    /\ RemoveGate(t)
    /\ Spawn(k, "defaultIcon", t, None)
    /\ UNCHANGED <<icon, page, overlay, timers, session, enrolled, verify, loads, now,
                   earned, broken>>

ClickEnroll(k, t) ==
    /\ gate[t] = "prompt"
    /\ RemoveGate(t)
    /\ Spawn(k, "enrolling", t, page[t])
    /\ UNCHANGED <<icon, page, overlay, timers, session, enrolled, verify, loads, now,
                   earned, broken>>

ClickSkip(t) ==
    /\ gate[t] = "prompt"
    /\ RemoveGate(t)
    /\ UNCHANGED <<icon, page, overlay, timers, workerVars, loads, now, earned, broken>>

ClickErrorDismiss(t) ==
    /\ overlay[t]
    /\ overlay' = [overlay EXCEPT ![t] = FALSE]
    /\ UNCHANGED <<icon, page, gate, asked, timers, workerVars, loads, now, earned, broken>>

\* setTimeout of injectErrorOverlay: whatever overlay is shown by then goes.
TimerFires(t, v) ==
    /\ v \in timers[t]
    /\ timers' = [timers EXCEPT ![t] = @ \ {v}]
    /\ overlay' = [overlay EXCEPT ![t] = FALSE]
    /\ UNCHANGED <<icon, page, gate, asked, workerVars, loads, now, earned, broken>>

\* injectPresenceGate and injectEnrollPrompt: nothing where a gate is shown.
Inject(t, what) ==
    gate' = [gate EXCEPT ![t] = IF page[t] # None /\ @ = "none" THEN what ELSE @]

\* An overlay that replaces another stops the other's timer, but starts none.
InjectOverOld(t, v) ==
    /\ overlay' = [overlay EXCEPT ![t] = TRUE]
    /\ timers' = [timers EXCEPT ![t] = IF overlay[t] THEN {} ELSE @ \cup {v}]

InjectErrorOverlay(t, v) ==
    /\ overlay' = [overlay EXCEPT ![t] = TRUE]
    /\ timers' = [timers EXCEPT ![t] = @ \cup {v}]

-----------------------------------------------------------------------------
\* onVerifyPresence and submitAttestation, seen from the tab

\* An error that is shown: before the submission, a signature that does not
\* verify, or a throw.
VerifyFails(v) ==
    /\ VerifyGoto(v, "running", "errorIcon")
    /\ UNCHANGED <<icon, pageVars, session, enrolled, task, loads, now, earned, broken>>

\* The early returns of submitAttestation tell the page nothing (network, 408,
\* 401, another status); nor does a worker that is ended.
VerifyEndsSilently(v) ==
    /\ VerifyGoto(v, "running", "done")
    /\ broken' = broken \cup {v}
    /\ UNCHANGED <<icon, pageVars, session, enrolled, task, loads, now, earned>>

VerifyIssued(v) ==
    LET t == verify[v].tab IN
    /\ VerifyGoto(v, "running", "activeIcon")
    /\ session' = [session EXCEPT ![t] = now + Life] /\ earned' = earned \cup {t}
    /\ UNCHANGED <<icon, pageVars, enrolled, task, loads, now, broken>>

ActiveIcon(v) ==
    /\ VerifyGoto(v, "activeIcon", "certReady")
    /\ SetIcon(verify[v].tab, "active")
    /\ UNCHANGED <<pageVars, session, enrolled, task, loads, now, earned, broken>>

\* The event is dispatched and the gate stays.
CertReadyOnly(v) ==
    /\ VerifyGoto(v, "certReady", "done")
    /\ UNCHANGED <<icon, pageVars, session, enrolled, task, loads, now, earned, broken>>

\* CERT_READY, relayed or not: the page removes its gate, if it has one.
CertReady(v) ==
    /\ VerifyGoto(v, "certReady", "done")
    /\ RemoveGate(verify[v].tab)
    /\ UNCHANGED <<icon, page, overlay, timers, session, enrolled, task, loads, now,
                   earned, broken>>

\* showError: the icon, HIDE_GATE, then SHOW_ERROR unless HIDE_GATE found no
\* content script.
ErrorIcon(v) ==
    /\ VerifyGoto(v, "errorIcon", "hideGate")
    /\ SetIcon(verify[v].tab, "error")
    /\ UNCHANGED <<pageVars, session, enrolled, task, loads, now, earned, broken>>

HideGate(v) ==
    LET t == verify[v].tab IN
    /\ VerifyGoto(v, "hideGate", IF page[t] = None THEN "done" ELSE "showError")
    /\ RemoveGate(t)
    /\ UNCHANGED <<icon, page, overlay, timers, session, enrolled, task, loads, now,
                   earned, broken>>

ShowError(v) ==
    LET t == verify[v].tab IN
    /\ VerifyGoto(v, "showError", "done")
    /\ RemoveGate(t)
    /\ IF page[t] = None THEN UNCHANGED <<overlay, timers>> ELSE InjectErrorOverlay(t, v)
    /\ UNCHANGED <<icon, page, session, enrolled, task, loads, now, earned, broken>>

VerifyStep(v) ==
    \/ VerifyFails(v) \/ VerifyEndsSilently(v) \/ VerifyIssued(v) \/ ActiveIcon(v)
    \/ CertReady(v) \/ ErrorIcon(v) \/ HideGate(v) \/ ShowError(v)

-----------------------------------------------------------------------------
\* The other handlers

\* A step that leaves the page alone, or that only goes on.
Quiet == UNCHANGED <<pageVars, verify, loads, now, broken>>
Reads == Quiet /\ UNCHANGED <<icon, session, enrolled, earned>>

\* onSiteDetected
FindSite(k) ==
    /\ task[k].pc = "findSite"
    /\ Goto(k, IF task[k].origin \in enrolled THEN "findSession" ELSE "enrollIcon")
    /\ Reads

Valid(t, sessions) == sessions[t] # None /\ sessions[t] > now

FindSession(k) ==
    /\ task[k].pc = "findSession"
    /\ Goto(k, IF Valid(task[k].tab, session) THEN "activeIcon" ELSE "pendingIcon")
    /\ Reads

IconThen(k, from, state, to) ==
    /\ task[k].pc = from
    /\ SetIcon(task[k].tab, state)
    /\ IF to = "idle" THEN Finish(k) ELSE Goto(k, to)
    /\ Quiet /\ UNCHANGED <<session, enrolled, earned>>

ShowThen(k, from, what) ==
    /\ task[k].pc = from
    /\ Inject(task[k].tab, what)
    /\ Finish(k)
    /\ UNCHANGED <<icon, page, asked, overlay, timers, session, enrolled, verify, loads,
                   now, earned, broken>>

\* An enrollment that shows its icon without looking at the outcome.
EnrollsAnyway(k) ==
    /\ task[k].pc = "enrolling"
    /\ Goto(k, "activeIcon")
    /\ \/ /\ enrolled' = enrolled \cup {task[k].origin}
          /\ earned' = earned \cup {task[k].tab}
       \/ UNCHANGED <<enrolled, earned>>
    /\ Quiet /\ UNCHANGED <<icon, session>>

\* onEnrollRequest, from its challenge to addEnrolledSite; a failure is only
\* returned to the page's script, which ignores it.
Enrolls(k) ==
    /\ task[k].pc = "enrolling"
    /\ \/ /\ enrolled' = enrolled \cup {task[k].origin}
          /\ earned' = earned \cup {task[k].tab}
          /\ Goto(k, "activeIcon")
       \/ Finish(k) /\ UNCHANGED <<enrolled, earned>>
    /\ Quiet /\ UNCHANGED <<icon, session>>

\* The minute alarm: purgeExpiredSessions, then updateIconForAllTabs.
AlarmFires(k) ==
    /\ Spawn(k, "purge", None, None)
    /\ Reads

Purge(k) ==
    /\ task[k].pc = "purge"
    /\ session' = [t \in Tab |-> IF session[t] # None /\ session[t] < now
                                 THEN None ELSE session[t]]
    /\ Goto(k, "sessions")
    /\ Quiet /\ UNCHANGED <<icon, enrolled, earned>>

ReadSessions(k) ==
    /\ task[k].pc = "sessions"
    /\ task' = [task EXCEPT ![k].pc = "icons", ![k].seen = session, ![k].todo = Tab]
    /\ Reads

\* An icon state that does not exist for an expired session, and a session in
\* its last minutes that still counts as any other.
AlarmIconUnknown(expiry) ==
    IF expiry < now THEN "expired"
    ELSE IF expiry - now < Soon THEN "expiring" ELSE "active"

AlarmIconLate(expiry) == IF expiry < now THEN "default" ELSE "active"

AlarmIcon(expiry) ==
    IF expiry < now THEN "default"
    ELSE IF expiry - now < Soon THEN "expiring" ELSE "active"

\* One tab of updateIconForAllTabs; a tab without a session is passed over.
UpdateIcon(k, t) ==
    LET expiry == task[k].seen[t] IN
    /\ task[k].pc = "icons" /\ t \in task[k].todo
    /\ IF expiry = None THEN UNCHANGED icon ELSE SetIcon(t, AlarmIcon(expiry))
    /\ IF task[k].todo = {t} THEN Finish(k) ELSE task' = [task EXCEPT ![k].todo = @ \ {t}]
    /\ Quiet /\ UNCHANGED <<session, enrolled, earned>>

TaskStep(k) ==
    \/ FindSite(k) \/ FindSession(k) \/ Enrolls(k) \/ Purge(k) \/ ReadSessions(k)
    \/ IconThen(k, "pendingIcon", "pending", "showGate")
    \/ IconThen(k, "enrollIcon", "enrollment", "showPrompt")
    \/ IconThen(k, "activeIcon", "active", "idle")
    \/ IconThen(k, "defaultIcon", "default", "idle")
    \/ ShowThen(k, "showGate", "gate") \/ ShowThen(k, "showPrompt", "prompt")
    \/ \E t \in Tab : UpdateIcon(k, t)

Tick ==
    /\ now < MaxTime /\ now' = now + 1
    /\ UNCHANGED <<icon, pageVars, workerVars, loads, earned, broken>>

Next ==
    \/ Tick
    \/ \E t \in Tab :
         \/ PageUnloads(t) \/ ClickSkip(t) \/ ClickErrorDismiss(t)
         \/ \E v \in Verification :
              ClickVerify(t, v) \/ RequestPresence(t, v) \/ TimerFires(t, v)
         \/ \E k \in Task :
              \/ ClickDismiss(k, t) \/ ClickEnroll(k, t)
              \/ \E o \in Origin : PageLoads(k, t, o)
    \/ \E v \in Verification : VerifyStep(v)
    \/ \E k \in Task : AlarmFires(k) \/ TaskStep(k)

Spec == Init /\ [][Next]_vars

\* Promises settle, timers fire, time passes and the minute alarm keeps firing.
FairSpec ==
    /\ Spec /\ WF_vars(Tick)
    /\ \A v \in Verification : WF_vars(VerifyStep(v))
    /\ \A t \in Tab, v \in Verification : WF_vars(TimerFires(t, v))
    /\ \A k \in Task : WF_vars(TaskStep(k))
    /\ SF_vars(\E k \in Task : AlarmFires(k))

-----------------------------------------------------------------------------
\* Properties

\* A gate whose button says "Verifying" does not stay: the page is told, takes
\* the gate away or is left, unless the verification ended without a word
\* (injectPresenceGate, CERT_READY, HIDE_GATE, SHOW_ERROR and the returns of
\* submitAttestation).
VerifyingEnds ==
    \A t \in Tab, v \in Verification :
        asked[t] = v ~> asked[t] # v \/ v \in broken

\* An error does not stay over the page, though a later error replaces it and
\* an earlier error's timer removes what it did not put there
\* (injectErrorOverlay).
ErrorLeaves == \A t \in Tab : overlay[t] ~> ~overlay[t]

\* The last minutes of a session are announced: the icon turns to "expiring",
\* whatever else sets it, or the session ends first (updateIconForAllTabs).
LastMinutes(t) == session[t] # None /\ 0 <= session[t] - now /\ session[t] - now < Soon
ExpiringShown == \A t \in Tab : LastMinutes(t) ~> icon[t] = "expiring" \/ ~LastMinutes(t)

\* "active" and "expiring" are only shown in a tab that was given a certificate
\* or an enrollment, whichever handler sets the icon last.
ActiveEarned == \A t \in Tab : icon[t] \in {"active", "expiring"} => t \in earned
=============================================================================
