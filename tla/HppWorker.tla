------------------------------ MODULE HppWorker -----------------------------
(***************************************************************************)
(* The service worker as a whole: the handlers of HppAttest, HppLifecycle  *)
(* and HppEnroll, suspended and resumed in any order over one storage.     *)
(***************************************************************************)
EXTENDS HppEnroll, FiniteSets

CONSTANTS
    Events,     \* the outside events a run lets happen
    Roaming,    \* the tabs that navigate in a run
    Sites0,     \* the lists of enrolled sites a behaviour may start from
    Page0,      \* the pages that are open at first
    MaxTime     \* bound of the clock

Event == {"verify", "close", "clear", "alarm", "activate", "start", "end",
          "detect", "enroll", "revoke"}

ASSUME WorkerAssumption ==
    /\ Events \subseteq Event /\ Roaming \subseteq Tab
    /\ Sites0 \subseteq SUBSET Site
    /\ \A s \in UNION Sites0 : s.cb \in {None, s.origin}
    /\ Page0 \in [Tab -> Origin \cup {None}]
    /\ MaxTime \in Nat

OriginsOf(list) == {s.origin : s \in list}

Init ==
    /\ sites \in Sites0
    /\ confirmed = OriginsOf(sites)
    /\ sessions = NoEntries /\ inflight = NoEntries /\ pending = NoPending
    /\ task = [k \in Task |-> Idle]
    /\ seenSessions = [k \in Task |-> NoEntries]
    /\ seenInflight = [k \in Task |-> NoEntries]
    /\ seenSites    = [k \in Task |-> {}]
    /\ seenPending  = [k \in Task |-> NoPending]
    /\ req = [r \in Req |-> NoReqData]
    /\ marks = [r \in Req |-> {}]
    /\ delivered = [r \in Req |-> {}] /\ presented = [r \in Req |-> {}]
    /\ page = Page0 /\ now = 0

\* A suspended handler goes on.
Resume(k) ==
    \/ GetSessions(k) \/ GetInflight(k) \/ GetSites(k) \/ GetPending(k)
    \/ AttestStep(k) \/ LifecycleStep(k) \/ EnrollStep(k)

Navigate(t, o) ==
    /\ t \in Roaming /\ page[t] \notin {None, o}
    /\ page' = [page EXCEPT ![t] = o]
    /\ UNCHANGED <<storeVars, task, seenVars, histVars, serverVars, now>>

Tick ==
    /\ now < MaxTime
    /\ now' = now + 1
    /\ UNCHANGED <<storeVars, task, seenVars, histVars, serverVars, page>>

Environment ==
    \/ Tick
    \/ "end" \in Events /\ WorkerEnds
    \/ "clear" \in Events /\ ClearSessions
    \/ \E t \in Tab, o \in Origin : Navigate(t, o)
    \/ "verify" \in Events /\ \E r \in Req, t \in Tab : RefuseOrigin(r, t)
    \/ \E k \in Task :
         \/ "verify" \in Events /\ \E r \in Req, t \in Tab : VerifyPresence(k, r, t)
         \/ "close" \in Events /\ \E t \in Tab : CloseTab(k, t)
         \/ "alarm" \in Events /\ AlarmFires(k)
         \/ "activate" \in Events /\ Activate(k)
         \/ "start" \in Events /\ BrowserStarts(k)
         \/ "detect" \in Events /\ \E t \in Tab, u \in Origin \cup {None} : SiteDetected(k, t, u)
         \/ "enroll" \in Events /\ \E t \in Tab : EnrollRequest(k, t)
         \/ "revoke" \in Events /\ \E o \in Origin : RevokeSite(k, o)

Next == Environment \/ \E k \in Task : Resume(k)

Spec == Init /\ [][Next]_vars

\* Every promise a handler awaits is settled: fetch and sendMessage answer or
\* fail, the WebAuthn prompt has a timeout, storage calls return.
Fairness == \A k \in Task : WF_vars(Resume(k))

FairSpec == Spec /\ Fairness

\* The minute alarm keeps firing and finds the worker, loading it if need be.
AlarmSpec == FairSpec /\ WF_vars(Tick) /\ \A k \in Task : SF_vars(AlarmFires(k))

-----------------------------------------------------------------------------
\* Types

Fn == {"none", "verify", "recover", "alarm", "removed", "detect", "enroll", "revoke"}

Pc == {"idle", "challenge", "lookup", "webauthn", "post", "relay", "announce",
       "scan", "recoverNext", "findSite", "enrollChallenge", "create",
       "enrollPost", "getPending", "revokeDelete"}
      \cup SessionPc \cup InflightPc \cup SitePc \cup PendingPc

TaskRecord ==
    [fn : Fn, pc : Pc, got : BOOLEAN, tab : Tab \cup {None},
     origin : Origin \cup {None}, cb : Origin \cup {None}, req : Req \cup {None},
     resp : Reply \cup {"none", "stale", "threw"}, plan : EntryMap]

StoreType ==
    /\ sessions \in EntryMap /\ inflight \in EntryMap
    /\ sites \in SUBSET Site /\ pending \in PendingMap

SeenType ==
    /\ seenSessions \in [Task -> EntryMap] /\ seenInflight \in [Task -> EntryMap]
    /\ seenSites \in [Task -> SUBSET Site] /\ seenPending \in [Task -> PendingMap]

TaskType == task \in [Task -> TaskRecord]

HistoryType ==
    /\ req \in [Req -> ReqData] /\ marks \in [Req -> SUBSET Mark]
    /\ delivered \in [Req -> SUBSET Origin] /\ presented \in [Req -> SUBSET Origin]

ServerType == confirmed \in SUBSET Origin

EnvType == page \in [Tab -> Origin \cup {None}] /\ now \in Nat

\* Every variable has its type: the stored maps, the suspended handlers and the
\* copies of the maps they hold (hpp-storage.js, background.js).
TypeOK ==
    /\ StoreType /\ SeenType /\ TaskType
    /\ HistoryType /\ ServerType /\ EnvType

-----------------------------------------------------------------------------
\* Safety

\* The session of a tab holds a certificate that the server issued for a
\* verification which a page of that same tab asked for and its user passed,
\* whatever stale copies of the session map other handlers write back
\* (setSessionForTab, clearSessionForTab and purgeExpiredSessions interleaved,
\* entries submitted again by recoverInflight).
SessionBelongsToTab ==
    \A t \in Tab : sessions[t] # None =>
        /\ req[sessions[t]].tab = t
        /\ {"uv", "issued"} \subseteq marks[sessions[t]]

\* A session is stored and a page is notified only after the server issued the
\* certificate and its signature was verified (verifyServerSignature in
\* submitAttestation).
NotifiedOnlyIssued ==
    \A r \in Req :
        /\ "stored" \in marks[r] => "issued" \in marks[r]
        /\ presented[r] # {} => "stored" \in marks[r]

\* A certificate is only delivered to callbacks of origins that share the
\* eTLD+1 it was issued for (validateCallbackUrl, getEnrolledSiteByRpId and
\* relayCertToRP, with lists of sites changed meanwhile by other handlers).
RelayStaysInSite ==
    \A r \in Req : \A o \in delivered[r] : RpOf[o] = RpOf[req[r].origin]

\* No page is told both that its verification failed and that it succeeded,
\* over all the early returns of onVerifyPresence and submitAttestation, unless
\* recoverInflight submitted the request a second time.
OneVerdict ==
    \A r \in Req : {"error", "announced"} \subseteq marks[r] => "resumed" \in marks[r]

\* A site is enrolled locally only if the server has confirmed its enrollment,
\* even when addEnrolledSite, removeEnrolledSiteByOrigin and
\* removeEnrolledSiteByRpId write back stale lists.
EnrolledOnlyConfirmed == OriginsOf(sites) \subseteq confirmed

\* The callback stored for a site is one of its own origin, so that an
\* enrollment never keeps the callback of another site's page
\* (setPendingCallbackUrl in one handler, addEnrolledSite in a later one).
CallbackOfOwnOrigin == \A s \in sites : s.cb \in {None, s.origin}

-----------------------------------------------------------------------------
\* Liveness

\* VERIFY_PRESENCE is answered: sendResponse is called for every request
\* (handleMessage), as long as the worker is not ended.
VerifyAnswered == \A r \in Req : "asked" \in marks[r] ~> "returned" \in marks[r]

\* An expired session does not stay in the session map: it leaves or is
\* replaced, though handlers that read the map before the purge write it back
\* (purgeExpiredSessions).
HoldsExpired(t) == sessions[t] # None /\ Expired(sessions[t])
ExpiredPurged == \A t \in Tab : HoldsExpired(t) ~> ~HoldsExpired(t)

\* An entry that recoverInflight found leaves the inflight map, whether it is
\* abandoned, submitted again or throws.
RecoveredLeaves ==
    \A r \in Req, t \in Tab :
        (\E k \in Task : task[k].plan[t] = r) ~> inflight[t] # r

-----------------------------------------------------------------------------
\* What the documents say

\* "On service worker restart, the worker checks hpp_inflight_map and either
\* resumes or safely abandons" (extension-spec.md:87).
InflightResolved == \A t \in Tab : inflight[t] # None ~> inflight[t] = None

\* "rp_id in a certificate must exactly match the eTLD+1 of the current
\* top-level frame origin before the certificate is presented"
\* (extension-spec.md INV-5).
PresentedToItsSite ==
    \A r \in Req : \A o \in presented[r] : RpOf[o] = RpOf[req[r].origin]

-----------------------------------------------------------------------------
\* Refinement

\* How far a request has come, of what has happened to it, and who asked.
PhaseOf(done) ==
    CASE "issued" \in done -> "issued"
      [] "issued" \notin done /\ "uv" \in done -> "approved"
      [] done \cap {"issued", "uv"} = {} /\ "asked" \in done -> "asked"
      [] OTHER -> "none"

Phases == [r \in Req |-> PhaseOf(marks[r])]
Askers == [r \in Req |-> [tab |-> req[r].tab, origin |-> req[r].origin]]

Cert == INSTANCE CertLife WITH
    phase   <- Phases,
    asker   <- Askers,
    holder  <- sessions,
    relayed <- delivered,
    shown   <- presented

\* The worker implements the life of a certificate: asked, approved, issued in
\* this order, held only by the tab that asked and relayed only in its site,
\* whatever the handlers that are suspended write back (background.js).
ImplementsCertLife == Cert!Spec
=============================================================================
