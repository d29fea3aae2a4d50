--------------------------- MODULE HppCertLifeProofs ------------------------
(***************************************************************************)
(* Proofs about the life of a certificate.  First who is told of one: the  *)
(* callbacks it is relayed to and the pages that are notified, where the   *)
(* two other invariants of the worker meet: a certificate that is stored   *)
(* was issued (SessionInv), and the callback of an enrolled site is of that*)
(* site (SiteInv).  Then that the service worker implements CertLife.  Five*)
(* kinds of steps do something the abstract specification names: a page    *)
(* asks, the user approves, the server issues, a callback or a page is     *)
(* told.  Every other step leaves the phases alone and is a Hold, for      *)
(* SessionInv says of each session, whatever copy of the map was written   *)
(* back, that its tab owns it.                                             *)
(***************************************************************************)
EXTENDS HppSessionProofs

\* Where a handler tells of the certificate it has stored.
TellPcs == {"relay", "announce"}

StoredIsIssued == \A r \in Req : "stored" \in marks[r] => "issued" \in marks[r]
ToldIsStored == \A r \in Req : delivered[r] \cup presented[r] # {} => "stored" \in marks[r]
TellersStored ==
    \A k \in Task : task[k].pc \in TellPcs =>
        task[k].req # None /\ "stored" \in marks[task[k].req]

RelayInv == TellersStored /\ StoredIsIssued /\ ToldIsStored /\ RelayStaysInSite

\* A step after which nobody new tells, and nothing more is stored or told.
Silent ==
    /\ \A j \in Task : task'[j].pc \in TellPcs => task'[j] = task[j]
    /\ \A r \in Req : "stored" \in marks'[r] => "stored" \in marks[r]
    /\ UNCHANGED <<delivered, presented>>

-----------------------------------------------------------------------------
\* RelayInv holds at first.
LEMMA RelayInvInit ==
    ASSUME Init
    PROVE  RelayInv
<1>1. TellersStored BY DEF Init, TellersStored, TellPcs, Idle
<1>2. QED
  BY <1>1 DEF Init, RelayInv, StoredIsIssued, ToldIsStored, RelayStaysInSite

\* Silent steps keep RelayInv: a request that was asked for keeps its origin.
LEMMA RelayInvSilent ==
    ASSUME TypeOK, RelayInv, Grows, Silent
    PROVE  RelayInv'
<1> USE FrameType DEF RelayInv, Silent
<1>1. TellersStored'
  BY DEF TellersStored, Grows, TypeOK, TaskType, TaskRecord
<1>2. StoredIsIssued' /\ ToldIsStored'
  BY DEF StoredIsIssued, ToldIsStored, Grows
<1>3. RelayStaysInSite'
  BY DEF RelayStaysInSite, ToldIsStored, Grows
<1>4. QED BY <1>1, <1>2, <1>3

\* All steps of handlers but three are silent.
LEMMA OtherStepsSilent ==
    ASSUME TypeOK, NEW k \in Task, Resume(k),
           ~SetSession(k), ~RelayCert(k), ~\E t \in Tab : Announce(k, t)
    PROVE  Silent
<1> USE FrameType
<1> DEFINE Stays == \A j \in Task : task'[j].pc \in TellPcs => task'[j] = task[j]
           Keeps == \A r \in Req : "stored" \in marks'[r] => "stored" \in marks[r]
           Untold == UNCHANGED <<delivered, presented>>
\* Moves of the handler.
<1>1. ASSUME NEW pc, pc \notin TellPcs, Goto(k, pc) PROVE Stays
  BY <1>1 DEF Goto, TaskRecord
<1>2. ASSUME Finish(k) PROVE Stays
  BY <1>2 DEF Finish, Idle, TellPcs
<1>3. ASSUME NextEntry(k) PROVE Stays
  BY <1>3 DEF NextEntry, Idle, TellPcs
<1>4. ASSUME NEW new, EndSubmit(k, new), "stored" \notin new PROVE Stays /\ Keeps
  BY <1>2, <1>3, <1>4 DEF EndSubmit, Record
<1>5. ASSUME NEW r, NEW new, Record(r, new), "stored" \notin new PROVE Keeps
  BY <1>5 DEF Record
<1>6. ASSUME UNCHANGED marks PROVE Keeps
  BY <1>6
\* Gets, recovery, purges, closed tabs and sites.
<1>7. CASE GetSessions(k) \/ GetInflight(k) \/ GetSites(k) \/ GetPending(k)
  <2>1. Stays
    BY <1>7 DEF GetSessions, GetInflight, GetSites, GetPending, TaskRecord, TellPcs,
                SessionPc, InflightPc, SitePc, PendingPc
  <2>2. Keeps /\ Untold
    BY <1>7 DEF GetSessions, GetInflight, GetSites, GetPending, histVars
  <2>3. QED BY <2>1, <2>2 DEF Silent
<1>8. CASE LifecycleStep(k)
  <2>1. CASE RecoverScan(k)
    BY <1>6, <2>1 DEF RecoverScan, TaskRecord, TellPcs, histVars, Silent
  <2>2. CASE \E t \in Tab : RecoverEntry(k, t)
    <3>1. Stays BY <2>2 DEF RecoverEntry, TaskRecord, TellPcs
    <3>2. Keeps BY <1>5, <2>2 DEF RecoverEntry
    <3>3. QED BY <2>2, <3>1, <3>2 DEF RecoverEntry, Silent
  <2>3. CASE RecoverLast(k)
    BY <1>6, <2>3 DEF RecoverLast, Idle, TellPcs, histVars, Silent
  <2>4. CASE PurgeInflight(k) \/ PurgeSessions(k) \/ ClearSession(k)
    BY <1>1, <1>2, <1>6, <2>4
       DEF PurgeInflight, PurgeSessions, ClearSession, TellPcs, histVars, Silent
  <2>5. QED BY <1>8, <2>1, <2>2, <2>3, <2>4 DEF LifecycleStep
<1>9. CASE EnrollStep(k)
  <2>1. CASE SetPending(k) \/ FindSite(k) \/ ClearPending(k) \/ AddSite(k)
             \/ DeleteCredential(k) \/ RemoveSite(k)
    BY <1>1, <1>2, <1>6, <2>1
       DEF SetPending, FindSite, ClearPending, AddSite, DeleteCredential, RemoveSite,
           TellPcs, histVars, Silent
  <2>2. CASE \E ok \in BOOLEAN : EnrollChallenge(k, ok) \/ CreateCredential(k, ok)
    BY <1>1, <1>2, <1>6, <2>2 DEF EnrollChallenge, CreateCredential, TellPcs, histVars, Silent
  <2>3. CASE \E enrolled \in BOOLEAN : EnrollReply(k, enrolled)
    BY <1>1, <1>2, <1>6, <2>3 DEF EnrollReply, TellPcs, histVars, Silent
  <2>4. CASE ReadPending(k)
    BY <1>6, <2>4 DEF ReadPending, TaskRecord, TellPcs, histVars, Silent
  <2>5. QED BY <1>9, <2>1, <2>2, <2>3, <2>4 DEF EnrollStep
\* Verification, before a certificate is stored or without one.
<1>10. CASE AttestStep(k)
  <2>1. CASE ChallengeArrives(k) \/ SetInflight(k)
    BY <1>1, <1>6, <2>1 DEF ChallengeArrives, SetInflight, TellPcs, Silent
  <2>2. CASE ChallengeFails(k) \/ LookupCredential(k) \/ WebAuthnOk(k) \/ WebAuthnFails(k)
    BY <1>1, <1>2, <1>5, <1>6, <2>2
       DEF ChallengeFails, LookupCredential, WebAuthnOk, WebAuthnFails, FailVerify,
           TellPcs, Silent
  <2>3. ASSUME NEW issues \in BOOLEAN, NEW reply,
               \/ VerifyThrows(k, issues) \/ RecoverThrows(k, issues)
               \/ AttestReply(k, reply, issues)
        PROVE  Silent
    <3>1. Stays
      BY <1>2, <2>3 DEF VerifyThrows, RecoverThrows, AttestReply, TaskRecord, TellPcs
    <3>2. Keeps
      BY <1>5, <2>3 DEF VerifyThrows, RecoverThrows, AttestReply, ServerActs
    <3>3. QED BY <2>3, <3>1, <3>2 DEF VerifyThrows, RecoverThrows, AttestReply, Silent
  <2>4. CASE ClearInflight(k)
    BY <1>1, <1>2, <1>3, <1>4, <1>6, <2>4 DEF ClearInflight, AfterClear, TellPcs, Silent
  <2>5. CASE RemoveRevoked(k)
    BY <1>4, <2>5 DEF RemoveRevoked, Silent
  <2>6. QED BY <1>10, <2>1, <2>2, <2>3, <2>4, <2>5 DEF AttestStep
<1>11. QED BY <1>7, <1>8, <1>9, <1>10 DEF Resume

\* The certificate is stored: it was issued, and its handler goes on to tell.
LEMMA RelayInvSetSession ==
    ASSUME TypeOK, SessionInv, RelayInv, NEW k \in Task, SetSession(k)
    PROVE  RelayInv'
<1> USE FrameType DEF RelayInv
<1> DEFINE r == task[k].req
<1>1. r # None /\ "issued" \in marks[r] /\ r \in Req
  BY DEF SessionInv, HandlerInv, GotIssued, WorksFor, Issued, SetSession, TypeOK, TaskType,
         TaskRecord
<1>2. marks' = [marks EXCEPT ![r] = @ \cup {"stored"}]
      /\ UNCHANGED <<req, delivered, presented>>
  BY DEF SetSession, Record
<1>3. /\ \A j \in Task \ {k} : task'[j] = task[j]
      /\ task'[k].req = r
  BY DEF SetSession, Goto, TypeOK, TaskType, TaskRecord
<1>4. marks \in [Req -> SUBSET Mark] BY DEF TypeOK, HistoryType
<1> HIDE DEF r
<1>5. /\ "stored" \in marks'[r] /\ "issued" \in marks'[r]
      /\ \A q \in Req : marks[q] \subseteq marks'[q]
      /\ \A q \in Req \ {r} : marks'[q] = marks[q]
  BY <1>1, <1>2, <1>4
<1>6. TellersStored'
  BY <1>1, <1>3, <1>5 DEF TellersStored, TypeOK, TaskType, TaskRecord
<1>7. StoredIsIssued' /\ ToldIsStored' /\ RelayStaysInSite'
  BY <1>2, <1>5 DEF StoredIsIssued, ToldIsStored, RelayStaysInSite
<1>8. QED BY <1>6, <1>7

\* The certificate goes to the callback of an enrolled site of its rp_id, which
\* is of that site; or to nobody.
LEMMA RelayInvRelayCert ==
    ASSUME TypeOK, SiteInv, RelayInv, NEW k \in Task, RelayCert(k)
    PROVE  RelayInv'
<1> USE FrameType DEF RelayInv
<1> DEFINE r == task[k].req
<1>1. r # None /\ "stored" \in marks[r] /\ r \in Req
  BY DEF TellersStored, TellPcs, RelayCert, TypeOK, TaskType, TaskRecord
<1>2. UNCHANGED <<marks, req, presented>> BY DEF RelayCert
<1>3. /\ \A j \in Task \ {k} : task'[j] = task[j]
      /\ task'[k].req = r
  BY DEF RelayCert, Goto, TypeOK, TaskType, TaskRecord
<1>4. delivered \in [Req -> SUBSET Origin] BY DEF TypeOK, HistoryType
<1> HIDE DEF r
<1>5. TellersStored'
  BY <1>1, <1>2, <1>3 DEF TellersStored
<1>6. \A q \in Req \ {r} : delivered'[q] = delivered[q]
  BY <1>4 DEF RelayCert, r
<1>7. \A o \in delivered'[r] : o \in delivered[r] \/ RpOf[o] = RpOf[req[r].origin]
  BY <1>1, <1>4 DEF RelayCert, r, SitesOfRp, SiteInv, CallbackInv, OwnCallbacks
<1>8. StoredIsIssued' /\ ToldIsStored' /\ RelayStaysInSite'
  BY <1>1, <1>2, <1>6, <1>7 DEF StoredIsIssued, ToldIsStored, RelayStaysInSite
<1>9. QED BY <1>5, <1>8

\* A page is notified of a stored certificate, or nobody is there any more.
LEMMA RelayInvAnnounce ==
    ASSUME TypeOK, RelayInv, NEW k \in Task, NEW t \in Tab, Announce(k, t)
    PROVE  RelayInv'
<1> USE FrameType DEF RelayInv
<1> DEFINE r == task[k].req
<1>1. "stored" \in marks[r] /\ r \in Req
  BY DEF TellersStored, TellPcs, Announce, TypeOK, TaskType, TaskRecord
<1>2. /\ UNCHANGED <<req, delivered>>
      /\ \A q \in Req \ {r} : presented'[q] = presented[q]
  BY DEF Announce, TypeOK, HistoryType
<1>3. \A q \in Req : marks[q] \subseteq marks'[q] /\ marks'[q] \ marks[q] \subseteq {"announced", "returned"}
  <2>1. ASSUME NEW new \in SUBSET {"announced", "returned"}, Record(r, new)
        PROVE  \A q \in Req : marks[q] \subseteq marks'[q]
                              /\ marks'[q] \ marks[q] \subseteq {"announced", "returned"}
    BY <2>1 DEF Record, TypeOK, HistoryType
  <2>2. \E new \in SUBSET {"announced", "returned"} : Record(r, new)
    BY DEF Announce, EndSubmit
  <2>3. QED BY <2>1, <2>2
<1>4. \A j \in Task : task'[j].pc \in TellPcs => task'[j] = task[j]
  <2>1. CASE Finish(k) BY <2>1 DEF Finish, Idle, TellPcs
  <2>2. CASE NextEntry(k) BY <2>2 DEF NextEntry, Idle, TellPcs
  <2>3. QED BY <2>1, <2>2 DEF Announce, EndSubmit
<1> HIDE DEF r
<1>5. TellersStored'
  BY <1>3, <1>4 DEF TellersStored, TypeOK, TaskType, TaskRecord
<1>6. StoredIsIssued' /\ ToldIsStored' /\ RelayStaysInSite'
  BY <1>1, <1>2, <1>3 DEF StoredIsIssued, ToldIsStored, RelayStaysInSite
<1>7. QED BY <1>5, <1>6

\* What the environment does is silent.
LEMMA EnvironmentSilent ==
    ASSUME TypeOK, Environment
    PROVE  Silent
<1> USE FrameType DEF Silent
<1>1. UNCHANGED <<delivered, presented>>
  BY DEF Environment, Tick, WorkerEnds, ClearSessions, Navigate, RefuseOrigin, VerifyPresence, CloseTab,
         AlarmFires, Activate, BrowserStarts, SiteDetected, EnrollRequest, RevokeSite, histVars
<1>2. \A r \in Req : "stored" \in marks'[r] => "stored" \in marks[r]
  <2>1. ASSUME NEW q, Record(q, {"asked", "error", "returned"}) \/ Record(q, {"asked"})
        PROVE  \A r \in Req : "stored" \in marks'[r] => "stored" \in marks[r]
    BY <2>1 DEF Record
  <2>2. CASE UNCHANGED marks BY <2>2
  <2>3. QED
    BY <2>1, <2>2 DEF Environment, Tick, WorkerEnds, ClearSessions, Navigate, RefuseOrigin, VerifyPresence,
         CloseTab, AlarmFires, Activate, BrowserStarts, SiteDetected, EnrollRequest, RevokeSite,
         histVars
<1>3. \A j \in Task : task'[j].pc \in TellPcs => task'[j] = task[j]
  <2>1. ASSUME NEW k \in Task, NEW new, new.pc \notin TellPcs, task' = [task EXCEPT ![k] = new]
        PROVE  \A j \in Task : task'[j].pc \in TellPcs => task'[j] = task[j]
    BY <2>1
  <2>2. Idle.pc \notin TellPcs
        /\ [Idle EXCEPT !.fn = "recover", !.pc = "scan"].pc \notin TellPcs
    BY DEF Idle, TellPcs
  <2>3. CASE WorkerEnds \/ \E k \in Task : BrowserStarts(k)
    BY <2>2, <2>3 DEF WorkerEnds, BrowserStarts
  <2>4. ASSUME NEW k \in Task,
               \/ \E r \in Req, t \in Tab : VerifyPresence(k, r, t)
               \/ \E t \in Tab : CloseTab(k, t) \/ EnrollRequest(k, t)
               \/ AlarmFires(k) \/ Activate(k) \/ \E o \in Origin : RevokeSite(k, o)
        PROVE  \A j \in Task : task'[j].pc \in TellPcs => task'[j] = task[j]
    BY <2>1, <2>4 DEF VerifyPresence, CloseTab, EnrollRequest, AlarmFires, Activate, RevokeSite,
                      Idle, TellPcs
  <2>5. ASSUME NEW k \in Task, NEW t \in Tab, NEW u, SiteDetected(k, t, u)
        PROVE  \A j \in Task : task'[j].pc \in TellPcs => task'[j] = task[j]
    BY <2>1, <2>5 DEF SiteDetected, Idle, TellPcs
  <2>6. QED
    BY <2>3, <2>4, <2>5 DEF Environment, Tick, ClearSessions, Navigate, RefuseOrigin
<1>4. QED BY <1>1, <1>2, <1>3

\* RelayInv is kept by every step.
LEMMA RelayInvKept ==
    ASSUME TypeOK, SiteInv, SessionInv, RelayInv, [Next]_vars
    PROVE  RelayInv'
<1>1. Grows BY HistoryGrows
<1>2. CASE UNCHANGED vars
  BY <1>1, <1>2, RelayInvSilent DEF vars, histVars, Silent
<1>3. CASE Environment
  BY <1>1, <1>3, EnvironmentSilent, RelayInvSilent
<1>4. ASSUME NEW k \in Task, Resume(k) PROVE RelayInv'
  BY <1>1, <1>4, OtherStepsSilent, RelayInvSilent, RelayInvSetSession, RelayInvRelayCert,
     RelayInvAnnounce
<1>5. QED BY <1>2, <1>3, <1>4 DEF Next

\* RelayInv is an invariant.
LEMMA RelayInvAlways == Spec => []RelayInv
<1>1. Init => SessionInv BY SessionInvInit
<1>2. TypeOK /\ SessionInv /\ [Next]_vars => SessionInv' BY SessionInvKept
<1>3. Init => RelayInv BY RelayInvInit
<1>4. TypeOK /\ SiteInv /\ SessionInv /\ RelayInv /\ [Next]_vars => RelayInv'
  BY RelayInvKept
<1>5. QED BY <1>1, <1>2, <1>3, <1>4, TypeCorrect, SiteInvAlways, PTL DEF Spec

\* A certificate is only ever relayed to callbacks of origins that share the
\* eTLD+1 it was issued for, whatever the list of sites and the pending
\* callbacks went through meanwhile (relayCertToRP, validateCallbackUrl).
THEOREM RelayIsInSite == Spec => []RelayStaysInSite
<1>1. RelayInv => RelayStaysInSite BY DEF RelayInv
<1>2. QED BY <1>1, RelayInvAlways, PTL

\* A page is only notified, and a session only stored, once the server has
\* issued the certificate and its signature was verified, also for the entries
\* that recoverInflight submits again (submitAttestation).
THEOREM NotifiedIsIssued == Spec => []NotifiedOnlyIssued
<1>1. RelayInv => NotifiedOnlyIssued
  BY DEF RelayInv, StoredIsIssued, ToldIsStored, NotifiedOnlyIssued
<1>2. QED BY <1>1, RelayInvAlways, PTL

-----------------------------------------------------------------------------
\* The refinement

Same == UNCHANGED <<Phases, Askers>>

\* The marks a phase depends on.
PhaseMarks == {"asked", "uv", "issued"}

-----------------------------------------------------------------------------
\* A step that records nothing a phase depends on keeps the phases.
LEMMA QuietRecord ==
    ASSUME TypeOK, NEW q, NEW new, new \cap PhaseMarks = {}, Record(q, new)
    PROVE  UNCHANGED Phases
<1>1. marks \in [Req -> SUBSET Mark] BY DEF TypeOK, HistoryType
<1>2. \A r \in Req, m \in PhaseMarks : m \in marks'[r] <=> m \in marks[r]
  BY <1>1 DEF Record, PhaseMarks
<1>3. \A r \in Req : PhaseOf(marks'[r]) = PhaseOf(marks[r])
  BY <1>2 DEF PhaseOf, PhaseMarks
<1>4. QED BY <1>3 DEF Phases

\* A step that keeps the tab and the origin of every request keeps who asked.
LEMMA SameAskers ==
    ASSUME \A r \in Req : req'[r].tab = req[r].tab /\ req'[r].origin = req[r].origin
    PROVE  UNCHANGED Askers
BY DEF Askers

\* The steps that advance no phase keep the phases and who asked.
Advancing(k) ==
    \/ WebAuthnOk(k)
    \/ \E reply \in Reply, issues \in BOOLEAN :
         AttestReply(k, reply, issues) \/ VerifyThrows(k, issues) \/ RecoverThrows(k, issues)

\* What every other step of a handler leaves alone of the life of a certificate.
LEMMA ResumeSame ==
    ASSUME TypeOK, NEW k \in Task, Resume(k), ~Advancing(k)
    PROVE  Same
<1> USE FrameType
<1>1. CASE UNCHANGED <<req, marks>>
  BY <1>1 DEF Same, Phases, Askers
<1>2. ASSUME NEW q, NEW new, new \cap PhaseMarks = {}, Record(q, new), UNCHANGED req
      PROVE  Same
  BY <1>2, QuietRecord DEF Same, Askers
<1>3. ASSUME NEW q, NEW n, UNCHANGED marks,
             \/ req' = [req EXCEPT ![q].deadline = n]
             \/ req' = [req EXCEPT ![q].started = n]
      PROVE  Same
  <2>1. \A r \in Req : req'[r].tab = req[r].tab /\ req'[r].origin = req[r].origin
    BY <1>3 DEF ReqData
  <2>2. QED BY <1>3, <2>1, SameAskers DEF Same, Phases
<1>4. ASSUME NEW new \in {{}, {"error"}, {"announced"}}, EndSubmit(k, new), UNCHANGED req
      PROVE  Same
  <2>1. \E q, more : more \cap PhaseMarks = {} /\ Record(q, more)
    BY <1>4 DEF EndSubmit, PhaseMarks
  <2>2. QED BY <1>2, <1>4, <2>1
<1>5. CASE AttestStep(k)
  <2>1. CASE ChallengeArrives(k) \/ SetInflight(k)
    BY <1>3, <2>1 DEF ChallengeArrives, SetInflight
  <2>2. CASE ChallengeFails(k) \/ LookupCredential(k) \/ WebAuthnFails(k)
             \/ SetSession(k) \/ RelayCert(k)
    BY <1>1, <1>2, <2>2
       DEF ChallengeFails, LookupCredential, WebAuthnFails, FailVerify, SetSession, RelayCert,
           histVars, PhaseMarks
  <2>3. CASE ClearInflight(k) \/ RemoveRevoked(k)
    BY <1>1, <1>4, <2>3 DEF ClearInflight, AfterClear, RemoveRevoked
  <2>4. ASSUME NEW t \in Tab, Announce(k, t) PROVE Same
    BY <1>4, <2>4 DEF Announce
  <2>5. Replies \subseteq Reply BY AttestAssumption
  <2>6. "issued" \in Reply BY DEF Reply
  <2>7. QED BY <1>5, <2>1, <2>2, <2>3, <2>4, <2>5, <2>6 DEF AttestStep, Advancing
<1>6. CASE LifecycleStep(k) \/ EnrollStep(k) \/ GetSessions(k)
           \/ GetInflight(k) \/ GetSites(k) \/ GetPending(k)
  BY <1>1, <1>2, <1>6
     DEF LifecycleStep, RecoverScan, RecoverEntry, RecoverLast, PurgeInflight, PurgeSessions,
         ClearSession, EnrollStep, SetPending, FindSite, EnrollChallenge, CreateCredential,
         EnrollReply, ReadPending, ClearPending, AddSite, DeleteCredential, RemoveSite,
         GetSessions, GetInflight, GetSites, GetPending, histVars, PhaseMarks
<1>7. QED BY <1>5, <1>6 DEF Resume

-----------------------------------------------------------------------------
\* Every step that advances nothing and tells nobody changes at most what is
\* held, and what is held is owned.
LEMMA HoldStep ==
    ASSUME TypeOK', SessionInv', Same, UNCHANGED <<delivered, presented>>
    PROVE  Cert!Hold
<1>1. sessions' \in [Tab -> Req \cup {None}]
  BY DEF TypeOK, StoreType, EntryMap
<1>2. ASSUME NEW t \in Tab, sessions'[t] # None
      PROVE  Phases[sessions'[t]] = "issued" /\ Askers[sessions'[t]].tab = t
  <2>1. sessions'[t] \in Req BY <1>1, <1>2
  <2>2. req'[sessions'[t]].tab = t /\ "issued" \in marks'[sessions'[t]]
    BY <1>2 DEF SessionInv, MapsInv, Holds, Issued
  <2>3. Phases'[sessions'[t]] = "issued" BY <2>1, <2>2 DEF Phases, PhaseOf
  <2>4. Askers'[sessions'[t]].tab = t BY <2>1, <2>2 DEF Askers
  <2>5. QED BY <2>3, <2>4 DEF Same
<1>3. QED BY <1>1, <1>2 DEF Same, Cert!Hold, Cert!Owns

\* A step that records news of one request moves the phase of no other.
LEMMA AdvanceStep ==
    ASSUME TypeOK, NEW r \in Req, NEW new, Record(r, new),
           UNCHANGED <<sessions, delivered, presented>>
    PROVE  Cert!Advance(r, PhaseOf(marks[r]), PhaseOf(marks[r] \cup new))
<1>1. marks \in [Req -> SUBSET Mark] BY DEF TypeOK, HistoryType
<1>2. marks' = [marks EXCEPT ![r] = marks[r] \cup new] BY DEF Record
<1>3. Phases' = [Phases EXCEPT ![r] = PhaseOf(marks[r] \cup new)]
  BY <1>1, <1>2 DEF Phases
<1>4. Phases[r] = PhaseOf(marks[r]) BY DEF Phases
<1>5. QED BY <1>3, <1>4 DEF Cert!Advance

\* A page asks, whether its request is refused at once or not.
LEMMA AskStep ==
    ASSUME TypeOK, NEW r \in Req, NEW t \in Tab,
           RefuseOrigin(r, t) \/ \E k \in Task : VerifyPresence(k, r, t)
    PROVE  Cert!Next
<1>1. PICK o \in Origin : o = page[t]
  BY DEF TypeOK, EnvType, RefuseOrigin, VerifyPresence
<1>2. PICK new \in {{"asked", "error", "returned"}, {"asked"}} : Record(r, new)
  BY DEF RefuseOrigin, VerifyPresence
<1>3. /\ marks[r] = {} /\ UNCHANGED <<sessions, delivered, presented>>
      /\ req' = [req EXCEPT ![r].tab = t, ![r].origin = o]
  BY <1>1 DEF RefuseOrigin, VerifyPresence, storeVars
<1>4. PhaseOf(marks[r]) = "none" /\ PhaseOf(marks[r] \cup new) = "asked"
  BY <1>2, <1>3 DEF PhaseOf
<1>5. Cert!Advance(r, PhaseOf(marks[r]), PhaseOf(marks[r] \cup new))
  BY <1>2, <1>3, AdvanceStep
<1>6. req \in [Req -> ReqData] BY DEF TypeOK, HistoryType
<1>7. /\ \A q \in Req \ {r} : req'[q] = req[q]
      /\ req'[r].tab = t /\ req'[r].origin = o
  BY <1>3, <1>6 DEF ReqData
<1>8. Askers' = [Askers EXCEPT ![r] = [tab |-> t, origin |-> o]]
  BY <1>7 DEF Askers
<1>9. Cert!Ask(r, t, o) BY <1>4, <1>5, <1>8 DEF Cert!Ask
<1>10. QED BY <1>9 DEF Cert!Next

\* The user approves, or has approved; the server issues, or does not.
LEMMA AdvancingStep ==
    ASSUME TypeOK, TypeOK', SessionInv, SessionInv', NEW k \in Task, Advancing(k)
    PROVE  Cert!Next
<1> USE FrameType
<1> DEFINE r == task[k].req
<1>1. r \in Req /\ (WebAuthnOk(k) => "asked" \in marks[r])
      /\ (~WebAuthnOk(k) => "uv" \in marks[r])
  <2>1. task[k].req \in Req \cup {None} BY DEF TypeOK, TaskType, TaskRecord
  <2>2. HandlerInv(task[k], req, marks) BY DEF SessionInv
  <2>3. task[k].pc = "webauthn" => task[k].req # None /\ "asked" \in marks[task[k].req]
    BY <2>2 DEF HandlerInv, AskedPcs, WorksFor
  <2>4. task[k].pc = "post" => task[k].req # None /\ "uv" \in marks[task[k].req]
    BY <2>2 DEF HandlerInv, VerifiedPcs, Verified, WorksFor
  <2>5. WebAuthnOk(k) => task[k].pc = "webauthn" BY DEF WebAuthnOk
  <2>6. ~WebAuthnOk(k) => task[k].pc = "post"
    BY DEF Advancing, AttestReply, VerifyThrows, RecoverThrows
  <2>7. QED BY <2>1, <2>3, <2>4, <2>5, <2>6
<1>2. UNCHANGED <<sessions, delivered, presented>> /\ UNCHANGED Askers
  <2>1. UNCHANGED <<sessions, delivered, presented>>
    BY DEF Advancing, WebAuthnOk, AttestReply, VerifyThrows, RecoverThrows, storeVars
  <2>2. req' = req \/ \E n : req' = [req EXCEPT ![r].expiry = n]
    BY DEF Advancing, WebAuthnOk, AttestReply, VerifyThrows, RecoverThrows, ServerActs
  <2>3. \A q \in Req : req'[q].tab = req[q].tab /\ req'[q].origin = req[q].origin
    <3>1. req \in [Req -> ReqData] BY DEF TypeOK, HistoryType
    <3>2. CASE req' = req BY <3>2
    <3>3. ASSUME NEW n, req' = [req EXCEPT ![r].expiry = n]
          PROVE  \A q \in Req : req'[q].tab = req[q].tab /\ req'[q].origin = req[q].origin
      <4>1. r \in Req BY <1>1
      <4> HIDE DEF r
      <4>2. QED BY <3>1, <3>3, <4>1 DEF ReqData
    <3>4. QED BY <2>2, <3>2, <3>3
  <2>4. QED BY <2>1, <2>3, SameAskers
<1>3. ASSUME UNCHANGED Phases PROVE Cert!Next
  BY <1>2, <1>3, HoldStep DEF Same, Cert!Next
<1> HIDE DEF r
<1>4. CASE WebAuthnOk(k)
  <2>1. Record(r, {"uv"}) BY <1>4 DEF WebAuthnOk, r
  <2>2. Cert!Advance(r, PhaseOf(marks[r]), PhaseOf(marks[r] \cup {"uv"}))
    BY <1>1, <1>2, <2>1, AdvanceStep
  <2>3. CASE marks[r] \cap {"uv", "issued"} # {}
    <3>1. PhaseOf(marks[r] \cup {"uv"}) = PhaseOf(marks[r]) BY <2>3 DEF PhaseOf
    <3>2. UNCHANGED Phases BY <2>2, <3>1 DEF Cert!Advance, Phases
    <3>3. QED BY <1>3, <3>2
  <2>4. CASE marks[r] \cap {"uv", "issued"} = {}
    <3>1. PhaseOf(marks[r]) = "asked" /\ PhaseOf(marks[r] \cup {"uv"}) = "approved"
      BY <1>1, <1>4, <2>4 DEF PhaseOf
    <3>2. Cert!Approve(r) BY <1>2, <2>2, <3>1 DEF Cert!Approve
    <3>3. QED BY <1>1, <3>2 DEF Cert!Next
  <2>5. QED BY <2>3, <2>4
<1>5. ASSUME NEW issues \in BOOLEAN, NEW told \in {{}, {"error", "returned"}},
             ServerActs(r, issues, told), ~WebAuthnOk(k)
      PROVE  Cert!Next
  <2>1. CASE ~issues
    <3>1. Record(r, told \cup {"posted"} \cup {}) BY <1>5, <2>1 DEF ServerActs
    <3>2. QED BY <1>3, <3>1, QuietRecord DEF PhaseMarks
  <2>2. CASE issues
    <3> DEFINE new == told \cup {"posted"} \cup {"issued"}
    <3>1. Record(r, new) /\ "issued" \notin marks[r] BY <1>5, <2>2 DEF ServerActs
    <3>2. PhaseOf(marks[r]) = "approved" /\ PhaseOf(marks[r] \cup new) = "issued"
      BY <1>1, <1>5, <3>1 DEF PhaseOf
    <3> HIDE DEF new
    <3>3. Cert!Advance(r, PhaseOf(marks[r]), PhaseOf(marks[r] \cup new))
      BY <1>1, <1>2, <3>1, AdvanceStep
    <3>4. Cert!Issue(r) BY <1>2, <3>2, <3>3 DEF Cert!Issue
    <3>5. QED BY <1>1, <3>4 DEF Cert!Next
  <2>3. QED BY <2>1, <2>2
<1>6. QED BY <1>4, <1>5 DEF Advancing, AttestReply, VerifyThrows, RecoverThrows, r

\* The handlers that tell: they hold the request of an issued certificate, and
\* the callback is of the site it was issued for.
LEMMA TellStep ==
    ASSUME TypeOK, TypeOK', SessionInv', SiteInv, RelayInv, NEW k \in Task,
           RelayCert(k) \/ \E t \in Tab : Announce(k, t)
    PROVE  Cert!Next
<1> USE FrameType
<1> DEFINE r == task[k].req
<1>1. r \in Req /\ Phases[r] = "issued" /\ Askers[r].origin = req[r].origin
  <2>1. task[k].req \in Req \cup {None} BY DEF TypeOK, TaskType, TaskRecord
  <2>2. task[k].pc \in TellPcs BY DEF RelayCert, Announce, TellPcs
  <2>3. r \in Req /\ "stored" \in marks[r]
    BY <2>1, <2>2 DEF RelayInv, TellersStored
  <2>4. "issued" \in marks[r] BY <2>3 DEF RelayInv, StoredIsIssued
  <2>5. QED BY <2>3, <2>4 DEF Phases, PhaseOf, Askers
<1>2. Resume(k) /\ ~Advancing(k)
  BY DEF Resume, AttestStep, Advancing, WebAuthnOk, AttestReply, VerifyThrows, RecoverThrows,
         RelayCert, Announce
<1>3. Same BY <1>2, ResumeSame
<1>4. ASSUME UNCHANGED <<delivered, presented>> PROVE Cert!Next
  BY <1>3, <1>4, HoldStep DEF Cert!Next
<1>5. UNCHANGED <<Phases, Askers, sessions>>
  BY <1>3 DEF Same, RelayCert, Announce, storeVars
<1>6. CASE RelayCert(k)
  <2>1. CASE UNCHANGED delivered BY <1>4, <1>6, <2>1 DEF RelayCert
  <2>2. ASSUME NEW s \in SitesOfRp(RpOf[req[r].origin]), s.cb # None,
               delivered' = [delivered EXCEPT ![r] = @ \cup {s.cb}]
        PROVE  Cert!Next
    <3>1. s \in sites /\ RpOf[s.origin] = RpOf[req[r].origin] /\ s.cb = s.origin
      BY <2>2 DEF SitesOfRp, SiteInv, CallbackInv, OwnCallbacks
    <3>2. s.cb \in Origin BY <3>1 DEF TypeOK, StoreType, Site
    <3>3. Cert!Relay(r, s.cb)
      BY <1>1, <1>5, <1>6, <2>2, <3>1 DEF Cert!Relay, RelayCert
    <3>4. QED BY <1>1, <3>2, <3>3 DEF Cert!Next
  <2>3. QED BY <1>6, <2>1, <2>2 DEF RelayCert
<1>7. ASSUME NEW t \in Tab, Announce(k, t) PROVE Cert!Next
  <2>1. CASE page[t] = None BY <1>4, <1>7, <2>1 DEF Announce
  <2>2. CASE page[t] # None
    <3>1. page[t] \in Origin BY <2>2 DEF TypeOK, EnvType
    <3>2. Cert!Show(r, page[t]) BY <1>1, <1>5, <1>7, <2>2 DEF Cert!Show, Announce
    <3>3. QED BY <1>1, <3>1, <3>2 DEF Cert!Next
  <2>3. QED BY <2>1, <2>2
<1>8. QED BY <1>6, <1>7

-----------------------------------------------------------------------------
\* Every step of the worker is a step of the life of a certificate.
LEMMA StepImplements ==
    ASSUME TypeOK, TypeOK', SessionInv, SessionInv', SiteInv, RelayInv, [Next]_vars
    PROVE  Cert!Next
<1>1. CASE UNCHANGED vars
  BY <1>1, HoldStep DEF vars, storeVars, histVars, Same, Phases, Askers, Cert!Next
<1>2. CASE Environment
  <2>1. UNCHANGED <<delivered, presented>> BY <1>2, EnvironmentSilent DEF Silent
  <2>2. ASSUME UNCHANGED <<req, marks>> PROVE Cert!Next
    BY <2>1, <2>2, HoldStep DEF Same, Phases, Askers, Cert!Next
  <2>3. ASSUME NEW r \in Req, NEW t \in Tab,
               RefuseOrigin(r, t) \/ \E k \in Task : VerifyPresence(k, r, t)
        PROVE  Cert!Next
    BY <2>3, AskStep
  <2>4. QED
    BY <1>2, <2>2, <2>3
       DEF Environment, Tick, WorkerEnds, ClearSessions, Navigate, CloseTab, AlarmFires,
           Activate, BrowserStarts, SiteDetected, EnrollRequest, RevokeSite, histVars
<1>3. ASSUME NEW k \in Task, Resume(k) PROVE Cert!Next
  <2>1. CASE Advancing(k) BY <2>1, AdvancingStep
  <2>2. CASE RelayCert(k) \/ \E t \in Tab : Announce(k, t) BY <2>2, TellStep
  <2>3. CASE /\ ~Advancing(k) /\ ~RelayCert(k) /\ ~\E t \in Tab : Announce(k, t)
    <3>1. Same BY <1>3, <2>3, ResumeSame
    <3>2. UNCHANGED <<delivered, presented>>
      <4>1. CASE SetSession(k) BY <4>1 DEF SetSession
      <4>2. CASE ~SetSession(k) BY <1>3, <2>3, <4>2, OtherStepsSilent DEF Silent
      <4>3. QED BY <4>1, <4>2
    <3>3. QED BY <3>1, <3>2, HoldStep DEF Cert!Next
  <2>4. QED BY <2>1, <2>2, <2>3
<1>4. QED BY <1>1, <1>2, <1>3 DEF Next

\* The worker begins where the life of a certificate begins.
LEMMA InitImplements ==
    ASSUME Init
    PROVE  Cert!Init
<1>1. Phases = [r \in Req |-> "none"] BY DEF Init, Phases, PhaseOf
<1>2. Askers = [r \in Req |-> Cert!NoAsker] BY DEF Init, NoReqData, Askers, Cert!NoAsker
<1>3. QED BY <1>1, <1>2 DEF Init, Cert!Init, NoEntries

\* The service worker implements the life of a certificate, for any tabs,
\* origins, requests, answers and interleaving of its handlers: asked, approved
\* and issued in this order, held only for the tab that asked, relayed only
\* within its site (background.js, hpp-storage.js).
THEOREM WorkerImplements == Spec => ImplementsCertLife
<1>1. Init => Cert!Init BY InitImplements
<1>2. Init => SessionInv BY SessionInvInit
<1>3. TypeOK /\ SessionInv /\ [Next]_vars => SessionInv' BY SessionInvKept
<1>4. /\ TypeOK /\ TypeOK' /\ SessionInv /\ SessionInv' /\ SiteInv /\ RelayInv
      /\ [Next]_vars
      => [Cert!Next]_(Cert!vars)
  BY StepImplements
<1>5. QED
  BY <1>1, <1>2, <1>3, <1>4, TypeCorrect, SiteInvAlways, RelayInvAlways, PTL
     DEF Spec, ImplementsCertLife, Cert!Spec
=============================================================================
