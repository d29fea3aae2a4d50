--------------------------- MODULE HppSessionProofs -------------------------
(***************************************************************************)
(* Proofs about the requests of the tabs.  First that the session of a tab *)
(* is one its own user earned.  A session map may be written back from any *)
(* copy a suspended handler holds, and an entry may be submitted again from*)
(* the inflight map or from the snapshot of a recovery, so the inductive   *)
(* invariant speaks of all of those.  Then that a page is not told two     *)
(* verdicts: at most one handler of onVerifyPresence is at work for a      *)
(* request, and it speaks once, when it returns; whoever else speaks of the*)
(* request is a recovery.                                                  *)
(***************************************************************************)
EXTENDS HppWorkerProofs

\* Every entry of the map is a request of its tab, with these marks.
Holds(map, need, rq, mk) ==
    \A t \in Tab : map[t] # None => rq[map[t]].tab = t /\ need \subseteq mk[map[t]]

Verified == {"uv"}
Issued   == {"uv", "issued"}

MapsInv ==
    /\ Holds(sessions, Issued, req, marks) /\ Holds(inflight, Verified, req, marks)
    /\ \A k \in Task : /\ Holds(seenSessions[k], Issued, req, marks)
                       /\ Holds(seenInflight[k], Verified, req, marks)
                       /\ Holds(task[k].plan, Verified, req, marks)

\* A handler tk works for a request of its own tab, with these marks.
WorksFor(tk, need, rq, mk) ==
    tk.req # None /\ rq[tk.req].tab = tk.tab /\ need \subseteq mk[tk.req]

AskedPcs    == {"challenge", "lookup", "webauthn"}
VerifiedPcs == {"setInflight", "post"}
GotIssued(tk) == tk.pc = "setSession" \/ (tk.pc = "clearInflight" /\ tk.resp = "issued")

HandlerInv(tk, rq, mk) ==
    /\ tk.pc \in AskedPcs => WorksFor(tk, {"asked"}, rq, mk)
    /\ tk.pc \in VerifiedPcs => WorksFor(tk, Verified, rq, mk)
    /\ GotIssued(tk) => WorksFor(tk, Issued, rq, mk)
    /\ tk.pc = "clearSession" => tk.resp = "none"

SessionInv == MapsInv /\ \A k \in Task : HandlerInv(task[k], req, marks)

-----------------------------------------------------------------------------
\* An empty map holds nothing wrong.
LEMMA NoEntriesHold ==
    ASSUME NEW need, NEW rq, NEW mk
    PROVE  Holds(NoEntries, need, rq, mk)
BY DEF Holds, NoEntries

\* SessionInv holds at first.
LEMMA SessionInvInit ==
    ASSUME Init
    PROVE  SessionInv
<1>1. Idle.plan = NoEntries /\ Idle.pc = "idle"
  BY DEF Idle
<1>2. MapsInv BY <1>1, NoEntriesHold DEF Init, MapsInv
<1>3. \A k \in Task : HandlerInv(task[k], req, marks)
  BY <1>1 DEF Init, HandlerInv, AskedPcs, VerifiedPcs, GotIssued
<1>4. QED BY <1>2, <1>3 DEF SessionInv

\* What a step may do to the requests: marks are only added, and a request that
\* has been asked for keeps its tab and its origin.
Grows == \A r \in Req :
    /\ marks[r] \subseteq marks'[r]
    /\ marks[r] # {} => req'[r].tab = req[r].tab /\ req'[r].origin = req[r].origin

\* Every step keeps what has happened to a request and who asked for it.
LEMMA HistoryGrows ==
    ASSUME TypeOK, [Next]_vars
    PROVE  Grows
<1> USE FrameType DEF Grows
<1>1. CASE UNCHANGED <<req, marks>>
  BY <1>1
<1>2. ASSUME NEW q, NEW new, Record(q, new), UNCHANGED req PROVE Grows
  BY <1>2 DEF Record
<1>3. ASSUME NEW q, NEW new, NEW n,
             \/ req' = [req EXCEPT ![q].deadline = n]
             \/ req' = [req EXCEPT ![q].started = n]
             \/ req' = [req EXCEPT ![q].expiry = n],
             Record(q, new) \/ UNCHANGED marks
      PROVE  Grows
  <2>1. \A r \in Req : req'[r].tab = req[r].tab /\ req'[r].origin = req[r].origin
    BY <1>3 DEF ReqData
  <2>2. QED BY <1>3, <2>1 DEF Record
<1>4. ASSUME NEW q, NEW new, NEW t, NEW o, marks[q] = {}, Record(q, new),
             req' = [req EXCEPT ![q].tab = t, ![q].origin = o]
      PROVE  Grows
  BY <1>4 DEF Record
<1>5. ASSUME NEW k \in Task, NEW new, EndSubmit(k, new), UNCHANGED req PROVE Grows
  BY <1>2, <1>5 DEF EndSubmit
<1>6. ASSUME NEW k \in Task, AttestStep(k) PROVE Grows
  <2>1. CASE ChallengeArrives(k) \/ SetInflight(k)
    BY <1>3, <2>1 DEF ChallengeArrives, SetInflight
  <2>2. CASE ChallengeFails(k) \/ LookupCredential(k) \/ WebAuthnOk(k) \/ WebAuthnFails(k)
             \/ SetSession(k) \/ RelayCert(k)
    BY <1>1, <1>2, <2>2
       DEF ChallengeFails, LookupCredential, WebAuthnOk, WebAuthnFails, FailVerify,
           SetSession, RelayCert, histVars
  <2>3. ASSUME NEW reply, NEW issues \in BOOLEAN,
               \/ AttestReply(k, reply, issues)
               \/ VerifyThrows(k, issues) \/ RecoverThrows(k, issues)
        PROVE  Grows
    BY <1>2, <1>3, <2>3 DEF AttestReply, VerifyThrows, RecoverThrows, ServerActs
  <2>4. CASE ClearInflight(k) \/ RemoveRevoked(k)
    BY <1>1, <1>5, <2>4 DEF ClearInflight, AfterClear, RemoveRevoked
  <2>5. ASSUME NEW t \in Tab, Announce(k, t) PROVE Grows
    BY <1>5, <2>5 DEF Announce
  <2>6. QED BY <1>6, <2>1, <2>2, <2>3, <2>4, <2>5 DEF AttestStep
<1>7. ASSUME NEW r \in Req, NEW t \in Tab,
             RefuseOrigin(r, t) \/ \E k \in Task : VerifyPresence(k, r, t)
      PROVE  Grows
  BY <1>4, <1>7 DEF RefuseOrigin, VerifyPresence
<1>8. ASSUME NEW k \in Task, LifecycleStep(k) \/ EnrollStep(k) \/ GetSessions(k)
                              \/ GetInflight(k) \/ GetSites(k) \/ GetPending(k)
      PROVE  Grows
  BY <1>1, <1>2, <1>8
     DEF LifecycleStep, RecoverScan, RecoverEntry, RecoverLast, PurgeInflight, PurgeSessions,
         ClearSession, EnrollStep, SetPending, FindSite, EnrollChallenge, CreateCredential,
         EnrollReply, ReadPending, ClearPending, AddSite, DeleteCredential, RemoveSite,
         GetSessions, GetInflight, GetSites, GetPending, histVars
<1>9. CASE Environment
  BY <1>1, <1>7, <1>9
     DEF Environment, Tick, WorkerEnds, ClearSessions, Navigate, CloseTab, AlarmFires, Activate,
         BrowserStarts, SiteDetected, EnrollRequest, RevokeSite, histVars
<1>10. QED BY <1>1, <1>6, <1>8, <1>9 DEF Next, Resume, vars, histVars

\* What held of a map holds after the step of every map with some of its entries.
LEMMA HoldsKept ==
    ASSUME Grows, NEW need \in {Verified, Issued}, NEW m \in EntryMap,
           Holds(m, need, req, marks),
           NEW n, \A t \in Tab : n[t] \in {None, m[t]}
    PROVE  Holds(n, need, req', marks')
BY DEF Grows, Holds, EntryMap, Verified, Issued

\* What held of a handler that does not move still holds.
LEMMA HandlerKept ==
    ASSUME Grows, NEW tk \in TaskRecord, HandlerInv(tk, req, marks)
    PROVE  HandlerInv(tk, req', marks')
<1>1. ASSUME NEW need, need # {}, WorksFor(tk, need, req, marks)
      PROVE  WorksFor(tk, need, req', marks')
  BY <1>1 DEF WorksFor, Grows, TaskRecord
<1>2. QED BY <1>1 DEF HandlerInv, Verified, Issued

\* A step of the handler k: what it must establish.
LEMMA SessionInvStep ==
    ASSUME TypeOK, SessionInv, Grows, NEW k \in Task,
           \A j \in Task \ {k} : /\ task'[j] = task[j]
                                 /\ seenSessions'[j] = seenSessions[j]
                                 /\ seenInflight'[j] = seenInflight[j],
           Holds(sessions', Issued, req', marks'),
           Holds(inflight', Verified, req', marks'),
           Holds(seenSessions'[k], Issued, req', marks'),
           Holds(seenInflight'[k], Verified, req', marks'),
           Holds(task'[k].plan, Verified, req', marks'),
           HandlerInv(task'[k], req', marks')
    PROVE  SessionInv'
<1> USE FrameType DEF TypeOK
<1>1. \A j \in Task \ {k} : HandlerInv(task'[j], req', marks')
  BY HandlerKept DEF SessionInv
<1>2. \A j \in Task \ {k} : /\ Holds(seenSessions'[j], Issued, req', marks')
                            /\ Holds(seenInflight'[j], Verified, req', marks')
                            /\ Holds(task'[j].plan, Verified, req', marks')
  <2>1. \A j \in Task : /\ seenSessions[j] \in EntryMap /\ seenInflight[j] \in EntryMap
                        /\ task[j].plan \in EntryMap
    BY DEF SeenType, TaskRecord
  <2>2. ASSUME NEW m \in EntryMap, NEW need \in {Verified, Issued}, Holds(m, need, req, marks)
        PROVE  Holds(m, need, req', marks')
    BY <2>2, HoldsKept
  <2>3. QED BY <2>1, <2>2 DEF SessionInv, MapsInv
<1>3. MapsInv' BY <1>2 DEF MapsInv
<1>4. QED BY <1>1, <1>3 DEF SessionInv

\* The part of SessionInvStep that a step owes when it leaves a store alone.
LEMMA UnchangedHolds ==
    ASSUME TypeOK, SessionInv, Grows, NEW k \in Task
    PROVE  /\ UNCHANGED sessions => Holds(sessions', Issued, req', marks')
           /\ UNCHANGED inflight => Holds(inflight', Verified, req', marks')
           /\ UNCHANGED seenSessions => Holds(seenSessions'[k], Issued, req', marks')
           /\ UNCHANGED seenInflight => Holds(seenInflight'[k], Verified, req', marks')
           /\ task'[k].plan = task[k].plan => Holds(task'[k].plan, Verified, req', marks')
           /\ task'[k].plan = NoEntries => Holds(task'[k].plan, Verified, req', marks')
<1> USE FrameType DEF TypeOK
<1>1. ASSUME NEW m \in EntryMap, NEW need \in {Verified, Issued}, Holds(m, need, req, marks)
      PROVE  Holds(m, need, req', marks')
  BY <1>1, HoldsKept
<1>2. /\ seenSessions[k] \in EntryMap /\ seenInflight[k] \in EntryMap
      /\ task[k].plan \in EntryMap /\ sessions \in EntryMap /\ inflight \in EntryMap
  BY DEF SeenType, StoreType, TaskRecord
<1>3. QED BY <1>1, <1>2, NoEntriesHold DEF SessionInv, MapsInv

\* A step of the handler k alone, which stays right and keeps its plan or drops it.
Quiet(k) ==
    /\ \A j \in Task \ {k} : task'[j] = task[j]
    /\ task'[k].plan \in {task[k].plan, NoEntries}
    /\ HandlerInv(task'[k], req', marks')

QuietPcs == Pc \ (AskedPcs \cup VerifiedPcs \cup {"setSession", "clearInflight", "clearSession"})

\* The moves that lead to a step at which nothing is claimed are quiet.
LEMMA QuietMoves ==
    ASSUME TypeOK, NEW k \in Task
    PROVE  /\ \A pc \in QuietPcs : Goto(k, pc) => Quiet(k)
           /\ Finish(k) => Quiet(k)
           /\ NextEntry(k) => Quiet(k)
           /\ \A new : EndSubmit(k, new) => Quiet(k)
<1> USE FrameType
<1>1. \A tk : tk.pc \in QuietPcs => HandlerInv(tk, req', marks')
  BY DEF QuietPcs, HandlerInv, GotIssued
<1>2. \A pc \in QuietPcs : Goto(k, pc) => Quiet(k)
  <2>1. ASSUME NEW pc \in QuietPcs, Goto(k, pc) PROVE Quiet(k)
    <3>1. /\ task'[k].pc = pc /\ task'[k].plan = task[k].plan
          /\ \A j \in Task \ {k} : task'[j] = task[j]
      BY <2>1 DEF Goto, TaskRecord
    <3>2. QED BY <1>1, <3>1 DEF Quiet
  <2>2. QED BY <2>1
<1>3. Finish(k) => Quiet(k)
  <2>1. Idle.pc \in QuietPcs /\ Idle.plan = NoEntries
    BY DEF Idle, QuietPcs, Pc, AskedPcs, VerifiedPcs
  <2>2. QED BY <1>1, <2>1 DEF Finish, Quiet
<1>4. NextEntry(k) => Quiet(k)
  <2> DEFINE new == [Idle EXCEPT !.fn = "recover", !.pc = "recoverNext", !.plan = task[k].plan]
  <2>1. new.pc \in QuietPcs /\ new.plan = task[k].plan
    BY DEF Idle, QuietPcs, Pc, AskedPcs, VerifiedPcs
  <2>2. QED BY <1>1, <2>1 DEF NextEntry, Quiet
<1>5. QED BY <1>2, <1>3, <1>4 DEF EndSubmit

\* A quiet step that writes a part of what it read, or nothing.
LEMMA QuietStep ==
    ASSUME TypeOK, SessionInv, Grows, NEW k \in Task, Quiet(k),
           \/ UNCHANGED <<sessions, seenSessions>>
           \/ \E m : /\ WriteSessions(k, m)
                    /\ \A t \in Tab : m[t] \in {None, sessions[t]}
                                     \/ m[t] \in {None, seenSessions[k][t]},
           \/ UNCHANGED <<inflight, seenInflight>>
           \/ \E m : /\ WriteInflight(k, m)
                    /\ \A t \in Tab : m[t] \in {None, inflight[t]}
                                     \/ m[t] \in {None, seenInflight[k][t]}
    PROVE  SessionInv'
<1>1. /\ sessions \in EntryMap /\ inflight \in EntryMap
      /\ seenSessions \in [Task -> EntryMap] /\ seenInflight \in [Task -> EntryMap]
  BY DEF TypeOK, StoreType, SeenType
<1> DEFINE SessionsRight == /\ Holds(sessions', Issued, req', marks')
                            /\ Holds(seenSessions'[k], Issued, req', marks')
                            /\ \A j \in Task \ {k} : seenSessions'[j] = seenSessions[j]
           InflightRight == /\ Holds(inflight', Verified, req', marks')
                            /\ Holds(seenInflight'[k], Verified, req', marks')
                            /\ \A j \in Task \ {k} : seenInflight'[j] = seenInflight[j]
<1>2. SessionsRight
  <2>1. CASE UNCHANGED <<sessions, seenSessions>> BY <2>1, UnchangedHolds
  <2>2. ASSUME NEW m, WriteSessions(k, m),
               \A t \in Tab : m[t] \in {None, sessions[t]} \/ m[t] \in {None, seenSessions[k][t]}
        PROVE  SessionsRight
    <3>1. Holds(sessions, Issued, req', marks') /\ Holds(seenSessions[k], Issued, req', marks')
      BY <1>1, HoldsKept DEF SessionInv, MapsInv
    <3>2. Holds(m, Issued, req', marks') BY <2>2, <3>1 DEF Holds
    <3>3. QED BY <1>1, <2>2, <3>2, NoEntriesHold DEF WriteSessions
  <2>3. QED BY <2>1, <2>2
<1>3. InflightRight
  <2>1. CASE UNCHANGED <<inflight, seenInflight>> BY <2>1, UnchangedHolds
  <2>2. ASSUME NEW m, WriteInflight(k, m),
               \A t \in Tab : m[t] \in {None, inflight[t]} \/ m[t] \in {None, seenInflight[k][t]}
        PROVE  InflightRight
    <3>1. Holds(inflight, Verified, req', marks') /\ Holds(seenInflight[k], Verified, req', marks')
      BY <1>1, HoldsKept DEF SessionInv, MapsInv
    <3>2. Holds(m, Verified, req', marks') BY <2>2, <3>1 DEF Holds
    <3>3. QED BY <1>1, <2>2, <3>2, NoEntriesHold DEF WriteInflight
  <2>3. QED BY <2>1, <2>2
<1>4. Holds(task'[k].plan, Verified, req', marks') /\ HandlerInv(task'[k], req', marks')
      /\ \A j \in Task \ {k} : task'[j] = task[j]
  BY UnchangedHolds DEF Quiet
<1>5. QED BY <1>2, <1>3, <1>4, SessionInvStep

\* The gets copy a map that is right already.
LEMMA SessionInvGet ==
    ASSUME TypeOK, SessionInv, Grows, NEW k \in Task,
           GetSessions(k) \/ GetInflight(k) \/ GetSites(k) \/ GetPending(k)
    PROVE  SessionInv'
<1> USE FrameType
<1>1. task' = [task EXCEPT ![k].got = TRUE] /\ UNCHANGED <<sessions, inflight, req, marks>>
  BY DEF GetSessions, GetInflight, GetSites, GetPending, storeVars, histVars
<1>2. /\ task'[k].pc = task[k].pc /\ task'[k].resp = task[k].resp
      /\ task'[k].req = task[k].req /\ task'[k].tab = task[k].tab
      /\ task'[k].plan = task[k].plan /\ \A j \in Task \ {k} : task'[j] = task[j]
  BY <1>1 DEF TaskRecord
<1>3. \A j \in Task : /\ seenSessions'[j] \in {seenSessions[j], sessions}
                      /\ seenInflight'[j] \in {seenInflight[j], inflight}
  BY DEF TypeOK, SeenType, GetSessions, GetInflight, GetSites, GetPending
<1>4. \A j \in Task : HandlerInv(task'[j], req', marks')
  BY <1>1, <1>2 DEF SessionInv, HandlerInv, GotIssued, WorksFor
<1>5. MapsInv'
  BY <1>1, <1>2, <1>3 DEF SessionInv, MapsInv
<1>6. QED BY <1>4, <1>5 DEF SessionInv

\* Recovery, purges and closing tabs keep SessionInv.
LEMMA SessionInvLifecycle ==
    ASSUME TypeOK, SessionInv, Grows, NEW k \in Task, LifecycleStep(k)
    PROVE  SessionInv'
<1> USE FrameType DEF TypeOK
<1>1. ASSUME RecoverScan(k) PROVE SessionInv'
  <2>1. /\ task'[k].pc = "recoverNext" /\ task'[k].plan = inflight
        /\ \A j \in Task \ {k} : task'[j] = task[j]
        /\ UNCHANGED <<sessions, inflight, seenSessions, seenInflight, req, marks>>
    BY <1>1 DEF RecoverScan, TaskRecord, storeVars, seenVars, histVars
  <2>2. HandlerInv(task'[k], req', marks')
    BY <2>1 DEF HandlerInv, AskedPcs, VerifiedPcs, GotIssued
  <2>3. QED BY <2>1, <2>2, UnchangedHolds, SessionInvStep
<1>2. ASSUME NEW t \in Tab, RecoverEntry(k, t) PROVE SessionInv'
  <2> DEFINE r == task[k].plan[t]
  <2>1. /\ task'[k].tab = t /\ task'[k].plan = DropEntry(task[k].plan, t)
        /\ \/ task'[k].pc = "clearInflight" /\ task'[k].resp = "stale"
           \/ task'[k].pc = "post" /\ task'[k].req = r
        /\ \A j \in Task \ {k} : task'[j] = task[j]
        /\ r # None
        /\ UNCHANGED <<sessions, inflight, seenSessions, seenInflight>>
    BY <1>2 DEF RecoverEntry, TaskRecord, storeVars, seenVars
  <2>2. Holds(task[k].plan, Verified, req', marks')
    BY HoldsKept DEF SessionInv, MapsInv, TaskRecord
  <2>3. Holds(task'[k].plan, Verified, req', marks')
    BY <2>1, <2>2 DEF Holds, DropEntry, TaskRecord, EntryMap
  <2>4. HandlerInv(task'[k], req', marks')
    BY <2>1, <2>2 DEF HandlerInv, AskedPcs, VerifiedPcs, GotIssued, WorksFor, Holds
  <2>5. QED BY <2>1, <2>3, <2>4, UnchangedHolds, SessionInvStep
<1>3. ASSUME RecoverLast(k) PROVE SessionInv'
  <2>1. [Idle EXCEPT !.fn = "recover", !.pc = "purgeInflight"].pc = "purgeInflight"
        /\ [Idle EXCEPT !.fn = "recover", !.pc = "purgeInflight"].plan = NoEntries
    BY DEF Idle
  <2>2. Quiet(k)
    BY <1>3, <2>1 DEF RecoverLast, Quiet, HandlerInv, AskedPcs, VerifiedPcs, GotIssued
  <2>3. UNCHANGED <<sessions, inflight, seenSessions, seenInflight>>
    BY <1>3 DEF RecoverLast, storeVars, seenVars
  <2>4. QED BY <2>2, <2>3, QuietStep
<1>4. ASSUME PurgeInflight(k) PROVE SessionInv'
  <2> DEFINE kept == PurgeStale(seenInflight[k])
             m == IF kept # seenInflight[k] THEN kept ELSE inflight
  <2>1. WriteInflight(k, m) /\ Finish(k) BY <1>4 DEF PurgeInflight
  <2>2. \A t \in Tab : m[t] \in {None, inflight[t]} \/ m[t] \in {None, seenInflight[k][t]}
    BY DEF PurgeStale
  <2>3. UNCHANGED <<sessions, seenSessions>> BY <2>1 DEF WriteInflight
  <2>4. Quiet(k) BY <2>1, QuietMoves
  <2>5. QED BY <2>1, <2>2, <2>3, <2>4, QuietStep
<1>5. ASSUME PurgeSessions(k) PROVE SessionInv'
  <2> DEFINE kept == PurgeExpired(seenSessions[k])
             m == IF kept # seenSessions[k] THEN kept ELSE sessions
  <2>1. WriteSessions(k, m) /\ Finish(k) BY <1>5 DEF PurgeSessions
  <2>2. \A t \in Tab : m[t] \in {None, sessions[t]} \/ m[t] \in {None, seenSessions[k][t]}
    BY DEF PurgeExpired
  <2>3. UNCHANGED <<inflight, seenInflight>> BY <2>1 DEF WriteSessions
  <2>4. Quiet(k) BY <2>1, QuietMoves
  <2>5. QED BY <2>1, <2>2, <2>3, <2>4, QuietStep
<1>6. ASSUME ClearSession(k) PROVE SessionInv'
  <2> DEFINE m == DropEntry(seenSessions[k], task[k].tab)
  <2>1. WriteSessions(k, m) /\ Goto(k, "clearInflight") /\ task[k].pc = "clearSession"
    BY <1>6 DEF ClearSession
  <2>2. \A t \in Tab : m[t] \in {None, seenSessions[k][t]}
    BY DEF DropEntry, SeenType, EntryMap
  <2>3. /\ task'[k].pc = "clearInflight" /\ task'[k].resp = task[k].resp
        /\ task'[k].plan = task[k].plan /\ \A j \in Task \ {k} : task'[j] = task[j]
    BY <2>1 DEF Goto, TaskRecord
  <2>4. task[k].resp = "none" BY <2>1 DEF SessionInv, HandlerInv
  <2>5. Quiet(k)
    BY <2>3, <2>4 DEF Quiet, HandlerInv, AskedPcs, VerifiedPcs, GotIssued
  <2>6. UNCHANGED <<inflight, seenInflight>> BY <2>1 DEF WriteSessions
  <2>7. QED BY <2>1, <2>2, <2>5, <2>6, QuietStep
<1>7. QED BY <1>1, <1>2, <1>3, <1>4, <1>5, <1>6 DEF LifecycleStep

\* What Goto leaves of a handler.
LEMMA GotoFrame ==
    ASSUME TypeOK, NEW k \in Task, NEW pc, Goto(k, pc)
    PROVE  /\ task'[k].pc = pc /\ task'[k].req = task[k].req /\ task'[k].tab = task[k].tab
           /\ task'[k].resp = task[k].resp /\ task'[k].plan = task[k].plan
           /\ \A j \in Task \ {k} : task'[j] = task[j]
BY FrameType DEF Goto, TaskRecord

\* Every action of a verification keeps SessionInv.
LEMMA SessionInvAttest ==
    ASSUME TypeOK, SessionInv, Grows, NEW k \in Task, AttestStep(k)
    PROVE  SessionInv'
<1> USE FrameType DEF TypeOK
<1> DEFINE tk == task[k]
<1>0. /\ HandlerInv(tk, req, marks) /\ HandlerInv(tk, req', marks')
      /\ tk \in TaskRecord
  BY HandlerKept DEF SessionInv
\* Actions that leave the maps of sessions and of inflight entries alone.
<1>1. ASSUME Quiet(k), UNCHANGED <<sessions, seenSessions, inflight, seenInflight>>
      PROVE  SessionInv'
  BY <1>1, QuietStep
<1>2. CASE ChallengeFails(k) \/ WebAuthnFails(k) \/ \E issues : VerifyThrows(k, issues)
  BY <1>1, <1>2, QuietMoves
     DEF ChallengeFails, WebAuthnFails, VerifyThrows, FailVerify, storeVars, seenVars
<1>3. CASE RemoveRevoked(k) \/ \E t \in Tab : Announce(k, t)
  BY <1>1, <1>3, QuietMoves DEF RemoveRevoked, Announce, WriteSites, storeVars, seenVars
<1>4. CASE RelayCert(k)
  <2>1. "announce" \in QuietPcs BY DEF QuietPcs, Pc, AskedPcs, VerifiedPcs
  <2>2. QED BY <1>1, <1>4, <2>1, QuietMoves DEF RelayCert, storeVars, seenVars
<1>5. ASSUME NEW pc \in {"lookup", "webauthn"}, Goto(k, pc), tk.pc \in AskedPcs
      PROVE  Quiet(k)
  <2>1. WorksFor(tk, {"asked"}, req', marks') BY <1>0, <1>5 DEF HandlerInv
  <2>2. WorksFor(task'[k], {"asked"}, req', marks')
    BY <1>5, <2>1, GotoFrame DEF WorksFor
  <2>3. HandlerInv(task'[k], req', marks')
    BY <1>5, <2>2, GotoFrame DEF HandlerInv, VerifiedPcs, GotIssued
  <2>4. QED BY <1>5, <2>3, GotoFrame DEF Quiet
<1>6. CASE ChallengeArrives(k)
  BY <1>1, <1>5, <1>6 DEF ChallengeArrives, AskedPcs, storeVars, seenVars
<1>7. CASE LookupCredential(k)
  BY <1>1, <1>5, <1>7, QuietMoves DEF LookupCredential, FailVerify, AskedPcs, storeVars, seenVars
\* Actions that raise what is known of the request.
<1>8. ASSUME WebAuthnOk(k) PROVE SessionInv'
  <2>1. WorksFor(tk, {"asked"}, req', marks')
    BY <1>0, <1>8 DEF HandlerInv, WebAuthnOk, AskedPcs
  <2>2. "uv" \in marks'[tk.req]
    BY <1>0, <1>8, <2>1 DEF WebAuthnOk, Record, WorksFor, TaskRecord
  <2>3. Goto(k, "setInflight") BY <1>8 DEF WebAuthnOk
  <2>4. WorksFor(task'[k], Verified, req', marks')
    BY <2>1, <2>2, <2>3, GotoFrame DEF WorksFor, Verified
  <2>5. Quiet(k)
    BY <2>3, <2>4, GotoFrame DEF Quiet, HandlerInv, AskedPcs, GotIssued
  <2>6. QED BY <1>1, <1>8, <2>5 DEF WebAuthnOk, storeVars, seenVars
<1>9. ASSUME NEW reply \in Reply, NEW issues \in BOOLEAN, AttestReply(k, reply, issues)
      PROVE  SessionInv'
  <2>1. WorksFor(tk, Verified, req', marks')
    BY <1>0, <1>9 DEF HandlerInv, AttestReply, VerifiedPcs
  <2>2. issues => "issued" \in marks'[tk.req]
    BY <1>0, <1>9, <2>1 DEF AttestReply, ServerActs, Record, WorksFor, TaskRecord
  <2>3. /\ task'[k].pc = "clearInflight" /\ task'[k].resp = reply
        /\ task'[k].req = tk.req /\ task'[k].tab = tk.tab /\ task'[k].plan = tk.plan
        /\ \A j \in Task \ {k} : task'[j] = task[j]
    BY <1>0, <1>9 DEF AttestReply, TaskRecord
  <2>4. reply = "issued" => WorksFor(task'[k], Issued, req', marks')
    BY <1>9, <2>1, <2>2, <2>3 DEF AttestReply, WorksFor, Verified, Issued
  <2>5. Quiet(k)
    BY <2>3, <2>4 DEF Quiet, HandlerInv, AskedPcs, VerifiedPcs, GotIssued
  <2>6. QED BY <1>1, <1>9, <2>5 DEF AttestReply, storeVars, seenVars
<1>10. ASSUME NEW issues, RecoverThrows(k, issues) PROVE SessionInv'
  <2>1. /\ task'[k].pc = "clearInflight" /\ task'[k].resp = "threw"
        /\ task'[k].plan = tk.plan /\ \A j \in Task \ {k} : task'[j] = task[j]
    BY <1>0, <1>10 DEF RecoverThrows, TaskRecord
  <2>2. Quiet(k) BY <2>1 DEF Quiet, HandlerInv, AskedPcs, VerifiedPcs, GotIssued
  <2>3. QED BY <1>1, <1>10, <2>2 DEF RecoverThrows, storeVars, seenVars
\* Actions that write one of the two maps.
<1>11. ASSUME SetInflight(k) PROVE SessionInv'
  <2> DEFINE m == PutEntry(seenInflight[k], tk.tab, tk.req)
  <2>1. WriteInflight(k, m) /\ Goto(k, "post") BY <1>11 DEF SetInflight
  <2>2. WorksFor(tk, Verified, req', marks')
    BY <1>0, <1>11 DEF HandlerInv, SetInflight, VerifiedPcs
  <2>3. Holds(seenInflight[k], Verified, req', marks')
    BY HoldsKept DEF SessionInv, MapsInv, SeenType
  <2>4. Holds(m, Verified, req', marks')
    BY <2>2, <2>3 DEF Holds, PutEntry, WorksFor, SeenType, EntryMap
  <2>5. HandlerInv(task'[k], req', marks')
    BY <2>1, <2>2, GotoFrame DEF HandlerInv, WorksFor, AskedPcs, GotIssued
  <2>6. Holds(inflight', Verified, req', marks')
        /\ Holds(seenInflight'[k], Verified, req', marks')
        /\ \A j \in Task \ {k} : seenInflight'[j] = seenInflight[j]
    BY <2>1, <2>4, NoEntriesHold DEF WriteInflight, SeenType
  <2>7. UNCHANGED <<sessions, seenSessions>> BY <2>1 DEF WriteInflight
  <2>8. QED BY <2>1, <2>5, <2>6, <2>7, GotoFrame, UnchangedHolds, SessionInvStep
<1>12. ASSUME ClearInflight(k) PROVE SessionInv'
  <2> DEFINE m == DropEntry(seenInflight[k], tk.tab)
  <2>1. WriteInflight(k, m) /\ AfterClear(k) BY <1>12 DEF ClearInflight
  <2>2. \A t \in Tab : m[t] \in {None, seenInflight[k][t]}
    BY DEF DropEntry, SeenType, EntryMap
  <2>3. UNCHANGED <<sessions, seenSessions>> BY <2>1 DEF WriteInflight
  <2>4. ASSUME Goto(k, "setSession"), tk.resp = "issued" PROVE Quiet(k)
    <3>1. WorksFor(tk, Issued, req', marks')
      BY <1>0, <1>12, <2>4 DEF HandlerInv, GotIssued, ClearInflight
    <3>2. WorksFor(task'[k], Issued, req', marks')
      BY <2>4, <3>1, GotoFrame DEF WorksFor
    <3>3. QED BY <2>4, <3>2, GotoFrame DEF Quiet, HandlerInv, AskedPcs, VerifiedPcs
  <2>5. "removeRp" \in QuietPcs BY DEF QuietPcs, Pc, SitePc, AskedPcs, VerifiedPcs
  <2>6. Quiet(k) BY <2>1, <2>4, <2>5, QuietMoves DEF AfterClear
  <2>7. QED BY <2>1, <2>2, <2>3, <2>6, QuietStep
<1>13. ASSUME SetSession(k) PROVE SessionInv'
  <2> DEFINE m == PutEntry(seenSessions[k], tk.tab, tk.req)
  <2>1. WriteSessions(k, m) /\ Goto(k, "relay") BY <1>13 DEF SetSession
  <2>2. WorksFor(tk, Issued, req', marks')
    BY <1>0, <1>13 DEF HandlerInv, SetSession, GotIssued
  <2>3. Holds(seenSessions[k], Issued, req', marks')
    BY HoldsKept DEF SessionInv, MapsInv, SeenType
  <2>4. Holds(m, Issued, req', marks')
    BY <2>2, <2>3 DEF Holds, PutEntry, WorksFor, SeenType, EntryMap
  <2>5. "relay" \in QuietPcs BY DEF QuietPcs, Pc, AskedPcs, VerifiedPcs
  <2>6. Quiet(k) BY <2>1, <2>5, QuietMoves
  <2>7. Holds(sessions', Issued, req', marks')
        /\ Holds(seenSessions'[k], Issued, req', marks')
        /\ \A j \in Task \ {k} : seenSessions'[j] = seenSessions[j]
    BY <2>1, <2>4, NoEntriesHold DEF WriteSessions, SeenType
  <2>8. UNCHANGED <<inflight, seenInflight>> BY <2>1 DEF WriteSessions
  <2>9. QED BY <2>6, <2>7, <2>8, UnchangedHolds, SessionInvStep DEF Quiet
<1>14. QED
  BY <1>2, <1>3, <1>4, <1>6, <1>7, <1>8, <1>9, <1>10, <1>11, <1>12, <1>13, AttestAssumption
     DEF AttestStep

\* Handlers that work for a site keep SessionInv.
LEMMA SessionInvEnroll ==
    ASSUME TypeOK, SessionInv, Grows, NEW k \in Task, EnrollStep(k)
    PROVE  SessionInv'
<1> USE FrameType
<1>1. SitePcs \subseteq QuietPcs
  BY DEF SitePcs, QuietPcs, Pc, SitePc, PendingPc, AskedPcs, VerifiedPcs
<1>2. Quiet(k)
  <2>1. ASSUME NEW pc \in SitePcs, Goto(k, pc) PROVE Quiet(k)
    BY <1>1, <2>1, QuietMoves
  <2>2. CASE SetPending(k) \/ FindSite(k) \/ ClearPending(k) \/ AddSite(k)
             \/ DeleteCredential(k) \/ RemoveSite(k)
    BY <2>1, <2>2, QuietMoves
       DEF SetPending, FindSite, ClearPending, AddSite, DeleteCredential, RemoveSite, SitePcs
  <2>3. ASSUME NEW ok \in BOOLEAN, EnrollChallenge(k, ok) \/ CreateCredential(k, ok)
        PROVE  Quiet(k)
    BY <2>1, <2>3, QuietMoves DEF EnrollChallenge, CreateCredential, SitePcs
  <2>4. ASSUME NEW enrolled \in BOOLEAN, EnrollReply(k, enrolled)
        PROVE  Quiet(k)
    BY <2>1, <2>4, QuietMoves DEF EnrollReply, SitePcs
  <2>5. CASE ReadPending(k)
    <3>1. /\ task'[k].pc = "clearPending" /\ task'[k].plan = task[k].plan
          /\ \A j \in Task \ {k} : task'[j] = task[j]
      BY <2>5 DEF ReadPending, TaskRecord
    <3>2. QED BY <3>1 DEF Quiet, HandlerInv, AskedPcs, VerifiedPcs, GotIssued
  <2>6. QED BY <2>2, <2>3, <2>4, <2>5 DEF EnrollStep
<1>3. UNCHANGED <<sessions, seenSessions, inflight, seenInflight>>
  BY DEF EnrollStep, SetPending, FindSite, EnrollChallenge, CreateCredential, EnrollReply,
         ReadPending, ClearPending, AddSite, DeleteCredential, RemoveSite, WriteSites,
         WritePending, storeVars, seenVars
<1>4. QED BY <1>2, <1>3, QuietStep

\* Every outside event keeps SessionInv.
LEMMA SessionInvEnvironment ==
    ASSUME TypeOK, SessionInv, Grows, Environment
    PROVE  SessionInv'
<1> USE FrameType, NoEntriesType
\* A handler begins, or the tasks stay.
<1>1. ASSUME UNCHANGED <<sessions, seenSessions, inflight, seenInflight>>, NEW k \in Task,
             NEW new, task' = [task EXCEPT ![k] = new], new.plan = NoEntries,
             HandlerInv(new, req', marks')
      PROVE  SessionInv'
  <2>1. Quiet(k) BY <1>1 DEF Quiet
  <2>2. QED BY <1>1, <2>1, QuietStep
<1>2. ASSUME UNCHANGED <<sessions, seenSessions, inflight, seenInflight, task>> PROVE SessionInv'
  <2>1. \A j \in Task : HandlerInv(task'[j], req', marks')
    BY <1>2, HandlerKept DEF SessionInv
  <2>2. ASSUME NEW m \in EntryMap, NEW need \in {Verified, Issued}, Holds(m, need, req, marks)
        PROVE  Holds(m, need, req', marks')
    BY <2>2, HoldsKept
  <2>3. \A j \in Task : /\ seenSessions[j] \in EntryMap /\ seenInflight[j] \in EntryMap
                        /\ task[j].plan \in EntryMap
    BY DEF TypeOK, SeenType, TaskRecord
  <2>4. MapsInv'
    BY <1>2, <2>2, <2>3 DEF SessionInv, MapsInv, TypeOK, StoreType
  <2>5. QED BY <2>1, <2>4 DEF SessionInv
<1>3. ASSUME sessions' \in {sessions, NoEntries}, inflight' \in {inflight, NoEntries},
             seenSessions' = [j \in Task |-> NoEntries],
             seenInflight' = [j \in Task |-> NoEntries],
             \A j \in Task : task'[j].plan = NoEntries /\ task'[j].pc \in {"idle", "scan"}
      PROVE  SessionInv'
  <2>1. \A j \in Task : HandlerInv(task'[j], req', marks')
    BY <1>3 DEF HandlerInv, AskedPcs, VerifiedPcs, GotIssued
  <2>2. Holds(sessions, Issued, req', marks') /\ Holds(inflight, Verified, req', marks')
    BY HoldsKept DEF SessionInv, MapsInv, TypeOK, StoreType
  <2>3. MapsInv' BY <1>3, <2>2, NoEntriesHold DEF MapsInv
  <2>4. QED BY <2>1, <2>3 DEF SessionInv
<1>4. CASE Tick \/ \E t \in Tab, o \in Origin : Navigate(t, o)
  BY <1>2, <1>4 DEF Tick, Navigate, storeVars, seenVars
<1>5. CASE \E r \in Req, t \in Tab : RefuseOrigin(r, t)
  BY <1>2, <1>5 DEF RefuseOrigin, storeVars, seenVars
<1>6. Idle.plan = NoEntries /\ Idle.pc = "idle" /\ Idle.resp = "none"
  BY DEF Idle
<1>7. CASE WorkerEnds
  BY <1>3, <1>6, <1>7 DEF WorkerEnds, storeVars
\* Cleared maps hold nothing; the maps that handlers have read stay.
<1>17. CASE ClearSessions
  <2>1. UNCHANGED <<task, seenVars>> /\ sessions' = NoEntries /\ inflight' = NoEntries
    BY <1>17 DEF ClearSessions
  <2>2. \A j \in Task : HandlerInv(task'[j], req', marks')
    BY <2>1, HandlerKept DEF SessionInv
  <2>3. ASSUME NEW m \in EntryMap, NEW need \in {Verified, Issued}, Holds(m, need, req, marks)
        PROVE  Holds(m, need, req', marks')
    BY <2>3, HoldsKept
  <2>4. \A j \in Task : /\ seenSessions[j] \in EntryMap /\ seenInflight[j] \in EntryMap
                        /\ task[j].plan \in EntryMap
    BY DEF TypeOK, SeenType, TaskRecord
  <2>5. MapsInv'
    BY <2>1, <2>3, <2>4, NoEntriesHold DEF SessionInv, MapsInv, seenVars
  <2>6. QED BY <2>2, <2>5 DEF SessionInv
<1>8. ASSUME NEW k \in Task, BrowserStarts(k) PROVE SessionInv'
  <2>1. [Idle EXCEPT !.fn = "recover", !.pc = "scan"].plan = NoEntries
        /\ [Idle EXCEPT !.fn = "recover", !.pc = "scan"].pc = "scan"
    BY DEF Idle
  <2>2. \A j \in Task : task'[j].plan = NoEntries /\ task'[j].pc \in {"idle", "scan"}
    BY <1>6, <1>8, <2>1 DEF BrowserStarts
  <2>3. QED BY <1>3, <1>8, <2>2 DEF BrowserStarts
<1>9. ASSUME NEW k \in Task, NEW r \in Req, NEW t \in Tab, VerifyPresence(k, r, t)
      PROVE  SessionInv'
  <2> DEFINE new == [Idle EXCEPT !.fn = "verify", !.pc = "challenge", !.tab = t,
                                 !.origin = page[t], !.req = r]
  <2>1. new.plan = NoEntries /\ new.pc = "challenge" /\ new.tab = t /\ new.req = r
    BY DEF Idle
  <2>2. req'[r].tab = t /\ "asked" \in marks'[r]
    BY <1>9 DEF VerifyPresence, Record, ReqData
  <2>3. r # None BY NoneAssumption
  <2> HIDE DEF new
  <2>4. HandlerInv(new, req', marks')
    BY <2>1, <2>2, <2>3 DEF HandlerInv, WorksFor, AskedPcs, VerifiedPcs, GotIssued
  <2>5. task' = [task EXCEPT ![k] = new] BY <1>9 DEF VerifyPresence, new
  <2>6. QED BY <1>1, <1>9, <2>1, <2>4, <2>5 DEF VerifyPresence, storeVars, seenVars
<1>10. ASSUME NEW k \in Task, NEW t \in Tab, CloseTab(k, t) PROVE SessionInv'
  <2> DEFINE new == [Idle EXCEPT !.fn = "removed", !.pc = "clearSession", !.tab = t]
  <2>1. new.plan = NoEntries /\ new.pc = "clearSession" /\ new.resp = "none"
    BY DEF Idle
  <2> HIDE DEF new
  <2>2. HandlerInv(new, req', marks')
    BY <2>1 DEF HandlerInv, AskedPcs, VerifiedPcs, GotIssued
  <2>3. task' = [task EXCEPT ![k] = new] BY <1>10 DEF CloseTab, new
  <2>4. QED BY <1>1, <1>10, <2>1, <2>2, <2>3 DEF CloseTab, storeVars, seenVars
\* Handlers that begin with nothing of the kind.
<1>11. ASSUME NEW k \in Task, NEW new, new.plan = NoEntries, new.pc \in QuietPcs,
              task' = [task EXCEPT ![k] = new], UNCHANGED <<storeVars, seenVars>>
       PROVE  SessionInv'
  <2>1. HandlerInv(new, req', marks')
    BY <1>11 DEF HandlerInv, GotIssued, QuietPcs
  <2>2. QED BY <1>1, <1>11, <2>1 DEF storeVars, seenVars
<1>12. {"purgeSessions", "scan", "setPending", "findSite", "enrollChallenge", "revokeDelete"}
         \subseteq QuietPcs
  BY DEF QuietPcs, Pc, SessionPc, PendingPc, AskedPcs, VerifiedPcs
<1>13. ASSUME NEW k \in Task, AlarmFires(k) \/ Activate(k) PROVE SessionInv'
  <2> DEFINE alarm == [Idle EXCEPT !.fn = "alarm", !.pc = "purgeSessions"]
             scan  == [Idle EXCEPT !.fn = "recover", !.pc = "scan"]
  <2>1. \E new \in {alarm, scan} : task' = [task EXCEPT ![k] = new]
        /\ UNCHANGED <<storeVars, seenVars>>
    BY <1>13 DEF AlarmFires, Activate
  <2>2. \A new \in {alarm, scan} : new.plan = NoEntries /\ new.pc \in QuietPcs
    BY <1>12 DEF Idle
  <2> HIDE DEF alarm, scan
  <2>3. QED BY <1>11, <2>1, <2>2
<1>14. ASSUME NEW k \in Task, NEW t \in Tab, NEW u, SiteDetected(k, t, u) PROVE SessionInv'
  <2> DEFINE cb == ValidCallback(u, page[t])
             pc == IF cb # None THEN "setPending" ELSE "findSite"
             new == [Idle EXCEPT !.fn = "detect", !.tab = t, !.origin = page[t],
                                 !.cb = cb, !.pc = pc]
  <2>1. task' = [task EXCEPT ![k] = new] BY <1>14 DEF SiteDetected
  <2>2. pc \in QuietPcs BY <1>12
  <2> HIDE DEF cb, pc
  <2>3. new.plan = NoEntries /\ new.pc = pc BY DEF Idle
  <2> HIDE DEF new
  <2>4. QED BY <1>11, <1>14, <2>1, <2>2, <2>3 DEF SiteDetected
<1>15. ASSUME NEW k \in Task, NEW t \in Tab, EnrollRequest(k, t) PROVE SessionInv'
  <2> DEFINE new == [Idle EXCEPT !.fn = "enroll", !.tab = t, !.origin = page[t],
                                 !.pc = "enrollChallenge"]
  <2>1. task' = [task EXCEPT ![k] = new] BY <1>15 DEF EnrollRequest
  <2>2. new.plan = NoEntries /\ new.pc = "enrollChallenge" BY DEF Idle
  <2> HIDE DEF new
  <2>3. QED BY <1>11, <1>12, <1>15, <2>1, <2>2 DEF EnrollRequest
<1>16. ASSUME NEW k \in Task, NEW o \in Origin, RevokeSite(k, o) PROVE SessionInv'
  <2> DEFINE new == [Idle EXCEPT !.fn = "revoke", !.origin = o, !.pc = "revokeDelete"]
  <2>1. task' = [task EXCEPT ![k] = new] BY <1>16 DEF RevokeSite
  <2>2. new.plan = NoEntries /\ new.pc = "revokeDelete" BY DEF Idle
  <2> HIDE DEF new
  <2>3. QED BY <1>11, <1>12, <1>16, <2>1, <2>2 DEF RevokeSite
<1>18. QED
  BY <1>4, <1>5, <1>7, <1>8, <1>9, <1>10, <1>13, <1>14, <1>15, <1>16, <1>17 DEF Environment

\* SessionInv is kept by every step.
LEMMA SessionInvKept ==
    ASSUME TypeOK, SessionInv, [Next]_vars
    PROVE  SessionInv'
<1>1. Grows BY HistoryGrows
<1>2. CASE UNCHANGED vars
  BY <1>2 DEF vars, storeVars, seenVars, histVars, SessionInv, MapsInv
<1>3. CASE Environment
  BY <1>1, <1>3, SessionInvEnvironment
<1>4. ASSUME NEW k \in Task, Resume(k) PROVE SessionInv'
  BY <1>1, <1>4, SessionInvGet, SessionInvAttest, SessionInvLifecycle, SessionInvEnroll
     DEF Resume
<1>5. QED BY <1>2, <1>3, <1>4 DEF Next

\* A tab only ever holds the session of a verification that a page of that tab
\* asked for, that its user passed and that the server certified, for any number
\* of tabs, requests and handlers, and wherever the worker is ended
\* (setSessionForTab, submitAttestation, recoverInflight).
THEOREM SessionIsOfTab == Spec => []SessionBelongsToTab
<1>1. Init => SessionInv BY SessionInvInit
<1>2. TypeOK /\ SessionInv /\ [Next]_vars => SessionInv' BY SessionInvKept
<1>3. SessionInv => SessionBelongsToTab
  BY DEF SessionInv, MapsInv, Holds, Issued, SessionBelongsToTab
<1>4. QED BY <1>1, <1>2, <1>3, TypeCorrect, PTL DEF Spec

-----------------------------------------------------------------------------
\* One verdict

\* Where only onVerifyPresence is, and where submitAttestation is.
AskingPcs == {"challenge", "lookup", "webauthn", "setInflight"}
Submits(tk) == \/ tk.pc \in {"post", "removeRp", "setSession", "relay", "announce"}
               \/ tk.pc = "clearInflight" /\ tk.resp \in Reply

HandlerVerdict(tk, mk) ==
    /\ tk.fn = "verify" =>
         tk.req # None /\ mk[tk.req] # {} /\ "returned" \notin mk[tk.req]
    /\ tk.fn = "recover" /\ tk.req # None => "resumed" \in mk[tk.req]
    /\ tk.pc \in AskingPcs => tk.fn = "verify"
    /\ Submits(tk) => tk.fn \in {"verify", "recover"} /\ tk.req # None
    /\ tk.pc \in {"scan", "recoverNext"} => tk.fn = "recover"

OneHandler ==
    \A j, k \in Task : j # k /\ task[j].fn = "verify" /\ task[k].fn = "verify" =>
        task[j].req # task[k].req

\* Who has been told a verdict has had an answer, or the request was resumed.
ToldIsOver ==
    \A r \in Req : marks[r] \cap {"error", "announced"} # {} =>
        marks[r] \cap {"returned", "resumed"} # {}

VerdictInv ==
    /\ \A k \in Task : HandlerVerdict(task[k], marks)
    /\ OneHandler /\ ToldIsOver /\ OneVerdict

\* What a step newly says of a request.
Says(r) == (marks'[r] \ marks[r]) \cap {"error", "announced", "returned"}

\* A step of the handler k says nothing; or gives the verdict of a handler that
\* returns with it; or that of a recovery.
SpeaksOnce(k) == \A r \in Req :
    \/ Says(r) = {}
    \/ /\ task[k].fn = "verify" /\ task[k].req = r /\ task'[k].fn # "verify"
       /\ "returned" \in Says(r) /\ ~{"error", "announced"} \subseteq Says(r)
    \/ task[k].fn = "recover" /\ task[k].req = r /\ "returned" \notin Says(r)

\* A handler that works for no request.
Rests(tk) ==
    /\ tk.fn # "verify" /\ tk.req = None
    /\ tk.pc \notin AskingPcs /\ ~Submits(tk)
    /\ tk.pc \in {"scan", "recoverNext"} => tk.fn = "recover"

-----------------------------------------------------------------------------
\* An idle handler rests, and so does a recovery between two entries.
LEMMA IdleRests ==
    /\ Rests(Idle)
    /\ \A m : Rests([Idle EXCEPT !.fn = "recover", !.pc = "recoverNext", !.plan = m])
BY DEF Rests, Idle, Submits, AskingPcs

\* VerdictInv holds at first.
LEMMA VerdictInvInit ==
    ASSUME Init
    PROVE  VerdictInv
<1>1. \A k \in Task : HandlerVerdict(task[k], marks)
  BY DEF Init, Idle, HandlerVerdict, Submits, AskingPcs
<1>2. OneHandler /\ ToldIsOver /\ OneVerdict
  BY DEF Init, Idle, OneHandler, ToldIsOver, OneVerdict
<1>3. QED BY <1>1, <1>2 DEF VerdictInv

\* A step of one handler that speaks once at most keeps VerdictInv.
LEMMA VerdictStep ==
    ASSUME TypeOK, VerdictInv, Grows, NEW k \in Task,
           \A j \in Task \ {k} : task'[j] = task[j],
           SpeaksOnce(k), HandlerVerdict(task'[k], marks'),
           task'[k].fn = "verify" => task[k].fn = "verify" /\ task'[k].req = task[k].req
    PROVE  VerdictInv'
<1>1. \A j \in Task : task[j].req \in Req \cup {None}
  BY DEF TypeOK, TaskType, TaskRecord
<1>2. OneHandler' BY DEF VerdictInv, OneHandler
<1>3. \A j \in Task \ {k} : HandlerVerdict(task'[j], marks')
  <2> SUFFICES ASSUME NEW j \in Task \ {k} PROVE HandlerVerdict(task[j], marks')
    OBVIOUS
  <2>1. HandlerVerdict(task[j], marks) BY DEF VerdictInv
  <2>2. ASSUME task[j].fn = "verify"
        PROVE  marks'[task[j].req] # {} /\ "returned" \notin marks'[task[j].req]
    <3>1. task[j].req \in Req BY <1>1, <2>1, <2>2 DEF HandlerVerdict
    <3>2. "returned" \notin Says(task[j].req)
      BY <2>2, <3>1 DEF SpeaksOnce, VerdictInv, OneHandler
    <3>3. QED BY <2>1, <2>2, <3>1, <3>2 DEF HandlerVerdict, Says, Grows
  <2>3. ASSUME task[j].fn = "recover", task[j].req # None
        PROVE  "resumed" \in marks'[task[j].req]
    BY <1>1, <2>1, <2>3 DEF HandlerVerdict, Grows
  <2>4. QED BY <2>1, <2>2, <2>3 DEF HandlerVerdict
<1>4. ASSUME NEW r \in Req
      PROVE  /\ marks'[r] \cap {"error", "announced"} # {} =>
                  marks'[r] \cap {"returned", "resumed"} # {}
             /\ {"error", "announced"} \subseteq marks'[r] => "resumed" \in marks'[r]
  <2>1. marks[r] \subseteq marks'[r] BY DEF Grows
  <2>2. /\ marks[r] \cap {"error", "announced"} # {} =>
             marks[r] \cap {"returned", "resumed"} # {}
        /\ {"error", "announced"} \subseteq marks[r] => "resumed" \in marks[r]
    BY DEF VerdictInv, ToldIsOver, OneVerdict
  <2>3. CASE Says(r) = {} BY <2>1, <2>2, <2>3 DEF Says
  <2>4. CASE /\ task[k].fn = "verify" /\ task[k].req = r
             /\ "returned" \in Says(r) /\ ~{"error", "announced"} \subseteq Says(r)
    <3>1. "returned" \notin marks[r] BY <2>4 DEF VerdictInv, HandlerVerdict
    <3>2. QED BY <2>1, <2>2, <2>4, <3>1 DEF Says
  <2>5. CASE task[k].fn = "recover" /\ task[k].req = r
    <3>1. "resumed" \in marks[r]
      BY <2>5, NoneAssumption DEF VerdictInv, HandlerVerdict
    <3>2. QED BY <2>1, <3>1
  <2>6. QED BY <2>3, <2>4, <2>5 DEF SpeaksOnce
<1>5. ToldIsOver' /\ OneVerdict' BY <1>4 DEF ToldIsOver, OneVerdict
<1>6. QED BY <1>2, <1>3, <1>5 DEF VerdictInv

\* A handler that begins or comes to rest without a word.
LEMMA VerdictRest ==
    ASSUME TypeOK, VerdictInv, Grows, NEW k \in Task,
           \A j \in Task \ {k} : task'[j] = task[j],
           Rests(task'[k]), \A r \in Req : Says(r) = {}
    PROVE  VerdictInv'
<1>1. HandlerVerdict(task'[k], marks') BY DEF Rests, HandlerVerdict
<1>2. QED BY <1>1, VerdictStep DEF Rests, SpeaksOnce

\* A handler that goes on for its request without a word.
LEMMA VerdictGoesOn ==
    ASSUME TypeOK, VerdictInv, Grows, NEW k \in Task,
           \A j \in Task \ {k} : task'[j] = task[j],
           task'[k].fn = task[k].fn, task'[k].req = task[k].req,
           task'[k].pc \in AskingPcs => task[k].fn = "verify",
           Submits(task'[k]) => task[k].fn \in {"verify", "recover"} /\ task[k].req # None,
           task'[k].pc \in {"scan", "recoverNext"} => task[k].fn = "recover",
           \A r \in Req : Says(r) = {}
    PROVE  VerdictInv'
<1>1. task[k].req \in Req \cup {None} /\ HandlerVerdict(task[k], marks)
  BY DEF TypeOK, TaskType, TaskRecord, VerdictInv
<1>2. ASSUME task[k].fn = "verify"
      PROVE  marks'[task[k].req] # {} /\ "returned" \notin marks'[task[k].req]
  BY <1>1, <1>2 DEF HandlerVerdict, Says, Grows
<1>3. ASSUME task[k].fn = "recover", task[k].req # None
      PROVE  "resumed" \in marks'[task[k].req]
  BY <1>1, <1>3 DEF HandlerVerdict, Grows
<1>4. HandlerVerdict(task'[k], marks')
  BY <1>1, <1>2, <1>3 DEF HandlerVerdict
<1>5. QED BY <1>4, VerdictStep DEF SpeaksOnce

-----------------------------------------------------------------------------
\* Marks that tell nobody a verdict say nothing.
LEMMA RecordSilent ==
    ASSUME TypeOK, NEW q, NEW new, Record(q, new),
           new \cap {"error", "announced", "returned"} = {}
    PROVE  \A r \in Req : Says(r) = {}
BY DEF Record, Says, TypeOK, HistoryType

\* Every end of submitAttestation.
LEMMA VerdictEndSubmit ==
    ASSUME TypeOK, VerdictInv, Grows, NEW k \in Task, Submits(task[k]),
           NEW new \in {{}, {"error"}, {"announced"}}, EndSubmit(k, new)
    PROVE  VerdictInv'
<1> DEFINE r == task[k].req
<1>1. /\ r \in Req /\ HandlerVerdict(task[k], marks)
      /\ task[k].fn \in {"verify", "recover"} /\ marks \in [Req -> SUBSET Mark]
  BY DEF TypeOK, TaskType, TaskRecord, HistoryType, VerdictInv, HandlerVerdict
<1>2. CASE task[k].fn = "verify"
  <2>1. Record(r, new \cup {"returned"}) /\ Finish(k) BY <1>2 DEF EndSubmit
  <2>2. Rests(task'[k]) /\ \A j \in Task \ {k} : task'[j] = task[j]
    BY <2>1, IdleRests DEF Finish, TypeOK, TaskType
  <2>3. "returned" \notin marks[r] BY <1>1, <1>2 DEF HandlerVerdict
  <2>4. SpeaksOnce(k)
    <3>1. \A q \in Req \ {r} : Says(q) = {} BY <1>1, <2>1 DEF Record, Says
    <3>2. "returned" \in Says(r) BY <1>1, <2>1, <2>3 DEF Record, Says
    <3>3. Says(r) \subseteq new \cup {"returned"} BY <1>1, <2>1 DEF Record, Says
    <3>4. QED BY <1>2, <2>2, <3>1, <3>2, <3>3 DEF SpeaksOnce, Rests
  <2>5. QED BY <2>2, <2>4, VerdictStep DEF Rests, HandlerVerdict
<1>3. CASE task[k].fn = "recover"
  <2>1. Record(r, new) /\ NextEntry(k) BY <1>3 DEF EndSubmit
  <2>2. Rests(task'[k]) /\ \A j \in Task \ {k} : task'[j] = task[j]
    BY <2>1, IdleRests DEF NextEntry, TypeOK, TaskType
  <2>3. SpeaksOnce(k)
    BY <1>1, <1>3, <2>1 DEF SpeaksOnce, Record, Says
  <2>4. QED BY <2>2, <2>3, VerdictStep DEF Rests, HandlerVerdict
<1>4. QED BY <1>1, <1>2, <1>3

\* onVerifyPresence returns after an error, its own or one it caught.
LEMMA VerdictFails ==
    ASSUME TypeOK, VerdictInv, Grows, NEW k \in Task, task[k].fn = "verify", Finish(k),
           NEW new, Record(task[k].req, new \cup {"error", "returned"}), "announced" \notin new
    PROVE  VerdictInv'
<1> DEFINE r == task[k].req
<1>1. /\ r \in Req /\ marks \in [Req -> SUBSET Mark] /\ "returned" \notin marks[r]
  BY DEF TypeOK, TaskType, TaskRecord, HistoryType, VerdictInv, HandlerVerdict
<1>2. Rests(task'[k]) /\ \A j \in Task \ {k} : task'[j] = task[j]
  BY IdleRests DEF Finish, TypeOK, TaskType
<1>3. SpeaksOnce(k)
  <2>1. \A q \in Req \ {r} : Says(q) = {} BY <1>1 DEF Record, Says
  <2>2. "returned" \in Says(r) /\ "announced" \notin Says(r) BY <1>1 DEF Record, Says
  <2>3. QED BY <1>2, <2>1, <2>2 DEF SpeaksOnce, Rests
<1>4. QED BY <1>2, <1>3, VerdictStep DEF Rests, HandlerVerdict

\* Goto keeps what the handler works for.
LEMMA GotoKeeps ==
    ASSUME TypeOK, NEW k \in Task, NEW pc, Goto(k, pc)
    PROVE  /\ \A j \in Task \ {k} : task'[j] = task[j]
           /\ task'[k].pc = pc /\ task'[k].fn = task[k].fn
           /\ task'[k].req = task[k].req /\ task'[k].resp = task[k].resp
BY DEF Goto, TypeOK, TaskType, TaskRecord

\* The steps of VERIFY_PRESENCE keep VerdictInv.
LEMMA VerdictAttest ==
    ASSUME TypeOK, VerdictInv, Grows, NEW k \in Task, AttestStep(k)
    PROVE  VerdictInv'
<1> DEFINE tk == task[k]
<1>1. /\ tk.req \in Req \cup {None} /\ HandlerVerdict(tk, marks)
      /\ UNCHANGED marks => \A r \in Req : Says(r) = {}
  BY DEF TypeOK, TaskType, TaskRecord, VerdictInv, Says
<1>2. tk.pc \in AskingPcs => tk.fn = "verify" /\ tk.req # None
  BY <1>1 DEF HandlerVerdict
<1>3. Submits(tk) => tk.fn \in {"verify", "recover"} /\ tk.req # None
  BY <1>1 DEF HandlerVerdict
\* Going on without a word.
<1>4. ASSUME NEW pc \in {"lookup", "webauthn", "setInflight", "post"}, Goto(k, pc),
             tk.pc \in AskingPcs, \A r \in Req : Says(r) = {}
      PROVE  VerdictInv'
  BY <1>2, <1>4, GotoKeeps, VerdictGoesOn
<1>5. ASSUME NEW pc \in {"removeRp", "setSession", "relay", "announce"}, Goto(k, pc),
             Submits(tk), \A r \in Req : Says(r) = {}
      PROVE  VerdictInv'
  BY <1>3, <1>5, GotoKeeps, VerdictGoesOn DEF AskingPcs
<1>6. ASSUME Finish(k) \/ NextEntry(k), \A r \in Req : Says(r) = {} PROVE VerdictInv'
  <2>1. Rests(task'[k]) /\ \A j \in Task \ {k} : task'[j] = task[j]
    BY <1>6, IdleRests DEF Finish, NextEntry, TypeOK, TaskType
  <2>2. QED BY <1>6, <2>1, VerdictRest
\* The actions.
<1>7. ASSUME FailVerify(k), tk.pc \in AskingPcs PROVE VerdictInv'
  <2>1. Record(tk.req, {} \cup {"error", "returned"}) /\ Finish(k) BY <1>7 DEF FailVerify
  <2>2. QED BY <1>2, <1>7, <2>1, VerdictFails
<1>8. CASE ChallengeArrives(k) \/ SetInflight(k)
  BY <1>1, <1>4, <1>8 DEF ChallengeArrives, SetInflight, AskingPcs
<1>9. CASE ChallengeFails(k) \/ WebAuthnFails(k)
  BY <1>7, <1>9 DEF ChallengeFails, WebAuthnFails, AskingPcs
<1>10. CASE LookupCredential(k)
  BY <1>1, <1>4, <1>7, <1>10 DEF LookupCredential, AskingPcs
<1>11. CASE WebAuthnOk(k)
  <2>1. \A r \in Req : Says(r) = {} BY <1>11, RecordSilent DEF WebAuthnOk
  <2>2. QED BY <1>4, <1>11, <2>1 DEF WebAuthnOk, AskingPcs
<1>12. ASSUME NEW issues \in BOOLEAN, NEW reply \in Reply, AttestReply(k, reply, issues)
       PROVE  VerdictInv'
  <2>1. \A r \in Req : Says(r) = {} BY <1>12, RecordSilent DEF AttestReply, ServerActs
  <2>2. /\ \A j \in Task \ {k} : task'[j] = task[j]
        /\ task'[k].fn = tk.fn /\ task'[k].req = tk.req /\ task'[k].pc = "clearInflight"
    BY <1>12 DEF AttestReply, TypeOK, TaskType, TaskRecord
  <2>3. Submits(tk) BY <1>12 DEF AttestReply, Submits
  <2>4. QED BY <1>3, <2>1, <2>2, <2>3, VerdictGoesOn DEF AskingPcs
<1>13. ASSUME NEW issues \in BOOLEAN, VerifyThrows(k, issues) PROVE VerdictInv'
  <2> DEFINE new == {"posted"} \cup (IF issues THEN {"issued"} ELSE {})
  <2>1. Record(tk.req, new \cup {"error", "returned"})
    <3>1. {"error", "returned"} \cup {"posted"} \cup (IF issues THEN {"issued"} ELSE {})
            = new \cup {"error", "returned"}
      OBVIOUS
    <3>2. QED BY <1>13, <3>1 DEF VerifyThrows, ServerActs
  <2>2. "announced" \notin new OBVIOUS
  <2>3. QED BY <1>13, <2>1, <2>2, VerdictFails DEF VerifyThrows
<1>14. ASSUME NEW issues \in BOOLEAN, RecoverThrows(k, issues) PROVE VerdictInv'
  <2>1. \A r \in Req : Says(r) = {} BY <1>14, RecordSilent DEF RecoverThrows, ServerActs
  <2>2. /\ \A j \in Task \ {k} : task'[j] = task[j]
        /\ task'[k].fn = tk.fn /\ task'[k].req = tk.req
        /\ task'[k].pc = "clearInflight" /\ task'[k].resp = "threw"
    BY <1>14 DEF RecoverThrows, TypeOK, TaskType, TaskRecord
  <2>3. ~Submits(task'[k]) BY <2>2 DEF Submits, Reply
  <2>4. QED BY <2>1, <2>2, <2>3, VerdictGoesOn DEF AskingPcs
<1>15. CASE ClearInflight(k)
  <2>1. tk.resp \in Reply => Submits(tk) BY <1>15 DEF ClearInflight, Submits
  <2>2. CASE tk.fn = "removed" /\ Finish(k) /\ UNCHANGED marks BY <1>1, <1>6, <2>2
  <2>3. CASE NextEntry(k) /\ UNCHANGED marks BY <1>1, <1>6, <2>3
  <2>4. CASE tk.resp = "issued" /\ Goto(k, "setSession") /\ UNCHANGED marks
    BY <1>1, <1>5, <2>1, <2>4 DEF Reply
  <2>5. CASE tk.resp = "revoked" /\ Goto(k, "removeRp") /\ UNCHANGED marks
    BY <1>1, <1>5, <2>1, <2>5 DEF Reply
  <2>6. CASE tk.resp = "badsig" /\ EndSubmit(k, {"error"})
    BY <2>1, <2>6, VerdictEndSubmit DEF Reply
  <2>7. CASE tk.resp \in {"refused", "expired", "unavailable", "network"} /\ EndSubmit(k, {})
    BY <2>1, <2>7, VerdictEndSubmit DEF Reply
  <2>8. QED BY <1>15, <2>2, <2>3, <2>4, <2>5, <2>6, <2>7 DEF ClearInflight, AfterClear
<1>16. CASE RemoveRevoked(k)
  BY <1>16, VerdictEndSubmit DEF RemoveRevoked, Submits
<1>17. CASE SetSession(k)
  <2>1. \A r \in Req : Says(r) = {} BY <1>17, RecordSilent DEF SetSession
  <2>2. QED BY <1>5, <1>17, <2>1 DEF SetSession, Submits
<1>18. CASE RelayCert(k)
  BY <1>1, <1>5, <1>18 DEF RelayCert, Submits
<1>19. ASSUME NEW t \in Tab, Announce(k, t) PROVE VerdictInv'
  BY <1>19, VerdictEndSubmit DEF Announce, Submits
<1>20. QED
  BY <1>8, <1>9, <1>10, <1>11, <1>12, <1>13, <1>14, <1>15, <1>16, <1>17, <1>18, <1>19,
     AttestAssumption DEF AttestStep

\* A recovery, a purge and a closed tab keep VerdictInv: a request that is
\* submitted again is marked as resumed first.
LEMMA VerdictLifecycle ==
    ASSUME TypeOK, SessionInv, VerdictInv, Grows, NEW k \in Task, LifecycleStep(k)
    PROVE  VerdictInv'
<1> DEFINE tk == task[k]
<1>1. /\ HandlerVerdict(tk, marks)
      /\ UNCHANGED marks => \A r \in Req : Says(r) = {}
      /\ tk.plan \in EntryMap
  BY DEF VerdictInv, Says, TypeOK, TaskType, TaskRecord
<1>2. ASSUME Rests(task'[k]), \A j \in Task \ {k} : task'[j] = task[j], UNCHANGED marks
      PROVE  VerdictInv'
  BY <1>1, <1>2, VerdictRest
<1>3. CASE RecoverScan(k)
  <2>1. /\ UNCHANGED marks /\ \A j \in Task \ {k} : task'[j] = task[j]
        /\ task'[k].fn = tk.fn /\ task'[k].req = tk.req /\ task'[k].pc = "recoverNext"
    BY <1>3 DEF RecoverScan, TypeOK, TaskType, TaskRecord, histVars
  <2>2. tk.fn = "recover" BY <1>1, <1>3 DEF RecoverScan, HandlerVerdict
  <2>3. QED BY <1>1, <2>1, <2>2, VerdictGoesOn DEF AskingPcs, Submits
<1>4. ASSUME NEW t \in Tab, RecoverEntry(k, t) PROVE VerdictInv'
  <2> DEFINE r == tk.plan[t]
  <2>1. /\ \A j \in Task \ {k} : task'[j] = task[j]
        /\ task'[k].fn = tk.fn
        /\ \/ task'[k].pc = "clearInflight" /\ task'[k].resp = "stale" /\ task'[k].req = None
           \/ task'[k].pc = "post" /\ task'[k].req = r /\ Record(r, {"resumed"})
    BY <1>4 DEF RecoverEntry, TypeOK, TaskType, TaskRecord
  <2>2. r \in Req /\ r # None BY <1>1, <1>4, NoneAssumption DEF RecoverEntry, EntryMap
  <2>3. \A q \in Req : Says(q) = {} BY <1>4, RecordSilent DEF RecoverEntry
  <2>4. tk.fn = "recover" BY <1>1, <1>4 DEF RecoverEntry, HandlerVerdict
  <2>5. Record(r, {"resumed"}) => "resumed" \in marks'[r]
    BY <2>2 DEF Record, TypeOK, HistoryType
  <2> HIDE DEF r
  <2>6. HandlerVerdict(task'[k], marks')
    BY <2>1, <2>2, <2>4, <2>5 DEF HandlerVerdict, AskingPcs, Submits, Reply
  <2>7. QED BY <2>1, <2>3, <2>4, <2>6, VerdictStep DEF SpeaksOnce
<1>5. CASE RecoverLast(k)
  <2>1. Rests([Idle EXCEPT !.fn = "recover", !.pc = "purgeInflight"])
    BY DEF Rests, Idle, Submits, AskingPcs
  <2>2. QED BY <1>2, <1>5, <2>1 DEF RecoverLast, TypeOK, TaskType, histVars
<1>6. CASE PurgeInflight(k) \/ PurgeSessions(k)
  BY <1>2, <1>6, IdleRests DEF PurgeInflight, PurgeSessions, Finish, TypeOK, TaskType, histVars
<1>7. CASE ClearSession(k)
  <2>1. Goto(k, "clearInflight") /\ UNCHANGED marks BY <1>7 DEF ClearSession, histVars
  <2>2. tk.resp \notin Reply
    BY <1>7 DEF ClearSession, SessionInv, HandlerInv, Reply
  <2>3. QED BY <1>1, <2>1, <2>2, GotoKeeps, VerdictGoesOn DEF AskingPcs, Submits
<1>8. QED BY <1>3, <1>4, <1>5, <1>6, <1>7 DEF LifecycleStep

\* Gets, and handlers that work for a site, are not about requests.
LEMMA VerdictOther ==
    ASSUME TypeOK, OriginKnown, VerdictInv, Grows, NEW k \in Task,
           GetSessions(k) \/ GetInflight(k) \/ GetSites(k) \/ GetPending(k) \/ EnrollStep(k)
    PROVE  VerdictInv'
<1> DEFINE tk == task[k]
<1>1. /\ HandlerVerdict(tk, marks)
      /\ UNCHANGED marks => \A r \in Req : Says(r) = {}
  BY DEF VerdictInv, Says
<1>2. UNCHANGED marks
  BY DEF GetSessions, GetInflight, GetSites, GetPending, EnrollStep, SetPending, FindSite,
         EnrollChallenge, CreateCredential, EnrollReply, ReadPending, ClearPending, AddSite,
         DeleteCredential, RemoveSite, histVars
<1>3. CASE GetSessions(k) \/ GetInflight(k) \/ GetSites(k) \/ GetPending(k)
  <2>1. /\ \A j \in Task \ {k} : task'[j] = task[j]
        /\ task'[k].fn = tk.fn /\ task'[k].req = tk.req
        /\ task'[k].pc = tk.pc /\ task'[k].resp = tk.resp
    BY <1>3 DEF GetSessions, GetInflight, GetSites, GetPending, TypeOK, TaskType, TaskRecord
  <2>2. QED BY <1>1, <1>2, <2>1, VerdictGoesOn DEF HandlerVerdict, Submits
<1>4. CASE EnrollStep(k)
  <2>1. ASSUME NEW pc \in SitePcs, Goto(k, pc) PROVE VerdictInv'
    BY <1>1, <1>2, <2>1, GotoKeeps, VerdictGoesOn DEF SitePcs, AskingPcs, Submits
  <2>2. ASSUME Finish(k) PROVE VerdictInv'
    <3>1. Rests(task'[k]) /\ \A j \in Task \ {k} : task'[j] = task[j]
      BY <2>2, IdleRests DEF Finish, TypeOK, TaskType
    <3>2. QED BY <1>1, <1>2, <3>1, VerdictRest
  <2>3. CASE SetPending(k) \/ FindSite(k) \/ ClearPending(k) \/ AddSite(k)
             \/ DeleteCredential(k) \/ RemoveSite(k)
    BY <2>1, <2>2, <2>3
       DEF SetPending, FindSite, ClearPending, AddSite, DeleteCredential, RemoveSite, SitePcs
  <2>4. CASE \E ok \in BOOLEAN : EnrollChallenge(k, ok) \/ CreateCredential(k, ok)
    BY <2>1, <2>2, <2>4 DEF EnrollChallenge, CreateCredential, SitePcs
  <2>5. CASE \E enrolled \in BOOLEAN : EnrollReply(k, enrolled)
    BY <2>1, <2>2, <2>5 DEF EnrollReply, SitePcs
  <2>6. CASE ReadPending(k)
    <3>1. /\ \A j \in Task \ {k} : task'[j] = task[j]
          /\ task'[k].fn = tk.fn /\ task'[k].req = tk.req /\ task'[k].pc = "clearPending"
      BY <2>6 DEF ReadPending, TypeOK, TaskType, TaskRecord
    <3>2. QED BY <1>1, <1>2, <3>1, VerdictGoesOn DEF AskingPcs, Submits
  <2>7. QED BY <1>4, <2>3, <2>4, <2>5, <2>6 DEF EnrollStep
<1>5. QED BY <1>3, <1>4

\* The environment begins handlers for requests nobody has seen, or for none.
LEMMA VerdictEnvironment ==
    ASSUME TypeOK, VerdictInv, Grows, Environment
    PROVE  VerdictInv'
<1>1. /\ \A j \in Task : HandlerVerdict(task[j], marks) /\ task[j].req \in Req \cup {None}
      /\ UNCHANGED marks => \A r \in Req : Says(r) = {}
      /\ marks \in [Req -> SUBSET Mark]
  BY DEF VerdictInv, Says, TypeOK, TaskType, TaskRecord, HistoryType
<1>2. ASSUME NEW k \in Task, NEW new, Rests(new), task' = [task EXCEPT ![k] = new],
             UNCHANGED marks
      PROVE  VerdictInv'
  BY <1>1, <1>2, VerdictRest DEF TypeOK, TaskType
<1>3. CASE UNCHANGED <<task, marks>>
  BY <1>3 DEF VerdictInv, OneHandler, ToldIsOver, OneVerdict
<1>4. CASE WorkerEnds \/ \E k \in Task : BrowserStarts(k)
  <2>1. Rests([Idle EXCEPT !.fn = "recover", !.pc = "scan"])
    BY DEF Rests, Idle, Submits, AskingPcs
  <2>2. UNCHANGED marks /\ \A j \in Task : Rests(task'[j])
    BY <1>4, <2>1, IdleRests DEF WorkerEnds, BrowserStarts, histVars
  <2>3. \A j \in Task : HandlerVerdict(task'[j], marks') /\ task'[j].fn # "verify"
    BY <2>2 DEF Rests, HandlerVerdict
  <2>4. QED BY <2>2, <2>3 DEF VerdictInv, OneHandler, ToldIsOver, OneVerdict
<1>5. ASSUME NEW r \in Req, NEW t \in Tab, RefuseOrigin(r, t) PROVE VerdictInv'
  <2>1. /\ UNCHANGED task /\ marks[r] = {} /\ marks'[r] = {"asked", "error", "returned"}
        /\ \A q \in Req \ {r} : marks'[q] = marks[q]
    BY <1>1, <1>5 DEF RefuseOrigin, Record
  <2>2. \A j \in Task : HandlerVerdict(task'[j], marks')
    BY <1>1, <2>1 DEF HandlerVerdict
  <2>3. OneHandler' /\ ToldIsOver' /\ OneVerdict'
    BY <2>1 DEF VerdictInv, OneHandler, ToldIsOver, OneVerdict
  <2>4. QED BY <2>2, <2>3 DEF VerdictInv
<1>6. ASSUME NEW k \in Task, NEW r \in Req, NEW t \in Tab, VerifyPresence(k, r, t)
      PROVE  VerdictInv'
  <2> DEFINE new == [Idle EXCEPT !.fn = "verify", !.pc = "challenge", !.tab = t,
                                 !.origin = page[t], !.req = r]
  <2>1. new.fn = "verify" /\ new.pc = "challenge" /\ new.req = r BY DEF Idle
  <2>2. marks[r] = {} /\ marks'[r] = {"asked"} /\ \A q \in Req \ {r} : marks'[q] = marks[q]
    BY <1>1, <1>6 DEF VerifyPresence, Record
  <2>3. task' = [task EXCEPT ![k] = new] BY <1>6 DEF VerifyPresence
  <2> HIDE DEF new
  <2>4. HandlerVerdict(new, marks')
    BY <2>1, <2>2, NoneAssumption DEF HandlerVerdict, Submits
  <2>5. \A j \in Task : HandlerVerdict(task[j], marks')
                        /\ (task[j].fn = "verify" => task[j].req # r)
    BY <1>1, <2>2 DEF HandlerVerdict
  <2>6. \A j \in Task : HandlerVerdict(task'[j], marks')
    BY <2>3, <2>4, <2>5 DEF TypeOK, TaskType
  <2>7. OneHandler'
    BY <2>1, <2>3, <2>5 DEF VerdictInv, OneHandler, TypeOK, TaskType
  <2>8. ToldIsOver' /\ OneVerdict'
    BY <2>2 DEF VerdictInv, ToldIsOver, OneVerdict
  <2>9. QED BY <2>6, <2>7, <2>8 DEF VerdictInv
<1>7. ASSUME NEW k \in Task,
             \/ \E t \in Tab : CloseTab(k, t) \/ EnrollRequest(k, t)
             \/ AlarmFires(k) \/ Activate(k) \/ \E o \in Origin : RevokeSite(k, o)
      PROVE  VerdictInv'
  <2>1. \A t, o : /\ Rests([Idle EXCEPT !.fn = "removed", !.pc = "clearSession", !.tab = t])
                  /\ Rests([Idle EXCEPT !.fn = "enroll", !.tab = t, !.origin = o,
                                        !.pc = "enrollChallenge"])
                  /\ Rests([Idle EXCEPT !.fn = "revoke", !.origin = o, !.pc = "revokeDelete"])
    BY DEF Rests, Idle, Submits, AskingPcs
  <2>2. /\ Rests([Idle EXCEPT !.fn = "alarm", !.pc = "purgeSessions"])
        /\ Rests([Idle EXCEPT !.fn = "recover", !.pc = "scan"])
    BY DEF Rests, Idle, Submits, AskingPcs
  <2>3. UNCHANGED marks /\ \E new : Rests(new) /\ task' = [task EXCEPT ![k] = new]
    BY <1>7, <2>1, <2>2
       DEF CloseTab, EnrollRequest, AlarmFires, Activate, RevokeSite, histVars
  <2>4. QED BY <1>2, <2>3
<1>8. ASSUME NEW k \in Task, NEW t \in Tab, NEW u, SiteDetected(k, t, u) PROVE VerdictInv'
  <2> DEFINE cb == ValidCallback(u, page[t])
             pc == IF cb # None THEN "setPending" ELSE "findSite"
             new == [Idle EXCEPT !.fn = "detect", !.tab = t, !.origin = page[t],
                                 !.cb = cb, !.pc = pc]
  <2>1. task' = [task EXCEPT ![k] = new] /\ UNCHANGED marks
    BY <1>8 DEF SiteDetected, histVars
  <2>2. Rests(new) BY DEF Rests, Idle, Submits, AskingPcs
  <2>3. QED BY <1>2, <2>1, <2>2
<1>9. QED
  BY <1>3, <1>4, <1>5, <1>6, <1>7, <1>8 DEF Environment, Tick, ClearSessions, Navigate, histVars

\* VerdictInv is kept by every step.
LEMMA VerdictInvKept ==
    ASSUME TypeOK, OriginKnown, SessionInv, VerdictInv, [Next]_vars
    PROVE  VerdictInv'
<1>1. Grows BY HistoryGrows
<1>2. CASE UNCHANGED vars
  BY <1>2 DEF vars, histVars, VerdictInv, OneHandler, ToldIsOver, OneVerdict
<1>3. CASE Environment
  BY <1>1, <1>3, VerdictEnvironment
<1>4. ASSUME NEW k \in Task, Resume(k) PROVE VerdictInv'
  BY <1>1, <1>4, VerdictAttest, VerdictLifecycle, VerdictOther DEF Resume
<1>5. QED BY <1>2, <1>3, <1>4 DEF Next

\* No page is told both that its verification failed and that it succeeded,
\* unless a recovery submitted the request again, over every early return, throw
\* and interleaving (showError, onVerifyPresence, submitAttestation).
THEOREM OneVerdictOnly == Spec => []OneVerdict
<1>1. Init => SessionInv BY SessionInvInit
<1>2. TypeOK /\ SessionInv /\ [Next]_vars => SessionInv' BY SessionInvKept
<1>3. Init => VerdictInv BY VerdictInvInit
<1>4. TypeOK /\ OriginKnown /\ SessionInv /\ VerdictInv /\ [Next]_vars => VerdictInv'
  BY VerdictInvKept
<1>5. VerdictInv => OneVerdict BY DEF VerdictInv
<1>6. QED BY <1>1, <1>2, <1>3, <1>4, <1>5, TypeCorrect, PTL DEF Spec
=============================================================================
