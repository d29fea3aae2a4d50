---------------------------- MODULE HppWorkerProofs -------------------------
(***************************************************************************)
(* Proofs about every step of the service worker.  First that it keeps the *)
(* type invariant: the lemmas type the operators the actions are built     *)
(* from, then each group of actions.  Then that the list of enrolled sites *)
(* holds confirmed origins only, each with a callback of its own: the      *)
(* copies of the list and of the pending callbacks that suspended handlers *)
(* hold are part of the invariants, as any of them may be written back.    *)
(***************************************************************************)
EXTENDS HppWorker, TLAPS

\* Handlers that work for a page or a site know its origin from their first
\* step on.
SitePcs == {"setPending", "findSite", "enrollChallenge", "create", "enrollPost",
            "getPending", "clearPending", "addSite", "revokeDelete", "removeSite"}
OriginKnown == \A k \in Task : task[k].pc \in SitePcs => task[k].origin # None

-----------------------------------------------------------------------------
\* The empty maps are maps.
LEMMA NoEntriesType == NoEntries \in EntryMap /\ NoPending \in PendingMap
BY DEF NoEntries, EntryMap, NoPending, PendingMap

\* An idle handler is a task record.
LEMMA IdleType == Idle \in TaskRecord
BY NoEntriesType DEF Idle, TaskRecord, Fn, Pc

\* Goto keeps the handlers well typed.
LEMMA GotoType ==
    ASSUME TaskType, NEW k \in Task, NEW pc \in Pc, Goto(k, pc)
    PROVE  TaskType'
<1>1. [task[k] EXCEPT !.pc = pc, !.got = FALSE] \in TaskRecord
  BY DEF TaskType, TaskRecord
<1>2. QED BY <1>1 DEF TaskType, Goto

\* So does Finish.
LEMMA FinishType ==
    ASSUME TaskType, NEW k \in Task, Finish(k)
    PROVE  TaskType'
BY IdleType DEF TaskType, Finish

\* So does putting any task record in place of a handler.
LEMMA BeginType ==
    ASSUME TaskType, NEW k \in Task, NEW new \in TaskRecord,
           task' = [task EXCEPT ![k] = new]
    PROVE  TaskType'
BY DEF TaskType

\* Record adds marks only.
LEMMA RecordType ==
    ASSUME NEW r, NEW new \in SUBSET Mark, marks \in [Req -> SUBSET Mark], Record(r, new)
    PROVE  marks' \in [Req -> SUBSET Mark]
BY DEF Record

\* The data of a request once its page and tab are known.
LEMMA ReqAsked ==
    ASSUME req \in [Req -> ReqData], NEW r, NEW t \in Tab, NEW o \in Origin
    PROVE  [req EXCEPT ![r].tab = t, ![r].origin = o] \in [Req -> ReqData]
BY DEF ReqData

\* The times of a request may be set to any integer.
LEMMA ReqTimed ==
    ASSUME req \in [Req -> ReqData], NEW r, NEW n \in Int
    PROVE  /\ [req EXCEPT ![r].deadline = n] \in [Req -> ReqData]
           /\ [req EXCEPT ![r].started = n] \in [Req -> ReqData]
           /\ [req EXCEPT ![r].expiry = n] \in [Req -> ReqData]
BY DEF ReqData

\* The loop of recoverInflight going on keeps the handlers well typed.
LEMMA NextEntryType ==
    ASSUME TaskType, NEW k \in Task, NextEntry(k)
    PROVE  TaskType'
<1>1. "recover" \in Fn /\ "recoverNext" \in Pc BY DEF Fn, Pc
<1>2. task[k].plan \in EntryMap BY DEF TaskType, TaskRecord
<1>3. [Idle EXCEPT !.fn = "recover", !.pc = "recoverNext", !.plan = task[k].plan]
        \in TaskRecord
  BY <1>1, <1>2, IdleType DEF TaskRecord
<1>4. QED BY <1>3, BeginType DEF NextEntry

\* A handler that has its reply is a task record.
LEMMA ReplyType ==
    ASSUME NEW tk \in TaskRecord, NEW resp \in Reply \cup {"threw"}
    PROVE  [tk EXCEPT !.pc = "clearInflight", !.resp = resp] \in TaskRecord
<1>1. "clearInflight" \in Pc BY DEF Pc, InflightPc
<1>2. QED BY <1>1 DEF TaskRecord

\* Either way out of submitAttestation keeps handlers and marks well typed.
LEMMA EndSubmitType ==
    ASSUME TaskType, NEW k \in Task, marks \in [Req -> SUBSET Mark],
           NEW new \in SUBSET Mark, EndSubmit(k, new)
    PROVE  TaskType' /\ marks' \in [Req -> SUBSET Mark]
<1>1. CASE task[k].fn = "verify"
  BY <1>1, FinishType, RecordType DEF EndSubmit, Mark
<1>2. CASE task[k].fn # "verify"
  <2>1. NextEntry(k) /\ Record(task[k].req, new)
    BY <1>2 DEF EndSubmit
  <2>2. QED BY <2>1, NextEntryType, RecordType
<1>3. QED BY <1>1, <1>2

\* Each wrapper writes a map of its type and drops its copy.
LEMMA WriteType ==
    ASSUME StoreType, SeenType, NEW k \in Task
    PROVE  /\ \A m \in EntryMap : WriteSessions(k, m) => StoreType' /\ SeenType'
           /\ \A m \in EntryMap : WriteInflight(k, m) => StoreType' /\ SeenType'
           /\ \A l \in SUBSET Site : WriteSites(k, l) => StoreType' /\ SeenType'
           /\ \A m \in PendingMap : WritePending(k, m) => StoreType' /\ SeenType'
<1>1. \A m \in EntryMap : WriteSessions(k, m) => StoreType' /\ SeenType'
  BY NoEntriesType DEF StoreType, SeenType, WriteSessions
<1>2. \A m \in EntryMap : WriteInflight(k, m) => StoreType' /\ SeenType'
  BY NoEntriesType DEF StoreType, SeenType, WriteInflight
<1>3. \A l \in SUBSET Site : WriteSites(k, l) => StoreType' /\ SeenType'
  BY DEF StoreType, SeenType, WriteSites
<1>4. \A m \in PendingMap : WritePending(k, m) => StoreType' /\ SeenType'
  BY NoEntriesType DEF StoreType, SeenType, WritePending
<1>5. QED BY <1>1, <1>2, <1>3, <1>4

\* What each wrapper writes is a map, or a list, of its type.
LEMMA MapOpsType ==
    /\ \A m \in EntryMap, r \in Req \cup {None} : \A t : PutEntry(m, t, r) \in EntryMap
    /\ \A m \in EntryMap : \A t : DropEntry(m, t) \in EntryMap
    /\ \A m \in EntryMap : PurgeExpired(m) \in EntryMap
    /\ \A m \in EntryMap : PurgeStale(m) \in EntryMap
    /\ \A l \in SUBSET Site, o \in Origin, c \in Origin \cup {None} :
         PutSite(l, o, c) \in SUBSET Site
    /\ \A l \in SUBSET Site : \A o : DropOrigin(l, o) \in SUBSET Site
    /\ \A l \in SUBSET Site : \A rp : DropRp(l, rp) \in SUBSET Site
<1>1. /\ \A m \in EntryMap, r \in Req \cup {None} : \A t : PutEntry(m, t, r) \in EntryMap
      /\ \A m \in EntryMap : \A t : DropEntry(m, t) \in EntryMap
  BY DEF EntryMap, PutEntry, DropEntry
<1>2. /\ \A m \in EntryMap : PurgeExpired(m) \in EntryMap
      /\ \A m \in EntryMap : PurgeStale(m) \in EntryMap
  BY DEF EntryMap, PurgeExpired, PurgeStale
<1>3. \A l \in SUBSET Site, o \in Origin, c \in Origin \cup {None} :
         PutSite(l, o, c) \in SUBSET Site
  BY DEF Site, PutSite
<1>4. /\ \A l \in SUBSET Site : \A o : DropOrigin(l, o) \in SUBSET Site
      /\ \A l \in SUBSET Site : \A rp : DropRp(l, rp) \in SUBSET Site
  BY DEF DropOrigin, DropRp
<1>5. QED BY <1>1, <1>2, <1>3, <1>4

\* What a step leaves alone keeps its type.
LEMMA FrameType ==
    ASSUME TypeOK
    PROVE  /\ UNCHANGED storeVars => StoreType'
           /\ UNCHANGED seenVars => SeenType'
           /\ UNCHANGED task => TaskType'
           /\ UNCHANGED histVars => HistoryType'
           /\ UNCHANGED serverVars => ServerType'
           /\ UNCHANGED envVars => EnvType'
           /\ task \in [Task -> TaskRecord] /\ marks \in [Req -> SUBSET Mark]
           /\ req \in [Req -> ReqData]
BY DEF TypeOK, StoreType, SeenType, TaskType, HistoryType, ServerType, EnvType,
       storeVars, seenVars, histVars, serverVars, envVars

\* The gets of the wrappers keep the types.
LEMMA StorageGetType ==
    ASSUME TypeOK, NEW k \in Task,
           GetSessions(k) \/ GetInflight(k) \/ GetSites(k) \/ GetPending(k)
    PROVE  TypeOK'
<1>1. task' = [task EXCEPT ![k].got = TRUE]
      /\ UNCHANGED <<storeVars, histVars, serverVars, envVars>>
  BY DEF GetSessions, GetInflight, GetSites, GetPending
<1>2. TaskType'
  <2>1. [task[k] EXCEPT !.got = TRUE] \in TaskRecord
    BY DEF TypeOK, TaskType, TaskRecord
  <2>2. QED BY <1>1, <2>1 DEF TypeOK, TaskType
<1>3. SeenType'
  BY DEF TypeOK, StoreType, SeenType, GetSessions, GetInflight, GetSites, GetPending
<1>4. QED BY <1>1, <1>2, <1>3, FrameType DEF TypeOK

\* Every action of HppAttest keeps the types.
LEMMA AttestType ==
    ASSUME TypeOK, NEW k \in Task, AttestStep(k)
    PROVE  TypeOK'
<1> USE FrameType DEF TypeOK
<1>1. ASSUME ChallengeArrives(k) PROVE TypeOK'
  <2>1. now + Window \in Int BY AttestAssumption DEF EnvType
  <2>2. HistoryType' BY <1>1, <2>1, ReqTimed DEF ChallengeArrives, HistoryType
  <2>3. TaskType' BY <1>1, GotoType DEF ChallengeArrives, Pc
  <2>4. QED BY <1>1, <2>2, <2>3 DEF ChallengeArrives
<1>2. ASSUME FailVerify(k), UNCHANGED <<storeVars, seenVars, req, delivered, presented,
                                       serverVars, envVars>>
      PROVE  TypeOK'
  <2>1. HistoryType' BY <1>2, RecordType DEF FailVerify, HistoryType, Mark
  <2>2. TaskType' BY <1>2, FinishType DEF FailVerify
  <2>3. QED BY <1>2, <2>1, <2>2
<1>3. ASSUME LookupCredential(k) PROVE TypeOK'
  <2>1. CASE Goto(k, "webauthn") /\ UNCHANGED marks
    <3>1. HistoryType' BY <1>3, <2>1 DEF LookupCredential, HistoryType
    <3>2. TaskType' BY <2>1, GotoType DEF Pc
    <3>3. QED BY <1>3, <3>1, <3>2 DEF LookupCredential
  <2>2. CASE FailVerify(k) BY <1>2, <1>3, <2>2 DEF LookupCredential
  <2>3. QED BY <1>3, <2>1, <2>2 DEF LookupCredential
<1>4. ASSUME WebAuthnOk(k) PROVE TypeOK'
  <2>1. HistoryType' BY <1>4, RecordType DEF WebAuthnOk, HistoryType, Mark
  <2>2. TaskType' BY <1>4, GotoType DEF WebAuthnOk, Pc, InflightPc
  <2>3. QED BY <1>4, <2>1, <2>2 DEF WebAuthnOk
<1>5. ASSUME SetInflight(k) PROVE TypeOK'
  <2>0. now \in Int BY DEF EnvType
  <2>1. HistoryType' BY <1>5, <2>0, ReqTimed DEF SetInflight, HistoryType
  <2>2. TaskType' BY <1>5, GotoType DEF SetInflight, Pc
  <2>3. PutEntry(seenInflight[k], task[k].tab, task[k].req) \in EntryMap
    BY MapOpsType DEF SeenType, TaskRecord
  <2>4. StoreType' /\ SeenType' BY <1>5, <2>3, WriteType DEF SetInflight
  <2>5. QED BY <1>5, <2>1, <2>2, <2>4 DEF SetInflight
<1>6. ASSUME NEW issues \in BOOLEAN, NEW told \in SUBSET Mark,
             ServerActs(task[k].req, issues, told), UNCHANGED <<delivered, presented>>
      PROVE  HistoryType'
  <2>1. now + Life \in Int BY AttestAssumption DEF EnvType
  <2>2. req' \in [Req -> ReqData]
    BY <1>6, <2>1, ReqTimed DEF ServerActs
  <2>3. told \cup {"posted"} \cup (IF issues THEN {"issued"} ELSE {}) \in SUBSET Mark
    BY DEF Mark
  <2>4. QED BY <1>6, <2>2, <2>3, RecordType DEF ServerActs, HistoryType
<1>6a. ASSUME NEW reply \in Replies \ {"malformed"}, NEW issues \in BOOLEAN,
              AttestReply(k, reply, issues)
       PROVE  TypeOK'
  <2>1. HistoryType' BY <1>6, <1>6a DEF AttestReply
  <2>2. [task[k] EXCEPT !.pc = "clearInflight", !.resp = reply] \in TaskRecord
    BY ReplyType, AttestAssumption
  <2>3. TaskType' BY <1>6a, <2>2 DEF AttestReply, TaskType
  <2>4. QED BY <1>6a, <2>1, <2>3 DEF AttestReply
<1>7. ASSUME NEW issues \in BOOLEAN, VerifyThrows(k, issues) PROVE TypeOK'
  <2>1. HistoryType' BY <1>6, <1>7 DEF VerifyThrows, Mark
  <2>2. TaskType' BY <1>7, FinishType DEF VerifyThrows
  <2>3. QED BY <1>7, <2>1, <2>2 DEF VerifyThrows
<1>8. ASSUME NEW issues \in BOOLEAN, RecoverThrows(k, issues) PROVE TypeOK'
  <2>1. HistoryType' BY <1>6, <1>8 DEF RecoverThrows
  <2>2. [task[k] EXCEPT !.pc = "clearInflight", !.resp = "threw"] \in TaskRecord
    BY ReplyType
  <2>3. TaskType' BY <1>8, <2>2 DEF RecoverThrows, TaskType
  <2>4. QED BY <1>8, <2>1, <2>3 DEF RecoverThrows
<1>9. ASSUME ClearInflight(k) PROVE TypeOK'
  <2>1. DropEntry(seenInflight[k], task[k].tab) \in EntryMap
    BY MapOpsType DEF SeenType
  <2>2. StoreType' /\ SeenType' BY <1>9, <2>1, WriteType DEF ClearInflight
  <2>3. TaskType' /\ marks' \in [Req -> SUBSET Mark]
    <3>1. Idle \in TaskRecord /\ "setSession" \in Pc /\ "removeRp" \in Pc
      BY IdleType DEF Pc, SessionPc, SitePc
    <3>2. CASE NextEntry(k) /\ UNCHANGED marks BY <3>2, NextEntryType
    <3>3. CASE Finish(k) /\ UNCHANGED marks BY <3>3, FinishType
    <3>4. CASE \E pc \in {"setSession", "removeRp"} : Goto(k, pc) /\ UNCHANGED marks
      BY <3>1, <3>4, GotoType
    <3>5. CASE \E new \in {{"error"}, {}} : EndSubmit(k, new)
      BY <3>5, EndSubmitType DEF Mark
    <3>6. QED BY <1>9, <3>2, <3>3, <3>4, <3>5 DEF ClearInflight, AfterClear
  <2>4. HistoryType' BY <1>9, <2>3 DEF ClearInflight, HistoryType
  <2>5. QED BY <1>9, <2>2, <2>3, <2>4 DEF ClearInflight
<1>10. ASSUME RemoveRevoked(k) PROVE TypeOK'
  <2>1. DropRp(seenSites[k], RpOf[req[task[k].req].origin]) \in SUBSET Site
    BY MapOpsType DEF SeenType
  <2>2. StoreType' /\ SeenType' BY <1>10, <2>1, WriteType DEF RemoveRevoked
  <2>3. TaskType' /\ marks' \in [Req -> SUBSET Mark]
    BY <1>10, EndSubmitType DEF RemoveRevoked
  <2>4. HistoryType' BY <1>10, <2>3 DEF RemoveRevoked, HistoryType
  <2>5. QED BY <1>10, <2>2, <2>3, <2>4 DEF RemoveRevoked
<1>11. ASSUME SetSession(k) PROVE TypeOK'
  <2>1. PutEntry(seenSessions[k], task[k].tab, task[k].req) \in EntryMap
    BY MapOpsType DEF SeenType, TaskRecord
  <2>2. StoreType' /\ SeenType' BY <1>11, <2>1, WriteType DEF SetSession
  <2>3. HistoryType' BY <1>11, RecordType DEF SetSession, HistoryType, Mark
  <2>4. TaskType' BY <1>11, GotoType DEF SetSession, Pc
  <2>5. QED BY <1>11, <2>2, <2>3, <2>4 DEF SetSession
<1>12. ASSUME RelayCert(k) PROVE TypeOK'
  <2>1. \A s \in SitesOfRp(RpOf[req[task[k].req].origin]) : s.cb \in Origin \cup {None}
    BY DEF SitesOfRp, StoreType, Site
  <2>2. HistoryType' BY <1>12, <2>1 DEF RelayCert, HistoryType
  <2>3. TaskType' BY <1>12, GotoType DEF RelayCert, Pc
  <2>4. QED BY <1>12, <2>2, <2>3 DEF RelayCert
<1>13. ASSUME NEW t \in Tab, Announce(k, t) PROVE TypeOK'
  <2>1. page[t] \in Origin \cup {None} BY DEF EnvType
  <2>2. TaskType' /\ marks' \in [Req -> SUBSET Mark]
    BY <1>13, EndSubmitType DEF Announce, Mark
  <2>3. HistoryType' BY <1>13, <2>1, <2>2 DEF Announce, HistoryType
  <2>4. QED BY <1>13, <2>2, <2>3 DEF Announce
<1>14. QED
  BY <1>1, <1>2, <1>3, <1>4, <1>5, <1>6a, <1>7, <1>8, <1>9, <1>10, <1>11, <1>12, <1>13
     DEF AttestStep, ChallengeFails, WebAuthnFails

\* Every action of HppLifecycle that resumes a handler keeps the types.
LEMMA LifecycleType ==
    ASSUME TypeOK, NEW k \in Task, LifecycleStep(k)
    PROVE  TypeOK'
<1> USE FrameType DEF TypeOK
<1>1. ASSUME RecoverScan(k) PROVE TypeOK'
  <2>0. "recoverNext" \in Pc /\ inflight \in EntryMap /\ task[k] \in TaskRecord
    BY DEF Pc, StoreType
  <2>1. [task[k] EXCEPT !.pc = "recoverNext", !.plan = inflight] \in TaskRecord
    BY <2>0 DEF TaskRecord
  <2>2. TaskType' BY <1>1, <2>1 DEF RecoverScan, TaskType
  <2>3. QED BY <1>1, <2>2 DEF RecoverScan
<1>2. ASSUME NEW t \in Tab, RecoverEntry(k, t) PROVE TypeOK'
  <2> DEFINE new == [task[k] EXCEPT
                  !.tab = t, !.plan = DropEntry(task[k].plan, t),
                  !.pc   = IF Age(task[k].plan[t]) > Stale THEN "clearInflight" ELSE "post",
                  !.resp = IF Age(task[k].plan[t]) > Stale THEN "stale" ELSE "none",
                  !.req  = IF Age(task[k].plan[t]) > Stale THEN None ELSE task[k].plan[t]]
  <2>1. DropEntry(task[k].plan, t) \in EntryMap /\ task[k].plan[t] \in Req \cup {None}
    BY MapOpsType DEF TaskRecord, EntryMap
  <2>2. "clearInflight" \in Pc /\ "post" \in Pc BY DEF Pc, InflightPc
  <2>3. new \in TaskRecord BY <2>1, <2>2 DEF TaskRecord
  <2>4. TaskType' BY <1>2, <2>3 DEF RecoverEntry, TaskType
  <2>5. HistoryType'
    BY <1>2, RecordType DEF RecoverEntry, HistoryType, Mark
  <2>6. QED BY <1>2, <2>4, <2>5 DEF RecoverEntry
<1>3. ASSUME RecoverLast(k) PROVE TypeOK'
  <2>0. "recover" \in Fn /\ "purgeInflight" \in Pc BY DEF Fn, Pc, InflightPc
  <2>1. [Idle EXCEPT !.fn = "recover", !.pc = "purgeInflight"] \in TaskRecord
    BY <2>0, IdleType DEF TaskRecord
  <2>2. TaskType' BY <1>3, <2>1, BeginType DEF RecoverLast
  <2>3. QED BY <1>3, <2>2 DEF RecoverLast
<1>4. ASSUME PurgeInflight(k) PROVE TypeOK'
  <2>1. (IF PurgeStale(seenInflight[k]) # seenInflight[k] THEN PurgeStale(seenInflight[k])
          ELSE inflight) \in EntryMap
    BY MapOpsType DEF SeenType, StoreType
  <2>2. StoreType' /\ SeenType' BY <1>4, <2>1, WriteType DEF PurgeInflight
  <2>3. TaskType' BY <1>4, FinishType DEF PurgeInflight
  <2>4. QED BY <1>4, <2>2, <2>3 DEF PurgeInflight
<1>5. ASSUME PurgeSessions(k) PROVE TypeOK'
  <2>1. (IF PurgeExpired(seenSessions[k]) # seenSessions[k]
          THEN PurgeExpired(seenSessions[k]) ELSE sessions) \in EntryMap
    BY MapOpsType DEF SeenType, StoreType
  <2>2. StoreType' /\ SeenType' BY <1>5, <2>1, WriteType DEF PurgeSessions
  <2>3. TaskType' BY <1>5, FinishType DEF PurgeSessions
  <2>4. QED BY <1>5, <2>2, <2>3 DEF PurgeSessions
<1>6. ASSUME ClearSession(k) PROVE TypeOK'
  <2>1. DropEntry(seenSessions[k], task[k].tab) \in EntryMap
    BY MapOpsType DEF SeenType
  <2>2. StoreType' /\ SeenType' BY <1>6, <2>1, WriteType DEF ClearSession
  <2>3. TaskType' BY <1>6, GotoType DEF ClearSession, Pc, InflightPc
  <2>4. QED BY <1>6, <2>2, <2>3 DEF ClearSession
<1>7. QED BY <1>1, <1>2, <1>3, <1>4, <1>5, <1>6 DEF LifecycleStep

\* Every action of HppEnroll that resumes a handler keeps the types; a stored
\* site has an origin because its handler has one.
LEMMA EnrollType ==
    ASSUME TypeOK, OriginKnown, NEW k \in Task, EnrollStep(k)
    PROVE  TypeOK'
<1> USE FrameType DEF TypeOK
<1>0. task[k] \in TaskRecord /\ (task[k].pc \in SitePcs => task[k].origin \in Origin)
  BY DEF OriginKnown, TaskRecord
<1>1. ASSUME SetPending(k) PROVE TypeOK'
  <2>1. [seenPending[k] EXCEPT ![task[k].origin] = task[k].cb] \in PendingMap
    BY <1>0 DEF SeenType, PendingMap, TaskRecord
  <2>2. StoreType' /\ SeenType' BY <1>1, <2>1, WriteType DEF SetPending
  <2>3. TaskType' BY <1>1, GotoType DEF SetPending, Pc
  <2>4. QED BY <1>1, <2>2, <2>3 DEF SetPending
<1>2. ASSUME NEW pc \in Pc, Goto(k, pc) \/ Finish(k),
             UNCHANGED <<storeVars, seenVars, histVars, serverVars, envVars>>
      PROVE  TypeOK'
  <2>1. TaskType' BY <1>2, GotoType, FinishType
  <2>2. QED BY <1>2, <2>1
<1>3. ASSUME FindSite(k) PROVE TypeOK'
  <2>1. "addSite" \in Pc BY DEF Pc, SitePc
  <2>2. QED BY <1>2, <1>3, <2>1 DEF FindSite
<1>4. ASSUME NEW ok \in BOOLEAN, EnrollChallenge(k, ok) \/ CreateCredential(k, ok)
      PROVE  TypeOK'
  <2>1. "create" \in Pc /\ "enrollPost" \in Pc BY DEF Pc
  <2>2. QED BY <1>2, <1>4, <2>1 DEF EnrollChallenge, CreateCredential
<1>5. ASSUME NEW enrolled \in BOOLEAN, EnrollReply(k, enrolled)
      PROVE  TypeOK'
  <2>1. task[k].origin \in Origin BY <1>0, <1>5 DEF EnrollReply, SitePcs
  <2>2. ServerType' BY <1>5, <2>1 DEF EnrollReply, ServerType
  <2>3. TaskType' BY <1>5, GotoType, FinishType DEF EnrollReply, Pc
  <2>4. QED BY <1>5, <2>2, <2>3 DEF EnrollReply
<1>6. ASSUME ReadPending(k) PROVE TypeOK'
  <2>1. task[k].origin \in Origin BY <1>0, <1>6 DEF ReadPending, SitePcs
  <2>2. pending[task[k].origin] \in Origin \cup {None}
    BY <2>1 DEF StoreType, PendingMap
  <2>3. "clearPending" \in Pc BY DEF Pc, PendingPc
  <2>4. TaskType' BY <1>0, <1>6, <2>2, <2>3 DEF ReadPending, TaskType, TaskRecord
  <2>5. QED BY <1>6, <2>4 DEF ReadPending
<1>7. ASSUME ClearPending(k) PROVE TypeOK'
  <2>1. [seenPending[k] EXCEPT ![task[k].origin] = None] \in PendingMap
    BY DEF SeenType, PendingMap
  <2>2. StoreType' /\ SeenType' BY <1>7, <2>1, WriteType DEF ClearPending
  <2>3. TaskType' BY <1>7, GotoType DEF ClearPending, Pc, SitePc
  <2>4. QED BY <1>7, <2>2, <2>3 DEF ClearPending
<1>8. ASSUME AddSite(k) PROVE TypeOK'
  <2>1. task[k].origin \in Origin /\ task[k].cb \in Origin \cup {None}
    BY <1>0, <1>8 DEF AddSite, SitePcs, TaskRecord
  <2>2. PutSite(seenSites[k], task[k].origin, task[k].cb) \in SUBSET Site
    BY <2>1, MapOpsType DEF SeenType
  <2>3. StoreType' /\ SeenType' BY <1>8, <2>2, WriteType DEF AddSite
  <2>4. TaskType' BY <1>8, FinishType DEF AddSite
  <2>5. QED BY <1>8, <2>3, <2>4 DEF AddSite
<1>9. ASSUME DeleteCredential(k) PROVE TypeOK'
  <2>1. ServerType' BY <1>9 DEF DeleteCredential, ServerType
  <2>2. TaskType' BY <1>9, GotoType DEF DeleteCredential, Pc, SitePc
  <2>3. QED BY <1>9, <2>1, <2>2 DEF DeleteCredential
<1>10. ASSUME RemoveSite(k) PROVE TypeOK'
  <2>1. DropOrigin(seenSites[k], task[k].origin) \in SUBSET Site
    BY MapOpsType DEF SeenType
  <2>2. StoreType' /\ SeenType' BY <1>10, <2>1, WriteType DEF RemoveSite
  <2>3. TaskType' BY <1>10, FinishType DEF RemoveSite
  <2>4. QED BY <1>10, <2>2, <2>3 DEF RemoveSite
<1>11. QED
  BY <1>1, <1>3, <1>4, <1>5, <1>6, <1>7, <1>8, <1>9, <1>10 DEF EnrollStep

\* Every outside event keeps the types.
LEMMA EnvironmentType ==
    ASSUME TypeOK, Environment
    PROVE  TypeOK'
<1> USE FrameType, NoneAssumption DEF TypeOK
<1>1. ASSUME Tick PROVE TypeOK'
  <2>1. EnvType' BY <1>1 DEF Tick, EnvType
  <2>2. QED BY <1>1, <2>1 DEF Tick
<1>2. ASSUME WorkerEnds PROVE TypeOK'
  <2>1. TaskType' /\ SeenType'
    BY <1>2, IdleType, NoEntriesType DEF WorkerEnds, TaskType, SeenType
  <2>2. QED BY <1>2, <2>1 DEF WorkerEnds
<1>3. ASSUME NEW t \in Tab, NEW o \in Origin, Navigate(t, o) PROVE TypeOK'
  <2>1. EnvType' BY <1>3 DEF Navigate, EnvType
  <2>2. QED BY <1>3, <2>1 DEF Navigate
<1>4. ASSUME NEW r \in Req, NEW t \in Tab, RefuseOrigin(r, t) PROVE TypeOK'
  <2>1. page[t] \in Origin BY <1>4 DEF RefuseOrigin, EnvType
  <2>2. marks' \in [Req -> SUBSET Mark] BY <1>4, RecordType DEF RefuseOrigin, Mark
  <2>3. HistoryType' BY <1>4, <2>1, <2>2, ReqAsked DEF RefuseOrigin, HistoryType
  <2>4. QED BY <1>4, <2>3 DEF RefuseOrigin
<1>5. ASSUME NEW k \in Task, NEW r \in Req, NEW t \in Tab, VerifyPresence(k, r, t)
      PROVE  TypeOK'
  <2>1. page[t] \in Origin BY <1>5 DEF VerifyPresence, EnvType
  <2>2. marks' \in [Req -> SUBSET Mark] BY <1>5, RecordType DEF VerifyPresence, Mark
  <2>3. HistoryType' BY <1>5, <2>1, <2>2, ReqAsked DEF VerifyPresence, HistoryType
  <2>4. "verify" \in Fn /\ "challenge" \in Pc BY DEF Fn, Pc
  <2>5. [Idle EXCEPT !.fn = "verify", !.pc = "challenge",
                     !.tab = t, !.origin = page[t], !.req = r] \in TaskRecord
    BY <2>1, <2>4, IdleType DEF TaskRecord
  <2>6. TaskType' BY <1>5, <2>5, BeginType DEF VerifyPresence
  <2>7. QED BY <1>5, <2>3, <2>6 DEF VerifyPresence
<1>6. ASSUME NEW k \in Task, NEW t \in Tab, CloseTab(k, t) PROVE TypeOK'
  <2>1. EnvType' BY <1>6 DEF CloseTab, EnvType
  <2>2. "removed" \in Fn /\ "clearSession" \in Pc BY DEF Fn, Pc, SessionPc
  <2>3. [Idle EXCEPT !.fn = "removed", !.pc = "clearSession", !.tab = t] \in TaskRecord
    BY <2>2, IdleType DEF TaskRecord
  <2>4. TaskType' BY <1>6, <2>3, BeginType DEF CloseTab
  <2>5. QED BY <1>6, <2>1, <2>4 DEF CloseTab
<1>7. ASSUME NEW k \in Task, AlarmFires(k) PROVE TypeOK'
  <2>1. "alarm" \in Fn /\ "purgeSessions" \in Pc BY DEF Fn, Pc, SessionPc
  <2>2. [Idle EXCEPT !.fn = "alarm", !.pc = "purgeSessions"] \in TaskRecord
    BY <2>1, IdleType DEF TaskRecord
  <2>3. TaskType' BY <1>7, <2>2, BeginType DEF AlarmFires
  <2>4. QED BY <1>7, <2>3 DEF AlarmFires
<1>8. ASSUME NEW k \in Task, Activate(k) PROVE TypeOK'
  <2>1. "recover" \in Fn /\ "scan" \in Pc BY DEF Fn, Pc
  <2>2. [Idle EXCEPT !.fn = "recover", !.pc = "scan"] \in TaskRecord
    BY <2>1, IdleType DEF TaskRecord
  <2>3. TaskType' BY <1>8, <2>2, BeginType DEF Activate
  <2>4. QED BY <1>8, <2>3 DEF Activate
<1>9. ASSUME NEW k \in Task, BrowserStarts(k) PROVE TypeOK'
  <2>1. StoreType' /\ SeenType'
    BY <1>9, NoEntriesType DEF BrowserStarts, StoreType, SeenType
  <2>2. "recover" \in Fn /\ "scan" \in Pc BY DEF Fn, Pc
  <2>3. [Idle EXCEPT !.fn = "recover", !.pc = "scan"] \in TaskRecord
    BY <2>2, IdleType DEF TaskRecord
  <2>4. TaskType' BY <1>9, <2>3, IdleType DEF BrowserStarts, TaskType
  <2>5. QED BY <1>9, <2>1, <2>4 DEF BrowserStarts
<1>10. ASSUME NEW k \in Task, NEW t \in Tab, NEW u \in Origin \cup {None},
              SiteDetected(k, t, u)
       PROVE  TypeOK'
  <2>1. page[t] \in Origin /\ ValidCallback(u, page[t]) \in Origin \cup {None}
    BY <1>10 DEF SiteDetected, EnvType, ValidCallback
  <2>2. "detect" \in Fn /\ "setPending" \in Pc /\ "findSite" \in Pc
    BY DEF Fn, Pc, PendingPc
  <2>3. [Idle EXCEPT !.fn = "detect", !.tab = t, !.origin = page[t],
                     !.cb = ValidCallback(u, page[t]),
                     !.pc = IF ValidCallback(u, page[t]) # None THEN "setPending"
                                                                ELSE "findSite"]
          \in TaskRecord
    BY <2>1, <2>2, IdleType DEF TaskRecord
  <2>4. TaskType' BY <1>10, <2>3, BeginType DEF SiteDetected
  <2>5. QED BY <1>10, <2>4 DEF SiteDetected
<1>11. ASSUME NEW k \in Task, NEW t \in Tab, EnrollRequest(k, t) PROVE TypeOK'
  <2>1. page[t] \in Origin BY <1>11 DEF EnrollRequest, EnvType
  <2>2. "enroll" \in Fn /\ "enrollChallenge" \in Pc BY DEF Fn, Pc
  <2>3. [Idle EXCEPT !.fn = "enroll", !.tab = t, !.origin = page[t],
                     !.pc = "enrollChallenge"] \in TaskRecord
    BY <2>1, <2>2, IdleType DEF TaskRecord
  <2>4. TaskType' BY <1>11, <2>3, BeginType DEF EnrollRequest
  <2>5. QED BY <1>11, <2>4 DEF EnrollRequest
<1>12. ASSUME NEW k \in Task, NEW o \in Origin, RevokeSite(k, o) PROVE TypeOK'
  <2>1. "revoke" \in Fn /\ "revokeDelete" \in Pc BY DEF Fn, Pc
  <2>2. [Idle EXCEPT !.fn = "revoke", !.origin = o, !.pc = "revokeDelete"] \in TaskRecord
    BY <2>1, IdleType DEF TaskRecord
  <2>3. TaskType' BY <1>12, <2>2, BeginType DEF RevokeSite
  <2>4. QED BY <1>12, <2>3 DEF RevokeSite
<1>13. ASSUME ClearSessions PROVE TypeOK'
  <2>1. StoreType' BY <1>13, NoEntriesType DEF ClearSessions, StoreType
  <2>2. QED BY <1>13, <2>1 DEF ClearSessions
<1>14. QED
  BY <1>1, <1>2, <1>3, <1>4, <1>5, <1>6, <1>7, <1>8, <1>9, <1>10, <1>11, <1>12, <1>13
     DEF Environment

\* A step of one handler leaves the others where they are, and one that is not
\* a step of EnrollStep never enters a step that needs an origin.
LEMMA OtherHandlersOrigin ==
    ASSUME TypeOK, NEW k \in Task,
           GetSessions(k) \/ GetInflight(k) \/ GetSites(k) \/ GetPending(k)
             \/ AttestStep(k) \/ LifecycleStep(k)
    PROVE  /\ \A j \in Task \ {k} : task'[j] = task[j]
           /\ task'[k].pc \in SitePcs =>
                /\ task'[k].pc = task[k].pc
                /\ task'[k].origin = task[k].origin /\ task'[k].cb = task[k].cb
<1> USE FrameType DEF SitePcs
<1> DEFINE Keeps == /\ \A j \in Task \ {k} : task'[j] = task[j]
                    /\ task'[k].pc \in SitePcs =>
                         /\ task'[k].pc = task[k].pc
                         /\ task'[k].origin = task[k].origin /\ task'[k].cb = task[k].cb
<1>1. ASSUME NEW pc, pc \notin SitePcs, Goto(k, pc) PROVE Keeps
  BY <1>1 DEF Goto, TaskRecord
<1>2. ASSUME Finish(k) PROVE Keeps
  BY <1>2 DEF Finish, Idle
<1>3. ASSUME NextEntry(k) PROVE Keeps
  BY <1>3 DEF NextEntry, Idle
<1>4. ASSUME NEW new, EndSubmit(k, new) PROVE Keeps
  BY <1>2, <1>3, <1>4 DEF EndSubmit
<1>5. CASE GetSessions(k) \/ GetInflight(k) \/ GetSites(k) \/ GetPending(k)
  BY <1>5 DEF GetSessions, GetInflight, GetSites, GetPending, TaskRecord
<1>6. CASE AttestStep(k)
  <2>1. CASE ChallengeArrives(k) \/ WebAuthnOk(k) \/ SetInflight(k) \/ SetSession(k)
             \/ RelayCert(k)
    BY <1>1, <2>1 DEF ChallengeArrives, WebAuthnOk, SetInflight, SetSession, RelayCert
  <2>2. CASE ChallengeFails(k) \/ LookupCredential(k) \/ WebAuthnFails(k)
             \/ \E issues : VerifyThrows(k, issues)
    BY <1>1, <1>2, <2>2 DEF ChallengeFails, LookupCredential, WebAuthnFails, VerifyThrows, FailVerify
  <2>3. CASE \E issues : RecoverThrows(k, issues) \/ \E reply : AttestReply(k, reply, issues)
    BY <2>3 DEF RecoverThrows, AttestReply, TaskRecord
  <2>4. CASE ClearInflight(k)
    BY <1>1, <1>2, <1>3, <1>4, <2>4 DEF ClearInflight, AfterClear
  <2>5. CASE RemoveRevoked(k) \/ \E t \in Tab : Announce(k, t)
    BY <1>4, <2>5 DEF RemoveRevoked, Announce
  <2>6. QED BY <1>6, <2>1, <2>2, <2>3, <2>4, <2>5 DEF AttestStep
<1>7. CASE LifecycleStep(k)
  <2>1. CASE RecoverScan(k) BY <2>1 DEF RecoverScan, TaskRecord
  <2>2. CASE \E t \in Tab : RecoverEntry(k, t) BY <2>2 DEF RecoverEntry, TaskRecord
  <2>3. CASE RecoverLast(k) BY <2>3 DEF RecoverLast, Idle
  <2>4. CASE PurgeInflight(k) \/ PurgeSessions(k) BY <1>2, <2>4 DEF PurgeInflight, PurgeSessions
  <2>5. CASE ClearSession(k) BY <1>1, <2>5 DEF ClearSession
  <2>6. QED BY <1>7, <2>1, <2>2, <2>3, <2>4, <2>5 DEF LifecycleStep
<1>8. QED BY <1>5, <1>6, <1>7

\* A step of EnrollStep belongs to a handler with an origin, and keeps it.
LEMMA EnrollStepsOrigin ==
    ASSUME TypeOK, NEW k \in Task, EnrollStep(k)
    PROVE  /\ \A j \in Task \ {k} : task'[j] = task[j]
           /\ task[k].pc \in SitePcs
           /\ task'[k].pc \in SitePcs => task'[k].origin = task[k].origin
<1> USE FrameType DEF SitePcs
<1> DEFINE Keeps == /\ \A j \in Task \ {k} : task'[j] = task[j]
                    /\ task'[k].pc \in SitePcs => task'[k].origin = task[k].origin
<1>1. ASSUME NEW pc, Goto(k, pc) PROVE Keeps
  BY <1>1 DEF Goto, TaskRecord
<1>2. ASSUME Finish(k) PROVE Keeps
  BY <1>2 DEF Finish, Idle
<1>3. CASE SetPending(k) \/ FindSite(k) \/ ClearPending(k) \/ AddSite(k)
           \/ DeleteCredential(k) \/ RemoveSite(k)
  BY <1>1, <1>2, <1>3
     DEF SetPending, FindSite, ClearPending, AddSite, DeleteCredential, RemoveSite
<1>4. CASE \E ok \in BOOLEAN : EnrollChallenge(k, ok) \/ CreateCredential(k, ok)
  BY <1>1, <1>2, <1>4 DEF EnrollChallenge, CreateCredential
<1>5. CASE \E enrolled \in BOOLEAN : EnrollReply(k, enrolled)
  BY <1>1, <1>2, <1>5 DEF EnrollReply
<1>6. CASE ReadPending(k)
  BY <1>6 DEF ReadPending, TaskRecord
<1>7. QED BY <1>3, <1>4, <1>5, <1>6 DEF EnrollStep

\* OriginKnown is kept by every step.
LEMMA OriginKept ==
    ASSUME TypeOK, OriginKnown, [Next]_vars
    PROVE  OriginKnown'
<1> USE FrameType, NoneAssumption DEF OriginKnown
<1>1. ASSUME NEW k \in Task, Resume(k) PROVE OriginKnown'
  BY <1>1, OtherHandlersOrigin, EnrollStepsOrigin DEF Resume
<1>2. CASE UNCHANGED task
  BY <1>2
<1>3. ASSUME NEW k \in Task, NEW new, task' = [task EXCEPT ![k] = new],
             new.pc \notin SitePcs \/ new.origin # None
      PROVE  OriginKnown'
  BY <1>3
<1>4. Idle.pc \notin SitePcs
  BY DEF Idle, SitePcs
<1>5. CASE WorkerEnds
  BY <1>4, <1>5 DEF WorkerEnds
<1>6. ASSUME NEW k \in Task, BrowserStarts(k) PROVE OriginKnown'
  <2>1. [Idle EXCEPT !.fn = "recover", !.pc = "scan"].pc \notin SitePcs
    BY DEF Idle, SitePcs
  <2>2. QED BY <1>4, <1>6, <2>1 DEF BrowserStarts
<1>7. ASSUME NEW k \in Task, AlarmFires(k) \/ Activate(k) PROVE OriginKnown'
  <2>1. [Idle EXCEPT !.fn = "alarm", !.pc = "purgeSessions"].pc \notin SitePcs
    BY DEF Idle, SitePcs
  <2>2. [Idle EXCEPT !.fn = "recover", !.pc = "scan"].pc \notin SitePcs
    BY DEF Idle, SitePcs
  <2>3. QED BY <1>3, <1>7, <2>1, <2>2 DEF AlarmFires, Activate
<1>8. ASSUME NEW k \in Task, NEW t \in Tab, CloseTab(k, t) PROVE OriginKnown'
  <2>1. [Idle EXCEPT !.fn = "removed", !.pc = "clearSession", !.tab = t].pc \notin SitePcs
    BY DEF Idle, SitePcs
  <2>2. QED BY <1>3, <1>8, <2>1 DEF CloseTab
<1>9. ASSUME NEW k \in Task, NEW r \in Req, NEW t \in Tab, VerifyPresence(k, r, t)
      PROVE  OriginKnown'
  <2>1. [Idle EXCEPT !.fn = "verify", !.pc = "challenge", !.tab = t, !.origin = page[t],
                     !.req = r].origin # None
    BY <1>9 DEF VerifyPresence, Idle
  <2>2. QED BY <1>3, <1>9, <2>1 DEF VerifyPresence
<1>10. ASSUME NEW k \in Task, NEW t \in Tab, NEW u, SiteDetected(k, t, u) PROVE OriginKnown'
  <2>1. \A pc : [Idle EXCEPT !.fn = "detect", !.tab = t, !.origin = page[t],
                            !.cb = ValidCallback(u, page[t]), !.pc = pc].origin # None
    BY <1>10 DEF SiteDetected, Idle
  <2>2. QED BY <1>3, <1>10, <2>1 DEF SiteDetected
<1>11. ASSUME NEW k \in Task, NEW t \in Tab, EnrollRequest(k, t) PROVE OriginKnown'
  <2>1. [Idle EXCEPT !.fn = "enroll", !.tab = t, !.origin = page[t],
                     !.pc = "enrollChallenge"].origin # None
    BY <1>11 DEF EnrollRequest, Idle
  <2>2. QED BY <1>3, <1>11, <2>1 DEF EnrollRequest
<1>12. ASSUME NEW k \in Task, NEW o \in Origin, RevokeSite(k, o) PROVE OriginKnown'
  <2>1. [Idle EXCEPT !.fn = "revoke", !.origin = o, !.pc = "revokeDelete"].origin # None
    BY DEF Idle
  <2>2. QED BY <1>3, <1>12, <2>1 DEF RevokeSite
<1>13. QED
  BY <1>1, <1>2, <1>5, <1>6, <1>7, <1>8, <1>9, <1>10, <1>11, <1>12
     DEF Next, Environment, vars, Tick, ClearSessions, Navigate, RefuseOrigin

\* The types are kept by every step.
LEMMA TypeKept ==
    ASSUME TypeOK, OriginKnown, [Next]_vars
    PROVE  TypeOK'
<1>1. CASE UNCHANGED vars
  BY <1>1, FrameType DEF vars, TypeOK
<1>2. CASE Environment
  BY <1>2, EnvironmentType
<1>3. ASSUME NEW k \in Task, Resume(k) PROVE TypeOK'
  BY <1>3, StorageGetType, AttestType, LifecycleType, EnrollType DEF Resume
<1>4. QED BY <1>1, <1>2, <1>3 DEF Next

\* The types hold at first.
LEMMA InitType ==
    ASSUME Init
    PROVE  TypeOK /\ OriginKnown
<1>1. StoreType /\ SeenType /\ EnvType
  BY NoEntriesType, WorkerAssumption DEF Init, StoreType, SeenType, EnvType
<1>2. TaskType /\ OriginKnown
  <2>1. Idle.pc = "idle" BY DEF Idle
  <2>2. QED BY <2>1, IdleType DEF Init, TaskType, OriginKnown, SitePcs
<1>3. HistoryType
  BY DEF Init, HistoryType, NoReqData, ReqData
<1>4. ServerType
  BY WorkerAssumption DEF Init, ServerType, OriginsOf, Site
<1>5. QED BY <1>1, <1>2, <1>3, <1>4 DEF TypeOK

\* Every variable keeps its type.  The invariant that is inductive adds
\* OriginKnown: without it addEnrolledSite could store a site without origin.
THEOREM TypeCorrect == Spec => [](TypeOK /\ OriginKnown)
<1>1. Init => TypeOK /\ OriginKnown BY InitType
<1>2. TypeOK /\ OriginKnown /\ [Next]_vars => TypeOK' /\ OriginKnown'
  BY TypeKept, OriginKept
<1>3. QED BY <1>1, <1>2, PTL DEF Spec

-----------------------------------------------------------------------------
\* The enrolled sites

OwnCallbacks(list) == \A s \in list : s.cb \in {None, s.origin}
OwnPending(map)    == \A o \in Origin : map[o] \in {None, o}

\* Every list, every map of pending callbacks and every handler that works for
\* a site has a callback of that site.
CallbackInv ==
    /\ OwnCallbacks(sites) /\ OwnPending(pending)
    /\ \A k \in Task : OwnCallbacks(seenSites[k]) /\ OwnPending(seenPending[k])
    /\ \A k \in Task : task[k].pc \in SitePcs => task[k].cb \in {None, task[k].origin}

\* Every list, and every handler about to add a site, has confirmed origins.
AddPcs == {"getPending", "clearPending", "addSite"}
ConfirmedInv ==
    /\ OriginsOf(sites) \subseteq confirmed
    /\ \A k \in Task : OriginsOf(seenSites[k]) \subseteq confirmed
    /\ \A k \in Task : task[k].pc \in AddPcs => task[k].origin \in confirmed

SiteInv == CallbackInv /\ ConfirmedInv

-----------------------------------------------------------------------------
\* SiteInv holds at first.
LEMMA SiteInvInit ==
    ASSUME Init
    PROVE  SiteInv
<1>1. \A s \in sites : s.cb \in {None, s.origin}
  BY WorkerAssumption DEF Init
<1>2. CallbackInv
  BY <1>1 DEF Init, CallbackInv, OwnCallbacks, OwnPending, NoPending, Idle, SitePcs
<1>3. ConfirmedInv
  BY DEF Init, ConfirmedInv, OriginsOf, Idle, AddPcs
<1>4. QED BY <1>2, <1>3 DEF SiteInv

\* The gets of the wrappers copy a list, or a map, that is right already.
LEMMA SiteInvGet ==
    ASSUME TypeOK, SiteInv, NEW k \in Task,
           GetSessions(k) \/ GetInflight(k) \/ GetSites(k) \/ GetPending(k)
    PROVE  SiteInv'
<1> USE FrameType DEF SiteInv
<1>1. /\ \A j \in Task : task'[j].pc = task[j].pc /\ task'[j].origin = task[j].origin
                         /\ task'[j].cb = task[j].cb
      /\ UNCHANGED <<sites, pending, confirmed>>
  BY DEF GetSessions, GetInflight, GetSites, GetPending, TaskRecord, storeVars, serverVars
<1>2. \A j \in Task : /\ seenSites'[j] \in {seenSites[j], sites}
                      /\ seenPending'[j] \in {seenPending[j], pending}
  BY DEF TypeOK, SeenType, GetSessions, GetInflight, GetSites, GetPending
<1>3. CallbackInv' BY <1>1, <1>2 DEF CallbackInv, OwnCallbacks, OwnPending
<1>4. ConfirmedInv' BY <1>1, <1>2 DEF ConfirmedInv, OriginsOf
<1>5. QED BY <1>3, <1>4

\* Handlers that do not work for a site at most remove sites.
LEMMA SiteInvOther ==
    ASSUME TypeOK, SiteInv, NEW k \in Task, AttestStep(k) \/ LifecycleStep(k)
    PROVE  SiteInv'
<1> USE FrameType DEF SiteInv
<1>1. /\ \A j \in Task \ {k} : task'[j] = task[j]
      /\ task'[k].pc \in SitePcs =>
           /\ task'[k].pc = task[k].pc
           /\ task'[k].origin = task[k].origin /\ task'[k].cb = task[k].cb
  BY OtherHandlersOrigin
<1>2. UNCHANGED <<pending, seenPending, confirmed>>
  BY DEF AttestStep, LifecycleStep, ChallengeArrives, ChallengeFails, LookupCredential,
         WebAuthnOk, WebAuthnFails, SetInflight, AttestReply, VerifyThrows, RecoverThrows,
         ClearInflight, RemoveRevoked, SetSession, RelayCert, Announce, RecoverScan,
         RecoverEntry, RecoverLast, PurgeInflight, PurgeSessions, ClearSession,
         WriteSessions, WriteInflight, WriteSites, storeVars, seenVars, serverVars
<1>3. sites' \subseteq sites \cup seenSites[k]
      /\ \A j \in Task : seenSites'[j] \subseteq seenSites[j]
  BY DEF AttestStep, LifecycleStep, ChallengeArrives, ChallengeFails, LookupCredential,
         WebAuthnOk, WebAuthnFails, SetInflight, AttestReply, VerifyThrows, RecoverThrows,
         ClearInflight, RemoveRevoked, SetSession, RelayCert, Announce, RecoverScan,
         RecoverEntry, RecoverLast, PurgeInflight, PurgeSessions, ClearSession,
         WriteSessions, WriteInflight, WriteSites, storeVars, seenVars, serverVars,
         DropRp, TypeOK, SeenType
<1>4. CallbackInv' BY <1>1, <1>2, <1>3 DEF CallbackInv, OwnCallbacks, OwnPending
<1>5. ConfirmedInv'
  BY <1>1, <1>2, <1>3 DEF ConfirmedInv, OriginsOf, AddPcs, SitePcs
<1>6. QED BY <1>4, <1>5

\* The handlers that work for a site keep SiteInv.
LEMMA SiteInvEnroll ==
    ASSUME TypeOK, OriginKnown, SiteInv, NEW k \in Task, EnrollStep(k)
    PROVE  SiteInv'
<1> USE FrameType DEF SiteInv
<1>1. /\ \A j \in Task \ {k} : task'[j] = task[j]
      /\ task[k].pc \in SitePcs /\ task[k].origin \in Origin
      /\ task'[k].pc \in SitePcs => task'[k].origin = task[k].origin
  BY EnrollStepsOrigin DEF OriginKnown, TaskRecord
<1>2. task[k].cb \in {None, task[k].origin}
  BY <1>1 DEF CallbackInv
<1>3. task'[k].pc \in SitePcs => task'[k].cb \in {None, task[k].origin}
  <2>1. ASSUME NEW pc, Goto(k, pc) PROVE task'[k].cb = task[k].cb
    BY <2>1 DEF Goto, TaskRecord
  <2>2. ASSUME Finish(k) PROVE task'[k].pc \notin SitePcs
    BY <2>2 DEF Finish, Idle, SitePcs
  <2>3. CASE ReadPending(k)
    BY <1>1, <2>3 DEF ReadPending, CallbackInv, OwnPending, TaskRecord
  <2>4. CASE SetPending(k) \/ FindSite(k) \/ ClearPending(k) \/ AddSite(k)
             \/ DeleteCredential(k) \/ RemoveSite(k)
    BY <1>2, <2>1, <2>2, <2>4
       DEF SetPending, FindSite, ClearPending, AddSite, DeleteCredential, RemoveSite
  <2>5. ASSUME NEW ok \in BOOLEAN, EnrollChallenge(k, ok) \/ CreateCredential(k, ok)
        PROVE  task'[k].pc \in SitePcs => task'[k].cb \in {None, task[k].origin}
    BY <1>2, <2>1, <2>2, <2>5 DEF EnrollChallenge, CreateCredential
  <2>6. ASSUME NEW enrolled \in BOOLEAN, EnrollReply(k, enrolled)
        PROVE  task'[k].pc \in SitePcs => task'[k].cb \in {None, task[k].origin}
    BY <1>2, <2>1, <2>2, <2>6 DEF EnrollReply
  <2>7. QED BY <2>3, <2>4, <2>5, <2>6 DEF EnrollStep
<1>4. /\ task[k].pc = "addSite" =>
           /\ OwnCallbacks(PutSite(seenSites[k], task[k].origin, task[k].cb))
           /\ OriginsOf(PutSite(seenSites[k], task[k].origin, task[k].cb)) \subseteq confirmed
      /\ OwnCallbacks(DropOrigin(seenSites[k], task[k].origin))
      /\ OriginsOf(DropOrigin(seenSites[k], task[k].origin)) \subseteq confirmed
  BY <1>2 DEF CallbackInv, ConfirmedInv, OwnCallbacks, OriginsOf, AddPcs, PutSite, DropOrigin
<1>5. /\ OwnPending([seenPending[k] EXCEPT ![task[k].origin] = task[k].cb])
      /\ OwnPending([seenPending[k] EXCEPT ![task[k].origin] = None])
  BY <1>1, <1>2 DEF CallbackInv, OwnPending, TypeOK, SeenType, PendingMap
<1>6. /\ OwnCallbacks(sites') /\ OriginsOf(sites') \subseteq confirmed
      /\ OwnPending(pending')
      /\ \A j \in Task : seenSites'[j] \in {seenSites[j], {}}
      /\ \A j \in Task : seenPending'[j] \in {seenPending[j], NoPending}
  <2>1. CASE UNCHANGED <<storeVars, seenVars>>
    BY <2>1 DEF CallbackInv, ConfirmedInv, storeVars, seenVars
  <2>2. CASE SetPending(k) \/ ClearPending(k)
    BY <1>5, <2>2 DEF SetPending, ClearPending, WritePending, CallbackInv, ConfirmedInv,
       TypeOK, SeenType
  <2>3. CASE AddSite(k) \/ RemoveSite(k)
    BY <1>4, <2>3 DEF AddSite, RemoveSite, WriteSites, CallbackInv, ConfirmedInv,
       TypeOK, SeenType
  <2>4. QED
    BY <2>1, <2>2, <2>3
       DEF EnrollStep, FindSite, EnrollChallenge, CreateCredential, EnrollReply, ReadPending,
           DeleteCredential
<1>7. CallbackInv'
  BY <1>1, <1>3, <1>6 DEF CallbackInv, OwnCallbacks, OwnPending, NoPending
<1>8. confirmed \subseteq confirmed'
  BY DEF EnrollStep, SetPending, FindSite, EnrollChallenge, CreateCredential, EnrollReply,
         ReadPending, ClearPending, AddSite, DeleteCredential, RemoveSite, serverVars
<1>9. task'[k].pc \in AddPcs => task[k].origin \in confirmed'
  <2>1. ASSUME NEW pc, Goto(k, pc) PROVE task'[k].pc = pc
    BY <2>1 DEF Goto, TaskRecord
  <2>2. ASSUME Finish(k) PROVE task'[k].pc \notin AddPcs
    BY <2>2 DEF Finish, Idle, AddPcs
  <2>3. CASE SetPending(k) \/ AddSite(k) \/ DeleteCredential(k) \/ RemoveSite(k)
    BY <2>1, <2>2, <2>3 DEF SetPending, AddSite, DeleteCredential, RemoveSite, AddPcs
  <2>4. CASE FindSite(k)
    BY <1>8, <2>1, <2>2, <2>4 DEF FindSite, SitesOf, ConfirmedInv, OriginsOf
  <2>5. CASE ClearPending(k) \/ ReadPending(k)
    BY <1>8, <2>5 DEF ClearPending, ReadPending, ConfirmedInv, AddPcs
  <2>6. ASSUME NEW ok \in BOOLEAN, EnrollChallenge(k, ok) \/ CreateCredential(k, ok)
        PROVE  task'[k].pc \notin AddPcs
    BY <2>1, <2>2, <2>6 DEF EnrollChallenge, CreateCredential, AddPcs
  <2>7. ASSUME NEW enrolled \in BOOLEAN, EnrollReply(k, enrolled)
        PROVE  task'[k].pc \in AddPcs => task[k].origin \in confirmed'
    BY <2>2, <2>7 DEF EnrollReply
  <2>8. QED BY <2>3, <2>4, <2>5, <2>6, <2>7 DEF EnrollStep
<1>10. ConfirmedInv'
  <2>1. OriginsOf(sites') \subseteq confirmed' BY <1>6, <1>8
  <2>2. \A j \in Task : OriginsOf(seenSites'[j]) \subseteq confirmed'
    BY <1>6, <1>8 DEF ConfirmedInv, OriginsOf
  <2>3. \A j \in Task : task'[j].pc \in AddPcs => task'[j].origin \in confirmed'
    BY <1>1, <1>8, <1>9 DEF ConfirmedInv, AddPcs, SitePcs
  <2>4. QED BY <2>1, <2>2, <2>3 DEF ConfirmedInv
<1>11. QED BY <1>7, <1>10

\* What the environment does: handlers begin, or all of them end.
LEMMA SiteInvEnvironment ==
    ASSUME TypeOK, SiteInv, Environment
    PROVE  SiteInv'
<1> USE FrameType DEF SiteInv
<1>1. /\ UNCHANGED <<sites, confirmed>> /\ pending' \in {pending, NoPending}
      /\ \A j \in Task : seenSites'[j] \in {seenSites[j], {}}
      /\ \A j \in Task : seenPending'[j] \in {seenPending[j], NoPending}
  BY DEF Environment, Tick, WorkerEnds, ClearSessions, Navigate, RefuseOrigin, VerifyPresence, CloseTab,
         AlarmFires, Activate, BrowserStarts, SiteDetected, EnrollRequest, RevokeSite,
         storeVars, seenVars, serverVars
<1> DEFINE Begins(new) == new.pc \notin AddPcs /\ (new.pc \in SitePcs => new.cb \in {None, new.origin})
<1>2. ASSUME NEW k \in Task, NEW new, Begins(new), task' = [task EXCEPT ![k] = new]
      PROVE  SiteInv'
  <2>1. CallbackInv'
    BY <1>1, <1>2 DEF CallbackInv, OwnPending, OwnCallbacks, NoPending
  <2>2. ConfirmedInv'
    BY <1>1, <1>2 DEF ConfirmedInv, OriginsOf
  <2>3. QED BY <2>1, <2>2
<1>3. ASSUME \A j \in Task : task'[j] = task[j] \/ task'[j].pc \notin SitePcs PROVE SiteInv'
  <2>1. CallbackInv'
    BY <1>1, <1>3 DEF CallbackInv, OwnPending, OwnCallbacks, NoPending
  <2>2. ConfirmedInv'
    BY <1>1, <1>3 DEF ConfirmedInv, OriginsOf, SitePcs, AddPcs
  <2>3. QED BY <2>1, <2>2
<1>4. CASE UNCHANGED task
  BY <1>3, <1>4
<1>5. CASE WorkerEnds \/ \E k \in Task : BrowserStarts(k)
  <2>1. Idle.pc \notin SitePcs
        /\ [Idle EXCEPT !.fn = "recover", !.pc = "scan"].pc \notin SitePcs
    BY DEF Idle, SitePcs
  <2>2. \A j \in Task : task'[j].pc \notin SitePcs
    BY <1>5, <2>1 DEF WorkerEnds, BrowserStarts
  <2>3. QED BY <1>3, <2>2
<1>6. ASSUME NEW k \in Task, AlarmFires(k) \/ Activate(k) PROVE SiteInv'
  <2>1. Begins([Idle EXCEPT !.fn = "alarm", !.pc = "purgeSessions"])
        /\ Begins([Idle EXCEPT !.fn = "recover", !.pc = "scan"])
    BY DEF Idle, SitePcs, AddPcs
  <2>2. QED BY <1>2, <1>6, <2>1 DEF AlarmFires, Activate
<1>7. ASSUME NEW k \in Task, NEW t \in Tab, CloseTab(k, t) PROVE SiteInv'
  <2>1. Begins([Idle EXCEPT !.fn = "removed", !.pc = "clearSession", !.tab = t])
    BY DEF Idle, SitePcs, AddPcs
  <2>2. QED BY <1>2, <1>7, <2>1 DEF CloseTab
<1>8. ASSUME NEW k \in Task, NEW r \in Req, NEW t \in Tab, VerifyPresence(k, r, t)
      PROVE  SiteInv'
  <2>1. Begins([Idle EXCEPT !.fn = "verify", !.pc = "challenge", !.tab = t,
                            !.origin = page[t], !.req = r])
    BY DEF Idle, SitePcs, AddPcs
  <2>2. QED BY <1>2, <1>8, <2>1 DEF VerifyPresence
<1>9. ASSUME NEW k \in Task, NEW t \in Tab, NEW u \in Origin \cup {None}, SiteDetected(k, t, u)
      PROVE  SiteInv'
  <2> DEFINE cb == ValidCallback(u, page[t])
             pc == IF cb # None THEN "setPending" ELSE "findSite"
             new == [Idle EXCEPT !.fn = "detect", !.tab = t, !.origin = page[t],
                                 !.cb = cb, !.pc = pc]
  <2>1. cb \in {None, page[t]} BY DEF ValidCallback
  <2>2. pc \notin AddPcs BY DEF AddPcs
  <2>3. task' = [task EXCEPT ![k] = new] BY <1>9 DEF SiteDetected
  <2> HIDE DEF cb, pc
  <2>4. new.pc = pc /\ new.cb = cb /\ new.origin = page[t] BY DEF Idle
  <2>5. Begins(new) BY <2>1, <2>2, <2>4
  <2>6. QED BY <1>2, <2>3, <2>5
<1>10. ASSUME NEW k \in Task, NEW t \in Tab, EnrollRequest(k, t) PROVE SiteInv'
  <2>1. Begins([Idle EXCEPT !.fn = "enroll", !.tab = t, !.origin = page[t],
                            !.pc = "enrollChallenge"])
    BY DEF Idle, SitePcs, AddPcs
  <2>2. QED BY <1>2, <1>10, <2>1 DEF EnrollRequest
<1>11. ASSUME NEW k \in Task, NEW o \in Origin, RevokeSite(k, o) PROVE SiteInv'
  <2>1. Begins([Idle EXCEPT !.fn = "revoke", !.origin = o, !.pc = "revokeDelete"])
    BY DEF Idle, SitePcs, AddPcs
  <2>2. QED BY <1>2, <1>11, <2>1 DEF RevokeSite
<1>12. QED
  BY <1>4, <1>5, <1>6, <1>7, <1>8, <1>9, <1>10, <1>11
     DEF Environment, Tick, ClearSessions, Navigate, RefuseOrigin

\* SiteInv is kept by every step.
LEMMA SiteInvKept ==
    ASSUME TypeOK, OriginKnown, SiteInv, [Next]_vars
    PROVE  SiteInv'
<1>1. CASE UNCHANGED vars
  BY <1>1 DEF vars, storeVars, seenVars, serverVars, SiteInv, CallbackInv, ConfirmedInv,
              OwnCallbacks, OwnPending, OriginsOf
<1>2. CASE Environment
  BY <1>2, SiteInvEnvironment
<1>3. ASSUME NEW k \in Task, Resume(k) PROVE SiteInv'
  BY <1>3, SiteInvGet, SiteInvOther, SiteInvEnroll DEF Resume
<1>4. QED BY <1>1, <1>2, <1>3 DEF Next

\* SiteInv is an invariant.
LEMMA SiteInvAlways == Spec => []SiteInv
<1>1. Init => SiteInv BY SiteInvInit
<1>2. TypeOK /\ OriginKnown /\ SiteInv /\ [Next]_vars => SiteInv' BY SiteInvKept
<1>3. QED BY <1>1, <1>2, TypeCorrect, PTL DEF Spec

\* The extension never lists a site whose enrollment the server has not
\* confirmed, however the read-change-write wrappers of the list interleave and
\* wherever the worker is ended (hpp-storage.js, onEnrollRequest).
THEOREM EnrolledIsConfirmed == Spec => []EnrolledOnlyConfirmed
<1>1. SiteInv => EnrolledOnlyConfirmed
  BY DEF SiteInv, ConfirmedInv, EnrolledOnlyConfirmed
<1>2. QED BY <1>1, SiteInvAlways, PTL

\* The callback of an enrolled site is one of its own origin, also when it was
\* left pending by one handler and taken up by another (validateCallbackUrl,
\* onSiteDetected, onEnrollRequest).
THEOREM CallbackIsOwn == Spec => []CallbackOfOwnOrigin
<1>1. SiteInv => CallbackOfOwnOrigin
  BY DEF SiteInv, CallbackInv, OwnCallbacks, CallbackOfOwnOrigin
<1>2. QED BY <1>1, SiteInvAlways, PTL
=============================================================================
