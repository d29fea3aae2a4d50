---------------------------- MODULE HppLifecycle ----------------------------
(***************************************************************************)
(* The events of chrome-extension/background.js that nobody asks for: the  *)
(* recovery of inflight entries when the worker is activated or the        *)
(* browser starts, the minute alarm, a tab that closes; and Chrome ending  *)
(* the worker, which the code does not get to see.                         *)
(***************************************************************************)
EXTENDS HppAttest

CONSTANT Stale      \* the 120 s after which an inflight entry is dead

ASSUME StaleAssumption == Stale \in Nat

Age(r) == now - req[r].started

PurgeStale(map) ==
    [t \in Tab |-> IF map[t] # None /\ Age(map[t]) > Stale THEN None ELSE map[t]]

NoTasks == task = [k \in Task |-> Idle]

-----------------------------------------------------------------------------
\* recoverInflight

\* The "activate" event of a new worker; chrome.storage.session is as the old
\* one left it.
Activate(k) ==
    /\ NoTasks
    /\ task' = [task EXCEPT ![k] = [Idle EXCEPT !.fn = "recover", !.pc = "scan"]]
    /\ UNCHANGED <<storeVars, seenVars, histVars, serverVars, envVars>>

\* runtime.onStartup: a new browser session, with an empty storage.session.
\* The tabs it restores stand for the tabs it had.
BrowserStarts(k) ==
    /\ sessions' = NoEntries /\ inflight' = NoEntries /\ pending' = NoPending
    /\ task' = [j \in Task |-> IF j = k
                  THEN [Idle EXCEPT !.fn = "recover", !.pc = "scan"] ELSE Idle]
    /\ seenSessions' = [j \in Task |-> NoEntries]
    /\ seenInflight' = [j \in Task |-> NoEntries]
    /\ seenSites'    = [j \in Task |-> {}]
    /\ seenPending'  = [j \in Task |-> NoPending]
    /\ UNCHANGED <<sites, histVars, serverVars, envVars>>

RecoverScan(k) ==
    /\ task[k].pc = "scan"
    /\ task' = [task EXCEPT ![k].pc = "recoverNext", ![k].plan = inflight]
    /\ UNCHANGED <<storeVars, seenVars, histVars, serverVars, envVars>>

\* A recovery that submits the entry of one tab on behalf of another.
RecoverEntryAnyTab(k, t) ==
    LET r == task[k].plan[t] IN
    /\ task[k].pc = "recoverNext" /\ r # None
    /\ \E u \in Tab :
       task' = [task EXCEPT ![k] = [@ EXCEPT
                  !.tab = u, !.plan = DropEntry(task[k].plan, t),
                  !.pc = "post", !.resp = "none", !.req = r]]
    /\ Record(r, {"resumed"})
    /\ UNCHANGED <<storeVars, seenVars, req, delivered, presented, serverVars, envVars>>

\* The next entry of the snapshot: abandoned when it is too old, else submitted
\* again.  Tab ids are visited in any order (they are numbers chosen by Chrome).
RecoverEntry(k, t) ==
    LET r == task[k].plan[t] IN
    /\ task[k].pc = "recoverNext" /\ r # None
    /\ task' = [task EXCEPT ![k] = [@ EXCEPT
                  !.tab = t, !.plan = DropEntry(task[k].plan, t),
                  !.pc   = IF Age(r) > Stale THEN "clearInflight" ELSE "post",
                  !.resp = IF Age(r) > Stale THEN "stale" ELSE "none",
                  !.req  = IF Age(r) > Stale THEN None ELSE r]]
    /\ Record(r, IF Age(r) > Stale THEN {} ELSE {"resumed"})
    /\ UNCHANGED <<storeVars, seenVars, req, delivered, presented, serverVars, envVars>>

RecoverLast(k) ==
    /\ task[k].pc = "recoverNext" /\ task[k].plan = NoEntries
    /\ task' = [task EXCEPT ![k] = [Idle EXCEPT !.fn = "recover", !.pc = "purgeInflight"]]
    /\ UNCHANGED <<storeVars, seenVars, histVars, serverVars, envVars>>

\* purgeStaleInflight writes only when it removed something.
PurgeInflight(k) ==
    LET kept == PurgeStale(seenInflight[k]) IN
    /\ task[k].pc = "purgeInflight"
    /\ WriteInflight(k, IF kept # seenInflight[k] THEN kept ELSE inflight)
    /\ Finish(k)
    /\ UNCHANGED <<histVars, serverVars, envVars>>

-----------------------------------------------------------------------------
\* The expiry alarm and tabs.onRemoved

AlarmFires(k) ==
    /\ task[k] = Idle
    /\ task' = [task EXCEPT ![k] = [Idle EXCEPT !.fn = "alarm", !.pc = "purgeSessions"]]
    /\ UNCHANGED <<storeVars, seenVars, histVars, serverVars, envVars>>

\* purgeExpiredSessions writes only when it removed something.
PurgeSessions(k) ==
    LET kept == PurgeExpired(seenSessions[k]) IN
    /\ task[k].pc = "purgeSessions"
    /\ WriteSessions(k, IF kept # seenSessions[k] THEN kept ELSE sessions)
    /\ Finish(k)
    /\ UNCHANGED <<histVars, serverVars, envVars>>

CloseTab(k, t) ==
    /\ task[k] = Idle /\ page[t] # None
    /\ page' = [page EXCEPT ![t] = None]
    /\ task' = [task EXCEPT ![k] = [Idle EXCEPT !.fn = "removed",
                                        !.pc = "clearSession", !.tab = t]]
    /\ UNCHANGED <<storeVars, seenVars, histVars, serverVars, now>>

ClearSession(k) ==
    /\ task[k].pc = "clearSession"
    /\ WriteSessions(k, DropEntry(seenSessions[k], task[k].tab))
    /\ Goto(k, "clearInflight")
    /\ UNCHANGED <<histVars, serverVars, envVars>>

\* "Clear All Sessions" of the options page, which removes both maps without a
\* word to the worker's handlers.
ClearSessions ==
    /\ sessions # NoEntries \/ inflight # NoEntries
    /\ sessions' = NoEntries /\ inflight' = NoEntries
    /\ UNCHANGED <<sites, pending, task, seenVars, histVars, serverVars, envVars>>

-----------------------------------------------------------------------------
\* External: Chrome ends the worker; every suspended handler is gone, storage
\* stays, and no event is delivered when the worker is loaded again.
WorkerEnds ==
    /\ ~NoTasks
    /\ task' = [k \in Task |-> Idle]
    /\ seenSessions' = [k \in Task |-> NoEntries]
    /\ seenInflight' = [k \in Task |-> NoEntries]
    /\ seenSites'    = [k \in Task |-> {}]
    /\ seenPending'  = [k \in Task |-> NoPending]
    /\ UNCHANGED <<storeVars, histVars, serverVars, envVars>>

LifecycleStep(k) ==
    \/ RecoverScan(k) \/ (\E t \in Tab : RecoverEntry(k, t)) \/ RecoverLast(k)
    \/ PurgeInflight(k) \/ PurgeSessions(k) \/ ClearSession(k)
=============================================================================
