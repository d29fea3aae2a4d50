----------------------------- MODULE TabUiProofs ----------------------------
(***************************************************************************)
(* Proofs about what a tab shows, for any number of tabs, verifications    *)
(* and handlers.  A handler sets the icon long after it looked at a        *)
(* session, or was given a certificate, and from sessions it read before   *)
(* they were purged; so the inductive invariant says of each session, each *)
(* copy of the sessions and each handler on its way to the icon that the   *)
(* tab has earned it.                                                      *)
(***************************************************************************)
EXTENDS TabUi, TLAPS

TaskRecord == [pc : TaskPc, tab : Tab \cup {None}, origin : Origin \cup {None},
               seen : [Tab -> Int \cup {None}], todo : SUBSET Tab]
VerifyRecord == [pc : VerifyPc, tab : Tab \cup {None}]

\* Handlers that work for a tab; the minute alarm works for all.
TabPcs == TaskPc \ {"idle", "purge", "sessions", "icons"}

\* Where won are the tabs that have earned it.
TaskEarned(tk, won) ==
    /\ tk.pc \in TabPcs => tk.tab # None
    /\ tk.pc = "enrolling" => tk.origin # None
    /\ tk.pc = "activeIcon" => tk.tab \in won
    /\ \A t \in Tab : tk.seen[t] # None => t \in won
VerifyEarned(vf, won) ==
    /\ vf.pc # "new" => vf.tab # None
    /\ vf.pc = "activeIcon" => vf.tab \in won

SessionsEarned == \A t \in Tab : session[t] # None => t \in earned
TasksEarned    == \A k \in Task : TaskEarned(task[k], earned)
VerifiesEarned == \A v \in Verification : VerifyEarned(verify[v], earned)
GateHasPage    == \A t \in Tab : gate[t] # "none" => page[t] # None

EarnedInv ==
    TypeOK /\ SessionsEarned /\ TasksEarned /\ VerifiesEarned /\ GateHasPage /\ ActiveEarned

-----------------------------------------------------------------------------
\* No tab is anything at first.
LEMMA EarnedInvInit == Init => EarnedInv
<1> SUFFICES ASSUME Init PROVE EarnedInv
  OBVIOUS
<1> USE TabUiAssumption DEF Init, Idle, NoSessions
<1>1. TypeOK BY DEF TypeOK, Icon, Gate, VerifyPc, TaskPc
<1>2. SessionsEarned BY DEF SessionsEarned
<1>3. TasksEarned BY DEF TasksEarned, TaskEarned, TabPcs
<1>4. VerifiesEarned BY DEF VerifiesEarned, VerifyEarned
<1>5. GateHasPage BY DEF GateHasPage
<1>6. ActiveEarned BY DEF ActiveEarned
<1>7. QED BY <1>1, <1>2, <1>3, <1>4, <1>5, <1>6 DEF EarnedInv

\* What a handler becomes is typed and earned if its new record is; the other
\* handlers only gain by what is earned meanwhile.
LEMMA TaskBecomes ==
    ASSUME EarnedInv, NEW k \in Task, NEW new \in TaskRecord,
           task' = [task EXCEPT ![k] = new],
           TaskEarned(new, earned'), earned \subseteq earned'
    PROVE  task' \in [Task -> TaskRecord] /\ TasksEarned'
<1>1. task \in [Task -> TaskRecord] BY DEF EarnedInv, TypeOK, TaskRecord
<1>2. task' \in [Task -> TaskRecord] BY <1>1
<1>3. task'[k] = new /\ \A j \in Task \ {k} : task'[j] = task[j] BY <1>1
<1>4. ASSUME NEW j \in Task PROVE TaskEarned(task'[j], earned')
  <2>1. CASE j = k BY <1>3, <2>1
  <2>2. CASE j # k BY <1>3, <2>2 DEF EarnedInv, TasksEarned, TaskEarned
  <2>3. QED BY <2>1, <2>2
<1>5. QED BY <1>2, <1>4 DEF TasksEarned

\* The same for a verification.
LEMMA VerifyBecomes ==
    ASSUME EarnedInv, NEW v \in Verification, NEW new \in VerifyRecord,
           verify' = [verify EXCEPT ![v] = new],
           VerifyEarned(new, earned'), earned \subseteq earned'
    PROVE  verify' \in [Verification -> VerifyRecord] /\ VerifiesEarned'
<1>1. verify \in [Verification -> VerifyRecord] BY DEF EarnedInv, TypeOK, VerifyRecord
<1>2. verify' \in [Verification -> VerifyRecord] BY <1>1
<1>3. verify'[v] = new /\ \A w \in Verification \ {v} : verify'[w] = verify[w] BY <1>1
<1>4. ASSUME NEW w \in Verification PROVE VerifyEarned(verify'[w], earned')
  <2>1. CASE w = v BY <1>3, <2>1
  <2>2. CASE w # v BY <1>3, <2>2 DEF EarnedInv, VerifiesEarned, VerifyEarned
  <2>3. QED BY <2>1, <2>2
<1>5. QED BY <1>2, <1>4 DEF VerifiesEarned

\* Handlers and verifications that do not move keep what they have earned.
LEMMA UnmovedEarned ==
    ASSUME EarnedInv, earned \subseteq earned'
    PROVE  /\ UNCHANGED task => task' \in [Task -> TaskRecord] /\ TasksEarned'
           /\ UNCHANGED verify => verify' \in [Verification -> VerifyRecord] /\ VerifiesEarned'
BY DEF EarnedInv, TypeOK, TaskRecord, VerifyRecord, TasksEarned, TaskEarned,
       VerifiesEarned, VerifyEarned

\* Setting the icon of a tab to "active" takes that the tab has earned it.
LEMMA SetIconEarned ==
    ASSUME EarnedInv, NEW t \in Tab, NEW state \in Icon, SetIcon(t, state),
           state \in {"active", "expiring"} => t \in earned, earned \subseteq earned'
    PROVE  icon' \in [Tab -> Icon] /\ ActiveEarned'
<1>1. icon \in [Tab -> Icon] /\ ActiveEarned BY DEF EarnedInv, TypeOK
<1>2. icon' \in [Tab -> Icon] BY <1>1 DEF SetIcon
<1>3. icon'[t] = state /\ \A u \in Tab \ {t} : icon'[u] = icon[u] BY <1>1 DEF SetIcon
<1>4. QED BY <1>1, <1>2, <1>3 DEF ActiveEarned

\* A gate that is removed leaves none behind without a page.
LEMMA RemoveGateTyped ==
    ASSUME EarnedInv, NEW t \in Tab, RemoveGate(t)
    PROVE  /\ gate' \in [Tab -> Gate] /\ asked' \in [Tab -> Verification \cup {None}]
           /\ gate'[t] = "none" /\ \A u \in Tab \ {t} : gate'[u] = gate[u]
BY DEF EarnedInv, TypeOK, RemoveGate, Gate

-----------------------------------------------------------------------------
\* A handler that starts for a tab, or the minute alarm.
LEMMA SpawnEarned ==
    ASSUME EarnedInv, NEW k \in Task, NEW pc \in {"findSite", "defaultIcon", "enrolling", "purge"},
           NEW t \in Tab \cup {None}, NEW o \in Origin \cup {None}, Spawn(k, pc, t, o),
           pc # "purge" => t # None, pc = "enrolling" => o # None, earned \subseteq earned'
    PROVE  task' \in [Task -> TaskRecord] /\ TasksEarned'
<1> DEFINE new == [Idle EXCEPT !.pc = pc, !.tab = t, !.origin = o]
<1>1. Idle \in TaskRecord /\ Idle.seen = NoSessions
  BY DEF Idle, NoSessions, TaskRecord, TaskPc
<1>2. new \in TaskRecord BY <1>1 DEF TaskRecord, TaskPc
<1>3. new.pc = pc /\ new.tab = t /\ new.origin = o /\ new.seen = NoSessions
  BY <1>1 DEF TaskRecord
<1>4. TaskEarned(new, earned') BY <1>3 DEF TaskEarned, TabPcs, NoSessions
<1>5. task' = [task EXCEPT ![k] = new] BY DEF Spawn
<1> HIDE DEF new
<1>6. QED BY <1>2, <1>4, <1>5, TaskBecomes

\* A handler goes on to the icon only for a tab that has earned it.
LEMMA GotoEarned ==
    ASSUME EarnedInv, NEW k \in Task, NEW to \in TaskPc \ {"enrolling"}, Goto(k, to),
           to \in TabPcs => task[k].pc \in TabPcs,
           to = "activeIcon" => task[k].tab \in earned', earned \subseteq earned'
    PROVE  task' \in [Task -> TaskRecord] /\ TasksEarned'
<1> DEFINE new == [task[k] EXCEPT !.pc = to]
<1>1. task[k] \in TaskRecord /\ TaskEarned(task[k], earned)
  BY DEF EarnedInv, TypeOK, TaskRecord, TasksEarned
<1>2. new \in TaskRecord BY <1>1 DEF TaskRecord
<1>3. /\ new.pc = to /\ new.tab = task[k].tab /\ new.origin = task[k].origin
      /\ new.seen = task[k].seen
  BY <1>1 DEF TaskRecord
<1>4. TaskEarned(new, earned') BY <1>1, <1>3 DEF TaskEarned
<1>5. task' = [task EXCEPT ![k] = new] BY DEF Goto
<1> HIDE DEF new
<1>6. QED BY <1>2, <1>4, <1>5, TaskBecomes

\* A handler that ends holds nothing.
LEMMA FinishEarned ==
    ASSUME EarnedInv, NEW k \in Task, Finish(k), earned \subseteq earned'
    PROVE  task' \in [Task -> TaskRecord] /\ TasksEarned'
<1>1. Idle \in TaskRecord BY DEF Idle, NoSessions, TaskRecord, TaskPc
<1>2. TaskEarned(Idle, earned') BY DEF Idle, NoSessions, TaskEarned, TabPcs
<1>3. QED BY <1>1, <1>2, TaskBecomes DEF Finish

\* A verification that goes on works for the same tab.
LEMMA VerifyGotoEarned ==
    ASSUME EarnedInv, NEW v \in Verification, NEW from \in VerifyPc \ {"new"},
           NEW to \in VerifyPc \ {"new"}, VerifyGoto(v, from, to),
           to = "activeIcon" => verify[v].tab \in earned', earned \subseteq earned'
    PROVE  verify' \in [Verification -> VerifyRecord] /\ VerifiesEarned'
<1> DEFINE new == [verify[v] EXCEPT !.pc = to]
<1>1. verify[v] \in VerifyRecord /\ VerifyEarned(verify[v], earned) /\ verify[v].pc = from
  BY DEF EarnedInv, TypeOK, VerifyRecord, VerifiesEarned, VerifyGoto
<1>2. new \in VerifyRecord BY <1>1 DEF VerifyRecord
<1>3. new.pc = to /\ new.tab = verify[v].tab BY <1>1 DEF VerifyRecord
<1>4. VerifyEarned(new, earned') BY <1>1, <1>3 DEF VerifyEarned
<1>5. verify' = [verify EXCEPT ![v] = new] BY DEF VerifyGoto
<1> HIDE DEF new
<1>6. QED BY <1>2, <1>4, <1>5, VerifyBecomes

\* The parts a step may leave alone.
LEMMA RestKept ==
    ASSUME EarnedInv, earned \subseteq earned'
    PROVE  /\ UNCHANGED icon => icon' \in [Tab -> Icon] /\ ActiveEarned'
           /\ UNCHANGED session => session' \in [Tab -> Int \cup {None}] /\ SessionsEarned'
           /\ UNCHANGED <<page, gate, asked>> =>
                /\ page' \in [Tab -> Origin \cup {None}] /\ gate' \in [Tab -> Gate]
                /\ asked' \in [Tab -> Verification \cup {None}] /\ GateHasPage'
           /\ UNCHANGED <<overlay, timers>> =>
                /\ overlay' \in [Tab -> BOOLEAN]
                /\ timers' \in [Tab -> SUBSET Verification]
           /\ UNCHANGED enrolled => enrolled' \in SUBSET Origin
           /\ UNCHANGED earned => earned' \in SUBSET Tab
           /\ UNCHANGED broken => broken' \in SUBSET Verification
           /\ UNCHANGED <<loads, now>> => loads' \in 0..MaxLoads /\ now' \in 0..MaxTime
BY DEF EarnedInv, TypeOK, ActiveEarned, SessionsEarned, GateHasPage

-----------------------------------------------------------------------------
\* The page starts, or goes with its icon and its gate.
LEMMA LoadKept ==
    ASSUME EarnedInv, NEW t \in Tab,
           \/ \E k \in Task, o \in Origin : PageLoads(k, t, o)
           \/ PageUnloads(t)
    PROVE  EarnedInv'
<1>1. CASE PageUnloads(t)
  <2>1. UNCHANGED <<session, enrolled, verify, task, loads, now, earned, broken>>
    BY <1>1 DEF PageUnloads, workerVars
  <2>2. icon' \in [Tab -> Icon] /\ ActiveEarned'
    BY <1>1, <2>1, SetIconEarned DEF PageUnloads, Icon
  <2>3. /\ page' \in [Tab -> Origin \cup {None}] /\ gate' \in [Tab -> Gate]
        /\ asked' \in [Tab -> Verification \cup {None}]
        /\ overlay' \in [Tab -> BOOLEAN] /\ timers' \in [Tab -> SUBSET Verification]
    BY <1>1, RemoveGateTyped DEF PageUnloads, EarnedInv, TypeOK
  <2>4. GateHasPage'
    BY <1>1, RemoveGateTyped DEF PageUnloads, EarnedInv, TypeOK, GateHasPage
  <2>5. QED
    BY <2>1, <2>2, <2>3, <2>4, RestKept, UnmovedEarned
    DEF EarnedInv, TypeOK, TaskRecord, VerifyRecord
<1>2. ASSUME NEW k \in Task, NEW o \in Origin, PageLoads(k, t, o) PROVE EarnedInv'
  <2>1. UNCHANGED <<icon, gate, asked, overlay, timers, session, enrolled, verify, now,
                    earned, broken>>
    BY <1>2 DEF PageLoads
  <2>2. task' \in [Task -> TaskRecord] /\ TasksEarned'
    <3>1. CASE Spawn(k, "findSite", t, o)
      BY <2>1, <3>1, SpawnEarned, TabUiAssumption
    <3>2. CASE UNCHANGED task BY <2>1, <3>2, UnmovedEarned
    <3>3. QED BY <1>2, <3>1, <3>2 DEF PageLoads
  <2>3. page' \in [Tab -> Origin \cup {None}] /\ GateHasPage'
    BY <1>2, <2>1, TabUiAssumption DEF PageLoads, EarnedInv, TypeOK, GateHasPage
  <2>4. loads' \in 0..MaxLoads
    BY <1>2, TabUiAssumption DEF PageLoads, EarnedInv, TypeOK
  <2>5. QED
    BY <2>1, <2>2, <2>3, <2>4, RestKept, UnmovedEarned
    DEF EarnedInv, TypeOK, TaskRecord, VerifyRecord
<1>3. QED BY <1>1, <1>2

\* The buttons of the gate and of the prompt, and "Re-Attest".
LEMMA ClickKept ==
    ASSUME EarnedInv, NEW t \in Tab,
           \/ ClickSkip(t)
           \/ \E v \in Verification : ClickVerify(t, v) \/ RequestPresence(t, v)
           \/ \E k \in Task : ClickDismiss(k, t) \/ ClickEnroll(k, t)
    PROVE  EarnedInv'
<1>1. CASE ClickSkip(t)
  <2>1. RemoveGate(t) /\ UNCHANGED <<icon, page, overlay, timers, session, enrolled, verify,
                                     task, loads, now, earned, broken>>
    BY <1>1 DEF ClickSkip, workerVars
  <2>2. /\ page' \in [Tab -> Origin \cup {None}] /\ gate' \in [Tab -> Gate]
        /\ asked' \in [Tab -> Verification \cup {None}] /\ GateHasPage'
    BY <2>1, RemoveGateTyped DEF EarnedInv, TypeOK, GateHasPage
  <2>3. QED
    BY <2>1, <2>2, RestKept, UnmovedEarned DEF EarnedInv, TypeOK, TaskRecord, VerifyRecord
<1>2. ASSUME NEW v \in Verification, ClickVerify(t, v) \/ RequestPresence(t, v)
      PROVE  EarnedInv'
  <2>1. UNCHANGED <<icon, page, overlay, timers, session, enrolled, task, loads, now, earned,
                    broken>>
    BY <1>2 DEF ClickVerify, RequestPresence, pageVars
  <2>2. verify' \in [Verification -> VerifyRecord] /\ VerifiesEarned'
    <3> DEFINE new == [pc |-> "running", tab |-> t]
    <3>1. new \in VerifyRecord BY DEF VerifyRecord, VerifyPc
    <3>2. VerifyEarned(new, earned') BY TabUiAssumption DEF VerifyEarned
    <3>3. verify' = [verify EXCEPT ![v] = new] BY <1>2 DEF ClickVerify, RequestPresence
    <3> HIDE DEF new
    <3>4. QED BY <2>1, <3>1, <3>2, <3>3, VerifyBecomes
  <2>3. /\ page' \in [Tab -> Origin \cup {None}] /\ gate' \in [Tab -> Gate]
        /\ asked' \in [Tab -> Verification \cup {None}] /\ GateHasPage'
    <3>1. CASE ClickVerify(t, v)
      BY <2>1, <3>1 DEF ClickVerify, EarnedInv, TypeOK, Gate, GateHasPage
    <3>2. CASE RequestPresence(t, v)
      BY <2>1, <3>2, RestKept DEF RequestPresence, pageVars
    <3>3. QED BY <1>2, <3>1, <3>2
  <2>4. QED
    BY <2>1, <2>2, <2>3, RestKept, UnmovedEarned
    DEF EarnedInv, TypeOK, TaskRecord, VerifyRecord
<1>3. ASSUME NEW k \in Task, ClickDismiss(k, t) \/ ClickEnroll(k, t) PROVE EarnedInv'
  <2>1. RemoveGate(t) /\ UNCHANGED <<icon, page, overlay, timers, session, enrolled, verify,
                                     loads, now, earned, broken>>
    BY <1>3 DEF ClickDismiss, ClickEnroll
  <2>2. task' \in [Task -> TaskRecord] /\ TasksEarned'
    <3>1. CASE ClickDismiss(k, t)
      BY <2>1, <3>1, SpawnEarned, TabUiAssumption DEF ClickDismiss
    <3>2. CASE ClickEnroll(k, t)
      <4>1. page[t] \in Origin /\ Spawn(k, "enrolling", t, page[t])
        BY <3>2 DEF ClickEnroll, EarnedInv, TypeOK, GateHasPage
      <4>2. QED BY <2>1, <4>1, SpawnEarned, TabUiAssumption
    <3>3. QED BY <1>3, <3>1, <3>2
  <2>3. /\ page' \in [Tab -> Origin \cup {None}] /\ gate' \in [Tab -> Gate]
        /\ asked' \in [Tab -> Verification \cup {None}] /\ GateHasPage'
    BY <2>1, RemoveGateTyped DEF EarnedInv, TypeOK, GateHasPage
  <2>4. QED
    BY <2>1, <2>2, <2>3, RestKept, UnmovedEarned
    DEF EarnedInv, TypeOK, TaskRecord, VerifyRecord
<1>4. QED BY <1>1, <1>2, <1>3

\* An overlay is shown or taken away, whatever timers are armed or stopped.
LEMMA OverlayTyped ==
    ASSUME EarnedInv, NEW t \in Tab, NEW shown \in BOOLEAN, NEW armed \in SUBSET Verification
    PROVE  /\ [overlay EXCEPT ![t] = shown] \in [Tab -> BOOLEAN]
           /\ [timers EXCEPT ![t] = armed] \in [Tab -> SUBSET Verification]
<1>1. overlay \in [Tab -> BOOLEAN] /\ timers \in [Tab -> SUBSET Verification]
  BY DEF EarnedInv, TypeOK
<1>2. [overlay EXCEPT ![t] = shown] \in [Tab -> BOOLEAN] BY <1>1, Zenon
<1>3. [timers EXCEPT ![t] = armed] \in [Tab -> SUBSET Verification] BY <1>1
<1>4. QED BY <1>2, <1>3

\* The error overlay goes, by its button or by a timer.
LEMMA OverlayKept ==
    ASSUME EarnedInv, NEW t \in Tab,
           ClickErrorDismiss(t) \/ \E v \in Verification : TimerFires(t, v)
    PROVE  EarnedInv'
<1>1. UNCHANGED <<icon, page, gate, asked, session, enrolled, verify, task, loads, now,
                  earned, broken>>
  BY DEF ClickErrorDismiss, TimerFires, workerVars
<1>2. overlay' \in [Tab -> BOOLEAN] /\ timers' \in [Tab -> SUBSET Verification]
  <2>1. /\ overlay' = [overlay EXCEPT ![t] = FALSE]
        /\ \/ UNCHANGED timers
           \/ \E v \in Verification : timers' = [timers EXCEPT ![t] = timers[t] \ {v}]
    BY DEF ClickErrorDismiss, TimerFires
  <2>2. timers[t] \in SUBSET Verification /\ timers \in [Tab -> SUBSET Verification]
    BY DEF EarnedInv, TypeOK
  <2>3. overlay' \in [Tab -> BOOLEAN] BY <2>1, OverlayTyped
  <2>4. timers' \in [Tab -> SUBSET Verification] BY <2>1, <2>2, OverlayTyped
  <2>5. QED BY <2>3, <2>4
<1>3. QED
  BY <1>1, <1>2, RestKept, UnmovedEarned DEF EarnedInv, TypeOK, TaskRecord, VerifyRecord

-----------------------------------------------------------------------------
\* A verification: only VerifyIssued leads to the icon "active", and it is what
\* earns the tab its session.
LEMMA VerifyKept ==
    ASSUME EarnedInv, NEW v \in Verification, VerifyStep(v)
    PROVE  EarnedInv'
<1> DEFINE t == verify[v].tab
<1>1. verify[v] \in VerifyRecord /\ VerifyEarned(verify[v], earned)
  BY DEF EarnedInv, TypeOK, VerifyRecord, VerifiesEarned
<1>2. t \in Tab
  BY <1>1 DEF VerifyRecord, VerifyEarned, VerifyStep, VerifyFails, VerifyEndsSilently,
              VerifyIssued, ActiveIcon, CertReady, ErrorIcon, HideGate, ShowError, VerifyGoto
<1>3. verify' \in [Verification -> VerifyRecord] /\ VerifiesEarned'
  <2>1. ASSUME NEW from \in VerifyPc \ {"new"}, NEW to \in VerifyPc \ {"new"},
               VerifyGoto(v, from, to), to = "activeIcon" => t \in earned',
               earned \subseteq earned'
        PROVE  verify' \in [Verification -> VerifyRecord] /\ VerifiesEarned'
    BY <2>1, VerifyGotoEarned
  <2>2. earned \subseteq earned'
    BY DEF VerifyStep, VerifyFails, VerifyEndsSilently, VerifyIssued, ActiveIcon, CertReady,
           ErrorIcon, HideGate, ShowError
  <2>3. \E from, to \in VerifyPc \ {"new"} :
          VerifyGoto(v, from, to) /\ (to = "activeIcon" => t \in earned')
    BY <1>2 DEF VerifyPc, VerifyStep, VerifyFails, VerifyEndsSilently, VerifyIssued,
                ActiveIcon, CertReady, ErrorIcon, HideGate, ShowError
  <2>4. QED BY <2>1, <2>2, <2>3
<1> HIDE DEF t
<1>4. CASE VerifyFails(v) \/ VerifyEndsSilently(v)
  <2>1. /\ UNCHANGED <<icon, page, gate, asked, overlay, timers, session, enrolled, task,
                       loads, now, earned>>
        /\ broken' \in {broken, broken \cup {v}}
    BY <1>4 DEF VerifyFails, VerifyEndsSilently, pageVars
  <2>2. broken' \in SUBSET Verification BY <2>1 DEF EarnedInv, TypeOK
  <2>3. QED
    BY <1>3, <2>1, <2>2, RestKept, UnmovedEarned
    DEF EarnedInv, TypeOK, TaskRecord, VerifyRecord
<1>5. CASE VerifyIssued(v)
  <2>1. /\ UNCHANGED <<icon, page, gate, asked, overlay, timers, enrolled, task, loads, now,
                       broken>>
        /\ session' = [session EXCEPT ![t] = now + Life] /\ earned' = earned \cup {t}
    BY <1>5 DEF VerifyIssued, pageVars, t
  <2>2. now + Life \in Int BY TabUiAssumption DEF EarnedInv, TypeOK
  <2>3. session' \in [Tab -> Int \cup {None}] /\ SessionsEarned' /\ earned' \in SUBSET Tab
    BY <1>2, <2>1, <2>2 DEF EarnedInv, TypeOK, SessionsEarned
  <2>4. QED
    BY <1>3, <2>1, <2>3, RestKept, UnmovedEarned
    DEF EarnedInv, TypeOK, TaskRecord, VerifyRecord
<1>6. CASE ActiveIcon(v) \/ ErrorIcon(v)
  <2>1. UNCHANGED <<page, gate, asked, overlay, timers, session, enrolled, task, loads, now,
                    earned, broken>>
    BY <1>6 DEF ActiveIcon, ErrorIcon, pageVars
  <2>2. icon' \in [Tab -> Icon] /\ ActiveEarned'
    <3>1. CASE ActiveIcon(v)
      <4>1. SetIcon(t, "active") /\ t \in earned
        BY <1>1, <3>1 DEF ActiveIcon, VerifyGoto, VerifyEarned, t
      <4>2. QED BY <1>2, <2>1, <4>1, SetIconEarned DEF Icon
    <3>2. CASE ErrorIcon(v)
      <4>1. SetIcon(t, "error") BY <3>2 DEF ErrorIcon, t
      <4>2. QED BY <1>2, <2>1, <4>1, SetIconEarned DEF Icon
    <3>3. QED BY <1>6, <3>1, <3>2
  <2>3. QED
    BY <1>3, <2>1, <2>2, RestKept, UnmovedEarned
    DEF EarnedInv, TypeOK, TaskRecord, VerifyRecord
<1>7. CASE CertReady(v) \/ HideGate(v) \/ ShowError(v)
  <2>1. RemoveGate(t) /\ UNCHANGED <<icon, page, session, enrolled, task, loads, now, earned,
                                     broken>>
    BY <1>7 DEF CertReady, HideGate, ShowError, t
  <2>2. overlay' \in [Tab -> BOOLEAN] /\ timers' \in [Tab -> SUBSET Verification]
    <3>1. \/ UNCHANGED <<overlay, timers>>
          \/ InjectErrorOverlay(t, v)
      BY <1>7 DEF CertReady, HideGate, ShowError, t
    <3>2. overlay \in [Tab -> BOOLEAN] /\ timers \in [Tab -> SUBSET Verification]
      BY DEF EarnedInv, TypeOK
    <3>3. CASE InjectErrorOverlay(t, v)
      <4>1. overlay' = [overlay EXCEPT ![t] = TRUE] BY <3>3 DEF InjectErrorOverlay
      <4>2. timers' = [timers EXCEPT ![t] = timers[t] \cup {v}]
        BY <3>3 DEF InjectErrorOverlay
      <4>3. timers[t] \cup {v} \in SUBSET Verification BY <1>2, <3>2
      <4>4. overlay' \in [Tab -> BOOLEAN] BY <1>2, <4>1, OverlayTyped
      <4>5. timers' \in [Tab -> SUBSET Verification] BY <1>2, <4>2, <4>3, OverlayTyped
      <4>6. QED BY <4>4, <4>5
    <3>4. QED BY <3>1, <3>2, <3>3
  <2>3. /\ page' \in [Tab -> Origin \cup {None}] /\ gate' \in [Tab -> Gate]
        /\ asked' \in [Tab -> Verification \cup {None}] /\ GateHasPage'
    BY <1>2, <2>1, RemoveGateTyped DEF EarnedInv, TypeOK, GateHasPage
  <2>4. QED
    BY <1>3, <2>1, <2>2, <2>3, RestKept, UnmovedEarned
    DEF EarnedInv, TypeOK, TaskRecord, VerifyRecord
<1>8. QED BY <1>4, <1>5, <1>6, <1>7 DEF VerifyStep

-----------------------------------------------------------------------------
\* A handler that only reads, goes on or ends.
LEMMA ReadKept ==
    ASSUME EarnedInv, task' \in [Task -> TaskRecord] /\ TasksEarned', Reads
    PROVE  EarnedInv'
BY RestKept, UnmovedEarned
DEF Reads, Quiet, pageVars, EarnedInv, TypeOK, TaskRecord, VerifyRecord

\* A handler knows its tab from its first step on.
LEMMA TaskTab ==
    ASSUME EarnedInv, NEW k \in Task
    PROVE  /\ task[k] \in TaskRecord /\ TaskEarned(task[k], earned)
           /\ task[k].pc \in TabPcs => task[k].tab \in Tab
BY DEF EarnedInv, TypeOK, TaskRecord, TasksEarned, TaskEarned

\* onSiteDetected: a tab whose session it has seen has earned that session, and
\* keeps what it earned when the session is purged.
LEMMA DetectedKept ==
    ASSUME EarnedInv, NEW k \in Task, FindSite(k) \/ FindSession(k)
    PROVE  EarnedInv'
<1>1. Reads BY DEF FindSite, FindSession
<1>2. earned' = earned BY <1>1 DEF Reads
<1>3. CASE FindSite(k)
  <2>1. task[k].pc \in TabPcs /\ (Goto(k, "findSession") \/ Goto(k, "enrollIcon"))
    BY <1>3 DEF FindSite, TabPcs, TaskPc
  <2>2. task' \in [Task -> TaskRecord] /\ TasksEarned'
    BY <1>2, <2>1, GotoEarned DEF TaskPc
  <2>3. QED BY <1>1, <2>2, ReadKept
<1>4. CASE FindSession(k)
  <2>1. task[k].pc \in TabPcs /\ task[k].tab \in Tab
    BY <1>4, TaskTab DEF FindSession, TabPcs, TaskPc
  <2>2. \/ Goto(k, "activeIcon") /\ session[task[k].tab] # None
        \/ Goto(k, "pendingIcon")
    BY <1>4 DEF FindSession, Valid
  <2>3. session[task[k].tab] # None => task[k].tab \in earned
    BY <2>1 DEF EarnedInv, SessionsEarned
  <2>4. task' \in [Task -> TaskRecord] /\ TasksEarned'
    BY <1>2, <2>1, <2>2, <2>3, GotoEarned DEF TaskPc
  <2>5. QED BY <1>1, <2>4, ReadKept
<1>5. QED BY <1>3, <1>4

\* onEnrollRequest: the icon turns active after an enrollment only.
LEMMA EnrollsKept ==
    ASSUME EarnedInv, NEW k \in Task, Enrolls(k)
    PROVE  EarnedInv'
<1>1. task[k].tab \in Tab /\ task[k].origin \in Origin /\ task[k].pc \in TabPcs
  BY TaskTab DEF Enrolls, TaskRecord, TaskEarned, TabPcs, TaskPc
<1>2. UNCHANGED <<icon, page, gate, asked, overlay, timers, verify, loads, now, broken,
                  session>>
  BY DEF Enrolls, Quiet, pageVars
<1>3. /\ earned \subseteq earned' /\ earned' \in SUBSET Tab /\ enrolled' \in SUBSET Origin
      /\ task' \in [Task -> TaskRecord] /\ TasksEarned'
  <2>1. CASE /\ enrolled' = enrolled \cup {task[k].origin}
             /\ earned' = earned \cup {task[k].tab}
             /\ Goto(k, "activeIcon")
    <3>1. /\ earned \subseteq earned' /\ earned' \in SUBSET Tab
          /\ enrolled' \in SUBSET Origin /\ task[k].tab \in earned'
      BY <1>1, <2>1 DEF EarnedInv, TypeOK
    <3>2. QED BY <1>1, <2>1, <3>1, GotoEarned DEF TaskPc
  <2>2. CASE Finish(k) /\ UNCHANGED <<enrolled, earned>>
    BY <2>2, FinishEarned DEF EarnedInv, TypeOK
  <2>3. QED BY <2>1, <2>2 DEF Enrolls
<1>4. SessionsEarned' BY <1>2, <1>3 DEF EarnedInv, SessionsEarned
<1>5. QED
  BY <1>2, <1>3, <1>4, RestKept, UnmovedEarned
  DEF EarnedInv, TypeOK, TaskRecord, VerifyRecord

\* A step that sets the icon of its tab: "active" comes of a session or of an
\* enrollment.
LEMMA IconKept ==
    ASSUME EarnedInv, NEW k \in Task,
           \/ IconThen(k, "pendingIcon", "pending", "showGate")
           \/ IconThen(k, "enrollIcon", "enrollment", "showPrompt")
           \/ IconThen(k, "activeIcon", "active", "idle")
           \/ IconThen(k, "defaultIcon", "default", "idle")
    PROVE  EarnedInv'
<1>1. /\ task[k].pc \in {"pendingIcon", "enrollIcon", "activeIcon", "defaultIcon"}
      /\ UNCHANGED <<page, gate, asked, overlay, timers, verify, loads, now, broken, session,
                     enrolled, earned>>
  BY DEF IconThen, Quiet, pageVars
<1>2. task[k].pc \in TabPcs /\ task[k].tab \in Tab
  BY <1>1, TaskTab DEF TabPcs, TaskPc
<1>3. \E state \in Icon :
        SetIcon(task[k].tab, state) /\ (state \in {"active", "expiring"} => task[k].pc = "activeIcon")
  BY DEF IconThen, Icon
<1>4. task[k].pc = "activeIcon" => task[k].tab \in earned BY TaskTab DEF TaskEarned
<1>5. icon' \in [Tab -> Icon] /\ ActiveEarned' BY <1>1, <1>2, <1>3, <1>4, SetIconEarned
<1>6. task' \in [Task -> TaskRecord] /\ TasksEarned'
  <2>1. Goto(k, "showGate") \/ Goto(k, "showPrompt") \/ Finish(k) BY DEF IconThen
  <2>2. QED BY <1>1, <1>2, <2>1, GotoEarned, FinishEarned DEF TaskPc
<1>7. QED
  BY <1>1, <1>5, <1>6, RestKept, UnmovedEarned
  DEF EarnedInv, TypeOK, TaskRecord, VerifyRecord

\* A gate or a prompt is only put into a page.
LEMMA ShowKept ==
    ASSUME EarnedInv, NEW k \in Task,
           ShowThen(k, "showGate", "gate") \/ ShowThen(k, "showPrompt", "prompt")
    PROVE  EarnedInv'
<1>1. task[k].pc \in TabPcs /\ task[k].tab \in Tab
  BY TaskTab DEF ShowThen, TabPcs, TaskPc
<1>2. Finish(k) /\ UNCHANGED <<icon, page, asked, overlay, timers, session, enrolled, verify,
                               loads, now, earned, broken>>
  BY DEF ShowThen
<1>3. task' \in [Task -> TaskRecord] /\ TasksEarned' BY <1>2, FinishEarned
<1>4. \E what \in {"gate", "prompt"} : Inject(task[k].tab, what) BY DEF ShowThen
<1>5. gate' \in [Tab -> Gate] /\ GateHasPage'
  BY <1>1, <1>2, <1>4 DEF Inject, EarnedInv, TypeOK, Gate, GateHasPage
<1>6. QED
  BY <1>2, <1>3, <1>5, RestKept, UnmovedEarned
  DEF EarnedInv, TypeOK, TaskRecord, VerifyRecord

-----------------------------------------------------------------------------
\* What the alarm shows of a session is an icon.
LEMMA AlarmIconTyped ==
    ASSUME NEW expiry \in Int, now \in Int
    PROVE  AlarmIcon(expiry) \in Icon
BY DEF AlarmIcon, Icon

\* The minute alarm purges the sessions and copies what is left.
LEMMA AlarmKept ==
    ASSUME EarnedInv, NEW k \in Task, AlarmFires(k) \/ Purge(k) \/ ReadSessions(k)
    PROVE  EarnedInv'
<1>1. CASE AlarmFires(k)
  <2>1. Reads /\ earned' = earned BY <1>1 DEF AlarmFires, Reads
  <2>2. task' \in [Task -> TaskRecord] /\ TasksEarned'
    BY <1>1, <2>1, SpawnEarned DEF AlarmFires
  <2>3. QED BY <2>1, <2>2, ReadKept
<1>2. CASE Purge(k)
  <2>1. UNCHANGED <<icon, page, gate, asked, overlay, timers, verify, loads, now, broken,
                    enrolled, earned>>
    BY <1>2 DEF Purge, Quiet, pageVars
  <2>2. session' \in [Tab -> Int \cup {None}] /\ SessionsEarned'
    BY <1>2, <2>1 DEF Purge, EarnedInv, TypeOK, SessionsEarned
  <2>3. Goto(k, "sessions") BY <1>2 DEF Purge
  <2>4. task' \in [Task -> TaskRecord] /\ TasksEarned'
    BY <2>1, <2>3, GotoEarned DEF TaskPc, TabPcs
  <2>5. QED
    BY <2>1, <2>2, <2>4, RestKept, UnmovedEarned
    DEF EarnedInv, TypeOK, TaskRecord, VerifyRecord
<1>3. CASE ReadSessions(k)
  <2> DEFINE new == [task[k] EXCEPT !.pc = "icons", !.seen = session, !.todo = Tab]
  <2>1. Reads /\ earned' = earned BY <1>3 DEF ReadSessions, Reads
  <2>2. task[k] \in TaskRecord BY TaskTab
  <2>3. new \in TaskRecord BY <2>2 DEF TaskRecord, TaskPc, EarnedInv, TypeOK
  <2>4. new.pc = "icons" /\ new.seen = session BY <2>2 DEF TaskRecord
  <2>5. TaskEarned(new, earned')
    BY <2>1, <2>4 DEF TaskEarned, TabPcs, EarnedInv, SessionsEarned
  <2>6. task' = [task EXCEPT ![k] = new]
    BY <1>3 DEF ReadSessions, EarnedInv, TypeOK
  <2> HIDE DEF new
  <2>7. task' \in [Task -> TaskRecord] /\ TasksEarned'
    BY <2>1, <2>3, <2>5, <2>6, TaskBecomes
  <2>8. QED BY <2>1, <2>7, ReadKept
<1>4. QED BY <1>1, <1>2, <1>3

\* One tab of updateIconForAllTabs: a session that was seen was earned, though
\* it may be gone by now.
LEMMA UpdateIconKept ==
    ASSUME EarnedInv, NEW k \in Task, NEW t \in Tab, UpdateIcon(k, t)
    PROVE  EarnedInv'
<1> DEFINE expiry == task[k].seen[t]
<1>1. task[k] \in TaskRecord /\ TaskEarned(task[k], earned) BY TaskTab
<1>2. expiry \in Int \cup {None} /\ (expiry # None => t \in earned)
  BY <1>1 DEF TaskRecord, TaskEarned
<1>3. UNCHANGED <<page, gate, asked, overlay, timers, verify, loads, now, broken, session,
                  enrolled, earned>>
  BY DEF UpdateIcon, Quiet, pageVars
<1>4. icon' \in [Tab -> Icon] /\ ActiveEarned'
  <2>1. CASE expiry = None BY <1>3, <2>1, RestKept DEF UpdateIcon
  <2>2. CASE expiry # None
    <3>1. SetIcon(t, AlarmIcon(expiry)) BY <2>2 DEF UpdateIcon
    <3>2. now \in Int BY TabUiAssumption DEF EarnedInv, TypeOK
    <3>3. AlarmIcon(expiry) \in Icon BY <1>2, <2>2, <3>2, AlarmIconTyped
    <3>4. QED BY <1>2, <1>3, <2>2, <3>1, <3>3, SetIconEarned
  <2>3. QED BY <2>1, <2>2
<1> HIDE DEF expiry
<1>5. task' \in [Task -> TaskRecord] /\ TasksEarned'
  <2>1. CASE task[k].todo = {t}
    <3>1. Finish(k) BY <2>1 DEF UpdateIcon
    <3>2. QED BY <1>3, <3>1, FinishEarned
  <2>2. CASE task[k].todo # {t}
    <3> DEFINE new == [task[k] EXCEPT !.todo = task[k].todo \ {t}]
    <3>1. new \in TaskRecord BY <1>1 DEF TaskRecord
    <3>2. /\ new.pc = task[k].pc /\ new.tab = task[k].tab /\ new.origin = task[k].origin
          /\ new.seen = task[k].seen
      BY <1>1 DEF TaskRecord
    <3>3. TaskEarned(new, earned') BY <1>1, <1>3, <3>2 DEF TaskEarned
    <3>4. task' = [task EXCEPT ![k] = new]
      BY <2>2 DEF UpdateIcon
    <3> HIDE DEF new
    <3>5. QED BY <1>3, <3>1, <3>3, <3>4, TaskBecomes
  <2>3. QED BY <2>1, <2>2
<1>6. QED
  BY <1>3, <1>4, <1>5, RestKept, UnmovedEarned
  DEF EarnedInv, TypeOK, TaskRecord, VerifyRecord

\* Every step of a handler keeps the invariant.
LEMMA TaskKept ==
    ASSUME EarnedInv, NEW k \in Task, AlarmFires(k) \/ TaskStep(k)
    PROVE  EarnedInv'
BY DetectedKept, EnrollsKept, AlarmKept, IconKept, ShowKept, UpdateIconKept DEF TaskStep

\* Every step of the tab, its page, its verifications and handlers keeps it.
LEMMA EarnedInvKept == EarnedInv /\ [Next]_vars => EarnedInv'
<1> SUFFICES ASSUME EarnedInv, [Next]_vars PROVE EarnedInv'
  OBVIOUS
<1>1. CASE Tick
  <2>1. UNCHANGED <<icon, page, gate, asked, overlay, timers, session, enrolled, verify,
                    task, loads, earned, broken>>
    BY <1>1 DEF Tick, pageVars, workerVars
  <2>2. now' \in 0..MaxTime
    BY <1>1, TabUiAssumption DEF Tick, EarnedInv, TypeOK
  <2>3. QED
    BY <2>1, <2>2, RestKept, UnmovedEarned DEF EarnedInv, TypeOK, TaskRecord, VerifyRecord
<1>2. CASE UNCHANGED vars
  BY <1>2, RestKept, UnmovedEarned
  DEF vars, pageVars, workerVars, EarnedInv, TypeOK, TaskRecord, VerifyRecord
<1>3. CASE Next
  BY <1>1, <1>3, LoadKept, ClickKept, OverlayKept, VerifyKept, TaskKept DEF Next
<1>4. QED BY <1>2, <1>3

-----------------------------------------------------------------------------
\* So it always holds.
LEMMA EarnedInvAlways == Spec => []EarnedInv
<1>1. QED BY EarnedInvInit, EarnedInvKept, PTL DEF Spec

\* The icon, the overlays and the handlers that set them keep their types.
THEOREM TabTypes == Spec => []TypeOK
<1>1. EarnedInv => TypeOK BY DEF EarnedInv
<1>2. QED BY <1>1, EarnedInvAlways, PTL

\* A tab whose icon is "active" or "expiring" was given a certificate or an
\* enrollment, whichever of the handlers of background.js set its icon last,
\* from however old a copy of the sessions.
THEOREM ActiveIsEarned == Spec => []ActiveEarned
<1>1. EarnedInv => ActiveEarned BY DEF EarnedInv
<1>2. QED BY <1>1, EarnedInvAlways, PTL
=============================================================================
