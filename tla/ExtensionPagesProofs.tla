------------------------ MODULE ExtensionPagesProofs ------------------------
(***************************************************************************)
(* Proofs about the settings and the popup's countdown, for any servers,   *)
(* handlers and intervals.  A handler of updateSettings writes back what   *)
(* it merged before its await; unless it is stale the override it carries  *)
(* is still the one that is set, which is what the inductive invariant of  *)
(* the settings adds.  That of the countdown needs nothing more than types.*)
(***************************************************************************)
EXTENDS ExtensionPages, TLAPS

TaskRecord == [pc : {"idle", "read", "write", "fetch"}, page : Page \cup {None},
               with : Settings \cup PopupForm \cup Server \cup {None}]

\* What a handler of a page holds, where chosen is the override that is set.
HandlerInv(tk, isStale, override) ==
    /\ tk.pc = "read" => \/ tk.page = "popup" /\ tk.with \in PopupForm
                         \/ tk.page = "options" /\ tk.with \in Settings
    /\ tk.pc = "write" =>
         /\ tk.page \in Page /\ tk.with \in Settings
         /\ tk.page = "popup" /\ ~isStale => tk.with.override = override
    /\ tk.pc = "fetch" => tk.with \in Server

FormsInv == /\ form["options"] \in Settings \cup {None}
            /\ form["popup"] \in PopupForm \cup {None}
HandlersInv == \A k \in Task : HandlerInv(task[k], k \in stale, settings.override)

SettingsType ==
    /\ settings \in Settings /\ config \in Server \cup {None}
    /\ form \in [Page -> Settings \cup PopupForm \cup {None}]
    /\ task \in [Task -> TaskRecord] /\ stale \in SUBSET Task
    /\ chosen \in Override \cup {None} /\ overtaken \in BOOLEAN
StatusType ==
    /\ session \in 0..MaxTime \cup {None} /\ view \in 0..MaxTime \cup {None}
    /\ answers \in SUBSET (0..MaxTime \cup {None})
    /\ countdownInterval \in Ticker \cup {None}
    /\ live \in [Ticker -> 0..MaxTime \cup {None}]
    /\ now \in 0..MaxTime

SettingsInv  == SettingsType /\ FormsInv /\ HandlersInv /\ OverrideAsChosen
CountdownInv == StatusType /\ CountdownOwned
PagesInv     == pane \in {"settings", "status"} /\ SettingsInv /\ CountdownInv

-----------------------------------------------------------------------------
\* The inductive invariant contains the types.
LEMMA PagesTypes == PagesInv => TypeOK
BY DEF PagesInv, SettingsInv, CountdownInv, SettingsType, StatusType, TaskRecord, TypeOK

\* The initial states of both panes satisfy it.
LEMMA PagesInvInit == Init => PagesInv
<1> SUFFICES ASSUME Init PROVE PagesInv
  OBVIOUS
<1> USE PagesAssumption DEF Init, Idle
<1>1. SettingsType
  BY DEF SettingsType, Settings, TaskRecord, DEFAULT_SETTINGS
<1>2. FormsInv BY DEF FormsInv, Page
<1>3. HandlersInv BY DEF HandlersInv, HandlerInv
<1>4. OverrideAsChosen BY DEF OverrideAsChosen, DEFAULT_SETTINGS
<1>5. StatusType BY DEF StatusType, NoTicker
<1>6. CountdownOwned BY DEF CountdownOwned, NoTicker
<1>7. QED BY <1>1, <1>2, <1>3, <1>4, <1>5, <1>6 DEF PagesInv, SettingsInv, CountdownInv

-----------------------------------------------------------------------------
\* { ...current, ...partial } of settings and the form of either page: settings,
\* which have the override of the options page's form, or else the current one.
LEMMA MergeType ==
    ASSUME NEW current \in Settings
    PROVE  /\ \A partial \in Settings : Merge(current, partial) \in Settings
           /\ \A partial \in PopupForm :
                /\ Merge(current, partial) \in Settings
                /\ Merge(current, partial).override = current.override
<1>1. ASSUME NEW partial \in Settings PROVE Merge(current, partial) = partial
  BY <1>1 DEF Merge, Settings
<1>2. ASSUME NEW partial \in PopupForm
      PROVE  Merge(current, partial) = [hpp_active |-> partial.hpp_active,
                                        override |-> current.override]
  BY <1>2 DEF Merge, Settings, PopupForm
<1>3. QED BY <1>1, <1>2 DEF Settings, PopupForm

\* What a page shows of the settings is a form of its own.
LEMMA ShownType ==
    ASSUME NEW current \in Settings
    PROVE  /\ Shown("options", current) \in Settings
           /\ Shown("popup", current) \in PopupForm
BY DEF Shown, Settings, PopupForm

\* A handler that moves, while the settings stay as they are.
LEMMA HandlerMoves ==
    ASSUME SettingsInv, NEW k \in Task, NEW new \in TaskRecord,
           task' = [task EXCEPT ![k] = new], UNCHANGED settings,
           stale' \subseteq stale, stale \ {k} \subseteq stale',
           HandlerInv(new, k \in stale', settings.override)
    PROVE  task' \in [Task -> TaskRecord] /\ HandlersInv'
<1>1. task \in [Task -> TaskRecord] BY DEF SettingsInv, SettingsType
<1>2. task' \in [Task -> TaskRecord] BY <1>1
<1>3. task'[k] = new /\ \A j \in Task \ {k} : task'[j] = task[j] BY <1>1
<1>4. ASSUME NEW j \in Task PROVE HandlerInv(task'[j], j \in stale', settings'.override)
  <2>1. CASE j = k BY <1>3, <2>1
  <2>2. CASE j # k
    <3>1. j \in stale' <=> j \in stale BY <2>2
    <3>2. HandlerInv(task[j], j \in stale, settings.override)
      BY DEF SettingsInv, HandlersInv
    <3>3. QED BY <1>3, <2>2, <3>1, <3>2
  <2>3. QED BY <2>1, <2>2
<1>5. QED BY <1>2, <1>4 DEF HandlersInv

\* A page sends a form of its own kind, and a refresh goes to some server.
LEMMA StartKept ==
    ASSUME SettingsInv, NEW k \in Task, UNCHANGED <<settings, stale>>
    PROVE  /\ \A with \in PopupForm :
                Start(k, "read", "popup", with) => task' \in [Task -> TaskRecord] /\ HandlersInv'
           /\ \A with \in Settings :
                Start(k, "read", "options", with) => task' \in [Task -> TaskRecord] /\ HandlersInv'
           /\ \A with \in Server :
                Start(k, "fetch", None, with) => task' \in [Task -> TaskRecord] /\ HandlersInv'
<1>1. ASSUME NEW pc, NEW p, NEW with, Start(k, pc, p, with),
             \/ pc = "read" /\ p = "popup" /\ with \in PopupForm
             \/ pc = "read" /\ p = "options" /\ with \in Settings
             \/ pc = "fetch" /\ p = None /\ with \in Server
      PROVE  task' \in [Task -> TaskRecord] /\ HandlersInv'
  <2> DEFINE new == [pc |-> pc, page |-> p, with |-> with]
  <2>1. new \in TaskRecord BY <1>1 DEF TaskRecord, Page
  <2>2. HandlerInv(new, k \in stale', settings.override) BY <1>1 DEF HandlerInv
  <2>3. task' = [task EXCEPT ![k] = new] BY <1>1 DEF Start
  <2> HIDE DEF new
  <2>4. QED BY <2>1, <2>2, <2>3, HandlerMoves
<1>2. QED BY <1>1

\* A handler that ends holds nothing.
LEMMA FinishKept ==
    ASSUME SettingsInv, NEW k \in Task, Finish(k), UNCHANGED settings
    PROVE  task' \in [Task -> TaskRecord] /\ HandlersInv' /\ stale' \in SUBSET Task
<1>1. Idle \in TaskRecord BY DEF Idle, TaskRecord
<1>2. HandlerInv(Idle, k \in stale', settings.override) BY DEF Idle, HandlerInv
<1>3. task' = [task EXCEPT ![k] = Idle] /\ stale' = stale \ {k} BY DEF Finish
<1>4. stale' \in SUBSET Task BY <1>3 DEF SettingsInv, SettingsType
<1>5. stale' \subseteq stale /\ stale \ {k} \subseteq stale' BY <1>3
<1>6. task' \in [Task -> TaskRecord] /\ HandlersInv'
  BY <1>1, <1>2, <1>3, <1>5, HandlerMoves
<1>7. QED BY <1>4, <1>6

\* The forms, as a page loads or edits them.
LEMMA FormKept ==
    ASSUME SettingsInv, NEW p \in Page, NEW new \in Settings \cup PopupForm,
           form' = [form EXCEPT ![p] = new],
           p = "options" => new \in Settings, p = "popup" => new \in PopupForm
    PROVE  form' \in [Page -> Settings \cup PopupForm \cup {None}] /\ FormsInv'
<1>1. form \in [Page -> Settings \cup PopupForm \cup {None}] /\ FormsInv
  BY DEF SettingsInv, SettingsType
<1>2. form' \in [Page -> Settings \cup PopupForm \cup {None}] BY <1>1
<1>3. form'[p] = new /\ \A q \in Page \ {p} : form'[q] = form[q] BY <1>1
<1>4. FormsInv' BY <1>1, <1>3 DEF FormsInv, Page
<1>5. QED BY <1>2, <1>4

-----------------------------------------------------------------------------
\* The pages: a form is loaded, edited and sent as a whole.
LEMMA PageKept ==
    ASSUME SettingsInv,
           \/ \E p \in Page : LoadSettings(p)
           \/ \E k \in Task : SaveFromPopup(k) \/ SaveFromOptions(k)
    PROVE  SettingsInv'
<1>1. settings \in Settings BY DEF SettingsInv, SettingsType
<1>2. ASSUME NEW p \in Page, LoadSettings(p) PROVE SettingsInv'
  <2>1. UNCHANGED <<settings, config, task, stale, chosen, overtaken>>
    BY <1>2 DEF LoadSettings
  <2>2. form' \in [Page -> Settings \cup PopupForm \cup {None}] /\ FormsInv'
    <3>1. /\ p = "options" => Shown(p, settings) \in Settings
          /\ p = "popup" => Shown(p, settings) \in PopupForm
      BY <1>1, ShownType
    <3>2. form' = [form EXCEPT ![p] = Shown(p, settings)] BY <1>2 DEF LoadSettings
    <3>3. QED BY <3>1, <3>2, FormKept DEF Page
  <2>3. HandlersInv' /\ OverrideAsChosen'
    BY <2>1 DEF SettingsInv, HandlersInv, OverrideAsChosen
  <2>4. QED BY <2>1, <2>2, <2>3 DEF SettingsInv, SettingsType
<1>3. ASSUME NEW k \in Task, SaveFromPopup(k) PROVE SettingsInv'
  <2> DEFINE edited == [form["popup"] EXCEPT !.hpp_active = ~@]
  <2>1. UNCHANGED <<settings, config, stale, chosen, overtaken>>
    BY <1>3 DEF SaveFromPopup
  <2>2. form["popup"] \in PopupForm BY <1>3 DEF SaveFromPopup, SettingsInv, FormsInv
  <2>3. edited \in PopupForm BY <2>2 DEF PopupForm
  <2>4. form' = [form EXCEPT !["popup"] = edited] /\ Start(k, "read", "popup", edited)
    BY <1>3 DEF SaveFromPopup
  <2> HIDE DEF edited
  <2>5. form' \in [Page -> Settings \cup PopupForm \cup {None}] /\ FormsInv'
    BY <2>3, <2>4, FormKept DEF Page
  <2>6. task' \in [Task -> TaskRecord] /\ HandlersInv'
    BY <2>1, <2>3, <2>4, StartKept
  <2>7. QED BY <2>1, <2>5, <2>6 DEF SettingsInv, SettingsType, OverrideAsChosen
<1>4. ASSUME NEW k \in Task, SaveFromOptions(k) PROVE SettingsInv'
  <2>1. UNCHANGED <<settings, config, stale, chosen, overtaken>>
    BY <1>4 DEF SaveFromOptions
  <2>2. form["options"] \in Settings BY <1>4 DEF SaveFromOptions, SettingsInv, FormsInv
  <2>3. PICK edited \in {[form["options"] EXCEPT !.hpp_active = ~@]}
          \cup {[form["options"] EXCEPT !.override = o] : o \in Override \cup {None}} :
          form' = [form EXCEPT !["options"] = edited] /\ Start(k, "read", "options", edited)
    BY <1>4 DEF SaveFromOptions
  <2>4. edited \in Settings BY <2>2, <2>3 DEF Settings
  <2>5. form' \in [Page -> Settings \cup PopupForm \cup {None}] /\ FormsInv'
    BY <2>3, <2>4, FormKept DEF Page
  <2>6. task' \in [Task -> TaskRecord] /\ HandlersInv'
    BY <2>1, <2>3, <2>4, StartKept
  <2>7. QED BY <2>1, <2>5, <2>6 DEF SettingsInv, SettingsType, OverrideAsChosen
<1>5. QED BY <1>2, <1>3, <1>4

\* updateSettings up to its read: what it is about to write has the override of
\* the options page, or the one it has just read.
LEMMA ReadKept ==
    ASSUME SettingsInv, NEW k \in Task, ReadSettings(k)
    PROVE  SettingsInv'
<1> DEFINE merged == Merge(settings, task[k].with)
           new == [task[k] EXCEPT !.pc = "write", !.with = merged]
<1>1. UNCHANGED <<settings, config, form, stale, chosen, overtaken>> BY DEF ReadSettings
<1>2. task[k] \in TaskRecord /\ HandlerInv(task[k], k \in stale, settings.override)
  BY DEF SettingsInv, SettingsType, HandlersInv
<1>3. \/ task[k].page = "popup" /\ task[k].with \in PopupForm
      \/ task[k].page = "options" /\ task[k].with \in Settings
  BY <1>2 DEF ReadSettings, HandlerInv
<1>4. settings \in Settings BY DEF SettingsInv, SettingsType
<1>5. /\ merged \in Settings
      /\ task[k].page = "popup" => merged.override = settings.override
  BY <1>3, <1>4, MergeType
<1> HIDE DEF merged
<1>6. new \in TaskRecord /\ new.pc = "write" /\ new.page = task[k].page /\ new.with = merged
  BY <1>2, <1>5 DEF TaskRecord
<1>7. HandlerInv(new, k \in stale', settings.override)
  BY <1>3, <1>5, <1>6 DEF HandlerInv, Page
<1>8. task' = [task EXCEPT ![k] = new]
  BY DEF ReadSettings, Goto, merged, SettingsInv, SettingsType
<1> HIDE DEF new
<1>9. task' \in [Task -> TaskRecord] /\ HandlersInv' BY <1>1, <1>6, <1>7, <1>8, HandlerMoves
<1>10. QED
  BY <1>1, <1>9 DEF SettingsInv, SettingsType, FormsInv, OverrideAsChosen

\* updateSettings' write: every other handler that has read before is stale
\* from here on; a popup's save that is not stale leaves the override as it is.
LEMMA WriteKept ==
    ASSUME SettingsInv, NEW k \in Task, WriteSettings(k)
    PROVE  SettingsInv'
<1>1. /\ settings' = task[k].with /\ task' = [task EXCEPT ![k] = Idle]
      /\ stale' = {j \in Task \ {k} : j \in stale \/ task[j].pc = "write"}
      /\ UNCHANGED <<config, form>> /\ task[k].pc = "write"
  BY DEF WriteSettings
<1>2. task \in [Task -> TaskRecord] BY DEF SettingsInv, SettingsType
<1>3. HandlerInv(task[k], k \in stale, settings.override) BY DEF SettingsInv, HandlersInv
<1>4. /\ task[k].page \in Page /\ task[k].with \in Settings
      /\ task[k].page = "popup" /\ k \notin stale => task[k].with.override = settings.override
  BY <1>1, <1>3 DEF HandlerInv
<1>5. Idle \in TaskRecord /\ Idle.pc = "idle" BY DEF Idle, TaskRecord
<1>6. task' \in [Task -> TaskRecord] BY <1>1, <1>2, <1>5
<1>7. HandlersInv'
  <2>1. task'[k] = Idle /\ \A j \in Task \ {k} : task'[j] = task[j] BY <1>1, <1>2
  <2>2. ASSUME NEW j \in Task
        PROVE  HandlerInv(task'[j], j \in stale', settings'.override)
    <3>1. CASE j = k BY <1>5, <2>1, <3>1 DEF HandlerInv
    <3>2. CASE j # k
      <4>1. HandlerInv(task[j], j \in stale, settings.override)
        BY DEF SettingsInv, HandlersInv
      <4>2. task[j].pc = "write" => j \in stale' BY <1>1, <3>2
      <4>3. QED BY <2>1, <3>2, <4>1, <4>2 DEF HandlerInv
    <3>3. QED BY <3>1, <3>2
  <2>3. QED BY <2>2 DEF HandlersInv
<1>8. chosen' \in Override \cup {None} /\ overtaken' \in BOOLEAN /\ OverrideAsChosen'
  <2>1. CASE task[k].page = "options"
    <3>1. chosen' = task[k].with.override /\ overtaken' = FALSE
      BY <2>1 DEF WriteSettings
    <3>2. QED BY <1>1, <1>4, <3>1 DEF Settings, OverrideAsChosen
  <2>2. CASE task[k].page = "popup"
    <3>1. overtaken' = (overtaken \/ k \in stale) /\ chosen' = chosen
      BY <2>2 DEF WriteSettings
    <3>2. chosen \in Override \cup {None} /\ overtaken \in BOOLEAN /\ OverrideAsChosen
      BY DEF SettingsInv, SettingsType
    <3>3. overtaken' \in BOOLEAN BY <3>1, Zenon
    <3>4. ~overtaken' => settings'.override = chosen'
      BY <1>1, <1>4, <2>2, <3>1, <3>2 DEF OverrideAsChosen
    <3>5. QED BY <3>1, <3>2, <3>3, <3>4 DEF OverrideAsChosen
  <2>3. QED BY <1>4, <2>1, <2>2 DEF Page
<1>9. settings' \in Settings /\ stale' \in SUBSET Task BY <1>1, <1>4
<1>10. QED BY <1>1, <1>6, <1>7, <1>8, <1>9 DEF SettingsInv, SettingsType, FormsInv

\* refreshServerConfig and setServerConfig leave the settings alone.
LEMMA ConfigKept ==
    ASSUME SettingsInv, NEW k \in Task,
           RefreshServerConfig(k) \/ FetchFails(k) \/ SetServerConfig(k)
    PROVE  SettingsInv'
<1>1. UNCHANGED <<settings, form, chosen, overtaken>>
  BY DEF RefreshServerConfig, FetchFails, SetServerConfig
<1>2. FormsInv' /\ OverrideAsChosen'
  BY <1>1 DEF SettingsInv, FormsInv, OverrideAsChosen
<1>3. /\ task' \in [Task -> TaskRecord] /\ HandlersInv'
      /\ stale' \in SUBSET Task /\ config' \in Server \cup {None}
  <2>1. CASE RefreshServerConfig(k)
    <3>1. settings \in Settings /\ stale \in SUBSET Task /\ config \in Server \cup {None}
      BY DEF SettingsInv, SettingsType
    <3>2. BaseOf(settings.override) \in Server BY <3>1 DEF BaseOf, Settings, Server
    <3>3. /\ Start(k, "fetch", None, BaseOf(settings.override))
          /\ UNCHANGED <<stale, config, settings>>
      BY <2>1 DEF RefreshServerConfig
    <3>4. QED BY <3>1, <3>2, <3>3, StartKept
  <2>2. CASE FetchFails(k) \/ SetServerConfig(k)
    <3>1. Finish(k) /\ config' \in {config, task[k].with} /\ task[k].pc = "fetch"
      BY <2>2 DEF FetchFails, SetServerConfig
    <3>2. task[k].with \in Server
      BY <3>1 DEF SettingsInv, HandlersInv, HandlerInv
    <3>3. config' \in Server \cup {None} BY <3>1, <3>2 DEF SettingsInv, SettingsType
    <3>4. QED BY <1>1, <3>1, <3>3, FinishKept
  <2>3. QED BY <2>1, <2>2
<1>4. QED BY <1>1, <1>2, <1>3 DEF SettingsInv, SettingsType

\* A worker that ends, or the whole browser, loses handlers and forms only.
LEMMA RestartKept ==
    ASSUME SettingsInv, WorkerEnds \/ BrowserRestarts
    PROVE  SettingsInv'
<1>1. /\ UNCHANGED <<settings, chosen, overtaken>>
      /\ task' = [k \in Task |-> Idle] /\ stale' = {} /\ config' \in {config, None}
      /\ form' \in {form, [p \in Page |-> None]}
  BY DEF WorkerEnds, BrowserRestarts
<1>2. task' \in [Task -> TaskRecord] /\ HandlersInv'
  BY <1>1 DEF Idle, TaskRecord, HandlersInv, HandlerInv
<1>3. form' \in [Page -> Settings \cup PopupForm \cup {None}] /\ FormsInv'
  BY <1>1 DEF SettingsInv, SettingsType, FormsInv, Page
<1>4. QED BY <1>1, <1>2, <1>3 DEF SettingsInv, SettingsType, OverrideAsChosen

-----------------------------------------------------------------------------
\* The interval that is cleared before another starts or the session is hidden:
\* none other runs.
LEMMA ClearedType ==
    ASSUME CountdownInv
    PROVE  /\ Cleared \in [Ticker -> 0..MaxTime \cup {None}]
           /\ \A i \in Ticker : Cleared[i] = None
<1>1. /\ live \in [Ticker -> 0..MaxTime \cup {None}]
      /\ countdownInterval \in Ticker \cup {None}
      /\ \A i \in Ticker : live[i] # None => i = countdownInterval
  BY DEF CountdownInv, StatusType, CountdownOwned
<1>2. CASE countdownInterval = None
  BY <1>1, <1>2, PagesAssumption DEF Cleared
<1>3. CASE countdownInterval # None
  BY <1>1, <1>3 DEF Cleared
<1>4. QED BY <1>2, <1>3

\* An answer that shows an active session starts its interval.
LEMMA ShowActiveKept ==
    ASSUME CountdownInv, NEW i \in Ticker, NEW expiry \in 0..MaxTime, ShowActive(expiry, i)
    PROVE  CountdownInv'
<1>1. /\ UNCHANGED <<session, now>> /\ answers' = answers \ {expiry}
      /\ view' \in {None, expiry}
      /\ countdownInterval' = i /\ live' = [Cleared EXCEPT ![i] = expiry]
  BY DEF ShowActive, StartCountdown
<1>2. StatusType'
  BY <1>1, ClearedType DEF CountdownInv, StatusType
<1>3. /\ live'[i] = expiry /\ i # None
      /\ \A j \in Ticker \ {i} : live'[j] = None
  BY <1>1, ClearedType, PagesAssumption
<1>4. CountdownOwned' BY <1>1, <1>3 DEF CountdownOwned
<1>5. QED BY <1>2, <1>4 DEF CountdownInv

\* A session that is hidden leaves no interval, and neither does the popup.
LEMMA HideKept ==
    ASSUME CountdownInv, ShowInactive \/ ClosePopup \/ \E i \in Ticker : TickerEnds(i)
    PROVE  CountdownInv'
<1>1. /\ UNCHANGED <<session, now>> /\ answers' \subseteq answers /\ view' = None
      /\ countdownInterval' \in {countdownInterval, None}
      /\ live' \in {Cleared, NoTicker}
  BY DEF ShowInactive, ClosePopup, TickerEnds
<1>2. /\ live' \in [Ticker -> 0..MaxTime \cup {None}]
      /\ \A i \in Ticker : live'[i] = None
  BY <1>1, ClearedType DEF NoTicker
<1>3. StatusType' BY <1>1, <1>2 DEF CountdownInv, StatusType
<1>4. CountdownOwned' BY <1>1, <1>2 DEF CountdownOwned
<1>5. QED BY <1>3, <1>4 DEF CountdownInv

\* Sessions come, go and are asked for without the popup knowing.
LEMMA OutsideKept ==
    ASSUME CountdownInv,
           SessionEnds \/ LoadStatus \/ Tick \/ \E expiry \in 0..MaxTime : SessionIssued(expiry)
    PROVE  CountdownInv'
<1>1. UNCHANGED <<view, countdownInterval, live>>
  BY DEF SessionEnds, LoadStatus, Tick, SessionIssued, statusVars
<1>2. StatusType'
  <2> USE DEF CountdownInv, StatusType
  <2>1. CASE SessionEnds BY <1>1, <2>1 DEF SessionEnds
  <2>2. CASE LoadStatus BY <1>1, <2>2 DEF LoadStatus
  <2>3. CASE Tick BY <1>1, <2>3, PagesAssumption DEF Tick, statusVars
  <2>4. CASE \E expiry \in 0..MaxTime : SessionIssued(expiry)
    BY <1>1, <2>4 DEF SessionIssued
  <2>5. QED BY <2>1, <2>2, <2>3, <2>4
<1>3. CountdownOwned' BY <1>1 DEF CountdownInv, CountdownOwned
<1>4. QED BY <1>2, <1>3 DEF CountdownInv

-----------------------------------------------------------------------------
\* The panes share no state.
LEMMA SettingsNextKept ==
    ASSUME SettingsInv, CountdownInv, SettingsNext
    PROVE  SettingsInv' /\ CountdownInv'
<1>1. UNCHANGED <<statusVars, now>>
  BY DEF SettingsNext, TaskStep, WorkerEnds, BrowserRestarts, LoadSettings, SaveFromPopup,
         SaveFromOptions, RefreshServerConfig, ReadSettings, WriteSettings, FetchFails,
         SetServerConfig
<1>2. CountdownInv' BY <1>1 DEF statusVars, CountdownInv, StatusType, CountdownOwned
<1>3. SettingsInv'
  BY PageKept, ReadKept, WriteKept, ConfigKept, RestartKept DEF SettingsNext, TaskStep
<1>4. QED BY <1>2, <1>3

\* Every step of the status pane keeps it.
LEMMA StatusNextKept ==
    ASSUME SettingsInv, CountdownInv, StatusNext
    PROVE  SettingsInv' /\ CountdownInv'
<1>1. UNCHANGED settingsVars
  BY DEF StatusNext, SessionEnds, LoadStatus, ShowInactive, ClosePopup, Tick, SessionIssued,
         TickerEnds, ShowActive
<1>2. SettingsInv'
  BY <1>1 DEF settingsVars, SettingsInv, SettingsType, FormsInv, HandlersInv, OverrideAsChosen
<1>3. CountdownInv' BY ShowActiveKept, HideKept, OutsideKept DEF StatusNext
<1>4. QED BY <1>2, <1>3

\* Every step of either pane keeps it.
LEMMA PagesInvKept == PagesInv /\ [Next]_vars => PagesInv'
<1> SUFFICES ASSUME PagesInv, [Next]_vars PROVE PagesInv'
  OBVIOUS
<1>1. CASE UNCHANGED vars
  BY <1>1 DEF vars, settingsVars, statusVars, PagesInv, SettingsInv, SettingsType, FormsInv,
              HandlersInv, OverrideAsChosen, CountdownInv, StatusType, CountdownOwned
<1>2. CASE Next
  BY <1>2, SettingsNextKept, StatusNextKept DEF Next, PagesInv
<1>3. QED BY <1>1, <1>2

-----------------------------------------------------------------------------
\* So it always holds.
LEMMA PagesInvAlways == Spec => []PagesInv
<1>1. QED BY PagesInvInit, PagesInvKept, PTL DEF Spec

\* The pages, the handlers they call and the countdown keep their types.
THEOREM PagesTypeCorrect == Spec => []TypeOK
<1>1. QED BY PagesInvAlways, PagesTypes, PTL

\* The override is the one the options page saved last, whatever forms the popup
\* sends, unless a save of the popup that had read before wrote back after it
\* (updateSettings).
THEOREM OverrideIsChosen == Spec => []OverrideAsChosen
<1>1. PagesInv => OverrideAsChosen BY DEF PagesInv, SettingsInv
<1>2. QED BY <1>1, PagesInvAlways, PTL

\* One interval at most runs, the one the popup can clear, and it counts to the
\* session that is shown (startCountdown, showInactive).
THEOREM CountdownIsOwned == Spec => []CountdownOwned
<1>1. PagesInv => CountdownOwned BY DEF PagesInv, CountdownInv
<1>2. QED BY <1>1, PagesInvAlways, PTL
=============================================================================
