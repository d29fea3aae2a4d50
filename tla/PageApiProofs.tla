---------------------------- MODULE PageApiProofs ---------------------------
(***************************************************************************)
(* Proofs about window.HPP, for any number of calls and of queries.  A     *)
(* certificate or an error settles every call that waits, whichever call   *)
(* it answers, and the timers that fire meanwhile settle one each; the     *)
(* three records of what waits never part.                                 *)
(***************************************************************************)
EXTENDS PageApi, TLAPS

PageInv == TypeOK /\ PendingExact

-----------------------------------------------------------------------------
\* No call waits at first.
LEMMA PageInvInit == Init => PageInv
<1> SUFFICES ASSUME Init PROVE PageInv
  OBVIOUS
<1>1. TypeOK BY DEF Init, TypeOK, CallState, QueryState
<1>2. PendingExact BY DEF Init, PendingExact
<1>3. QED BY <1>1, <1>2 DEF PageInv

\* requestPresence: a call that is refused, one that begins to wait, and the
\* timer that gives up on one.
LEMMA RequestKept ==
    ASSUME PageInv, NEW c \in Call,
           RequestRefused(c) \/ RequestPresence(c) \/ TimesOut(c)
    PROVE  PageInv'
<1> USE DEF PageInv, TypeOK, PendingExact, CallState, queryVars, workerVars
<1>1. CASE RequestRefused(c) BY <1>1 DEF RequestRefused
<1>2. CASE RequestPresence(c) BY <1>2 DEF RequestPresence
<1>3. CASE TimesOut(c) BY <1>3 DEF TimesOut
<1>4. QED BY <1>1, <1>2, <1>3

\* _resolveAll and _rejectAll settle whatever waits: nothing is left waiting,
\* pending or timed.
LEMMA SettleAllExact ==
    ASSUME PageInv, NEW outcome \in {"resolved", "rejected"}, SettleAll(outcome)
    PROVE  /\ call' \in [Call -> CallState]
           /\ pending' = {} /\ timers' = {}
           /\ \A c \in Call : call'[c] # "waiting"
BY DEF PageInv, TypeOK, PendingExact, CallState, SettleAll

\* A certificate or an error of any call settles all of them.
LEMMA EventKept ==
    ASSUME PageInv, NEW c \in Call, CertReady(c) \/ ErrorShown(c)
    PROVE  PageInv'
<1>1. SettleAll("resolved") \/ SettleAll("rejected") BY DEF CertReady, ErrorShown
<1>2. /\ call' \in [Call -> CallState]
      /\ pending' = {} /\ timers' = {}
      /\ \A b \in Call : call'[b] # "waiting"
  BY <1>1, SettleAllExact
<1>3. /\ UNCHANGED <<ready, query, listening, answer, reply, verifying, session>>
      /\ invalid' \in {invalid, FALSE} /\ arriving' \subseteq arriving
  BY DEF CertReady, ErrorShown, queryVars
<1>4. invalid' \in BOOLEAN BY <1>3, Zenon DEF PageInv, TypeOK
<1>5. TypeOK' BY <1>2, <1>3, <1>4 DEF PageInv, TypeOK
<1>6. PendingExact' BY <1>2 DEF PendingExact
<1>7. QED BY <1>5, <1>6 DEF PageInv

\* getSession and its events leave the calls alone.
LEMMA QueryKept ==
    ASSUME PageInv, NEW q \in Query,
           GetSession(q) \/ WorkerReplies(q) \/ SessionResponse(q) \/ QueryTimesOut(q)
    PROVE  PageInv'
<1> USE DEF PageInv, TypeOK, QueryState
<1>1. UNCHANGED apiVars /\ UNCHANGED workerVars
  BY DEF GetSession, WorkerReplies, SessionResponse, QueryTimesOut
<1>2. PendingExact' BY <1>1 DEF PendingExact, apiVars
<1>3. TypeOK'
  <2>1. CASE GetSession(q) BY <1>1, <2>1 DEF GetSession, apiVars, workerVars
  <2>2. CASE WorkerReplies(q) BY <1>1, <2>2 DEF WorkerReplies, apiVars, workerVars
  <2>3. CASE SessionResponse(q) BY <1>1, <2>3 DEF SessionResponse, apiVars, workerVars
  <2>4. CASE QueryTimesOut(q) BY <1>1, <2>4 DEF QueryTimesOut, apiVars, workerVars
  <2>5. QED BY <2>1, <2>2, <2>3, <2>4
<1>4. QED BY <1>2, <1>3

\* What the worker does reaches the page in events only.
LEMMA WorkerKept ==
    ASSUME PageInv, NEW c \in Call, Certified(c) \/ Fails(c)
    PROVE  PageInv'
<1> USE DEF PageInv, TypeOK, Message, apiVars, queryVars
<1>1. UNCHANGED apiVars /\ UNCHANGED queryVars BY DEF Certified, Fails
<1>2. PendingExact' BY <1>1 DEF PendingExact
<1>3. TypeOK' BY <1>1 DEF Certified, Fails
<1>4. QED BY <1>2, <1>3

\* Every step of the page, the worker and the timers keeps the invariant.
LEMMA PageInvKept == PageInv /\ [Next]_vars => PageInv'
<1> SUFFICES ASSUME PageInv, [Next]_vars PROVE PageInv'
  OBVIOUS
<1>1. CASE ExtensionReady \/ InvalidateSession \/ SessionEnds
  BY <1>1 DEF PageInv, TypeOK, PendingExact, ExtensionReady, InvalidateSession,
              SessionEnds, apiVars, queryVars, workerVars
<1>2. CASE UNCHANGED vars
  BY <1>2 DEF PageInv, TypeOK, PendingExact, vars, apiVars, queryVars, workerVars
<1>3. QED
  BY <1>1, <1>2, RequestKept, EventKept, QueryKept, WorkerKept DEF Next

-----------------------------------------------------------------------------
\* So it always holds.
LEMMA PageInvAlways == Spec => []PageInv
<1>1. QED BY PageInvInit, PageInvKept, PTL DEF Spec

\* hpp-api.js and the messages of its page keep their types.
THEOREM PageTypes == Spec => []TypeOK
<1>1. PageInv => TypeOK BY DEF PageInv
<1>2. QED BY <1>1, PageInvAlways, PTL

\* Open promises, _pending and armed timers are the same calls, whichever
\* certificate, error or timer settles them (_resolveAll, _rejectAll,
\* _removePending).
THEOREM PendingIsExact == Spec => []PendingExact
<1>1. PageInv => PendingExact BY DEF PageInv
<1>2. QED BY <1>1, PageInvAlways, PTL
=============================================================================
