------------------------------ MODULE PageApi -------------------------------
(***************************************************************************)
(* window.HPP in a page, chrome-extension/hpp-api.js, with the part of     *)
(* content.js that carries its events to the service worker and back.  No  *)
(* event carries an identifier: a certificate, an error or a session       *)
(* answers every promise that is open when it arrives.                     *)
(***************************************************************************)
EXTENDS Naturals

CONSTANTS
    Call,       \* calls of requestPresence(), and the verifications they start
    Query,      \* calls of getSession()
    None

ASSUME PageAssumption == None \notin Call

VARIABLES
    ready,      \* _ready
    pending,    \* _pending
    timers,     \* calls whose setTimeout is armed
    invalid,    \* _sessionInvalid
    call,       \* what has become of each call
    query,      \* what has become of each query
    listening,  \* queries whose listener is registered
    answer,     \* answer[q] is what a query resolved with
    verifying,  \* verifications under way in the extension
    arriving,   \* certificates and errors on their way to the page
    session,    \* the worker's session of this tab
    reply       \* GET_SESSION: not sent, sent, or the reply on its way

apiVars    == <<ready, pending, timers, invalid, call>>
queryVars  == <<query, listening, answer, reply>>
workerVars == <<verifying, arriving, session>>
vars == <<apiVars, queryVars, workerVars>>

CallState  == {"new", "waiting", "resolved", "rejected", "timedout"}
QueryState == {"new", "waiting", "done"}
Message    == [kind : {"cert", "error"}, of : Call]

TypeOK ==
    /\ ready \in BOOLEAN /\ invalid \in BOOLEAN
    /\ pending \in SUBSET Call /\ timers \in SUBSET Call
    /\ call \in [Call -> CallState] /\ query \in [Query -> QueryState]
    /\ listening \in SUBSET Query /\ answer \in [Query -> Call \cup {None}]
    /\ verifying \in SUBSET Call /\ arriving \in SUBSET Message
    /\ session \in Call \cup {None}
    /\ reply \in [Query -> Call \cup {None, "unsent", "sent"}]

Init ==
    /\ ready = FALSE /\ pending = {} /\ timers = {} /\ invalid = FALSE
    /\ call = [c \in Call |-> "new"] /\ query = [q \in Query |-> "new"]
    /\ listening = {} /\ answer = [q \in Query |-> None]
    /\ verifying = {} /\ arriving = {} /\ session = None
    /\ reply = [q \in Query |-> "unsent"]

-----------------------------------------------------------------------------
\* requestPresence

\* hpp-extension-ready
ExtensionReady ==
    /\ ~ready /\ ready' = TRUE
    /\ UNCHANGED <<pending, timers, invalid, call, queryVars, workerVars>>

RequestRefused(c) ==
    /\ call[c] = "new" /\ ~ready
    /\ call' = [call EXCEPT ![c] = "rejected"]
    /\ UNCHANGED <<ready, pending, timers, invalid, queryVars, workerVars>>

\* A call without its timer.
RequestUntimed(c) ==
    /\ call[c] = "new" /\ ready
    /\ call' = [call EXCEPT ![c] = "waiting"]
    /\ pending' = pending \cup {c} /\ timers' = timers
    /\ verifying' = verifying \cup {c}
    /\ UNCHANGED <<ready, invalid, queryVars, arriving, session>>

RequestPresence(c) ==
    /\ call[c] = "new" /\ ready
    /\ call' = [call EXCEPT ![c] = "waiting"]
    /\ pending' = pending \cup {c} /\ timers' = timers \cup {c}
    /\ verifying' = verifying \cup {c}
    /\ UNCHANGED <<ready, invalid, queryVars, arriving, session>>

\* _resolveAll and _rejectAll that leave the timers armed.
SettleAllTimed(outcome) ==
    /\ call' = [c \in Call |-> IF c \in pending THEN outcome ELSE call[c]]
    /\ pending' = {} /\ timers' = timers

\* _resolveAll and _rejectAll that lose the outcome.
SettleAllBlank(outcome) ==
    /\ call' = [c \in Call |-> IF c \in pending THEN None ELSE call[c]]
    /\ pending' = {} /\ timers' = timers \ pending

\* _resolveAll and _rejectAll
SettleAll(outcome) ==
    /\ call' = [c \in Call |-> IF c \in pending THEN outcome ELSE call[c]]
    /\ pending' = {} /\ timers' = timers \ pending

\* hpp-cert-ready
CertReady(c) ==
    LET message == [kind |-> "cert", of |-> c] IN
    /\ message \in arriving /\ arriving' = arriving \ {message}
    /\ invalid' = FALSE
    /\ SettleAll("resolved")
    /\ UNCHANGED <<ready, queryVars, verifying, session>>

\* hpp-error
ErrorShown(c) ==
    LET message == [kind |-> "error", of |-> c] IN
    /\ message \in arriving /\ arriving' = arriving \ {message}
    /\ SettleAll("rejected")
    /\ UNCHANGED <<ready, invalid, queryVars, verifying, session>>

TimesOut(c) ==
    /\ c \in timers
    /\ timers' = timers \ {c} /\ pending' = pending \ {c}
    /\ call' = [call EXCEPT ![c] = "timedout"]
    /\ UNCHANGED <<ready, invalid, queryVars, workerVars>>

-----------------------------------------------------------------------------
\* getSession and invalidateSession

InvalidateSession ==
    /\ invalid' = TRUE
    /\ UNCHANGED <<ready, pending, timers, call, queryVars, workerVars>>

GetSession(q) ==
    /\ query[q] = "new"
    /\ IF invalid
         THEN /\ query' = [query EXCEPT ![q] = "done"]
              /\ UNCHANGED <<listening, reply>>
         ELSE /\ query' = [query EXCEPT ![q] = "waiting"]
              /\ listening' = listening \cup {q}
              /\ reply' = [reply EXCEPT ![q] = "sent"]
    /\ UNCHANGED <<apiVars, answer, workerVars>>

\* onGetSession of the worker; content.js answers null when the message fails.
WorkerReplies(q) ==
    /\ reply[q] = "sent"
    /\ \/ reply' = [reply EXCEPT ![q] = session]
       \/ reply' = [reply EXCEPT ![q] = None]
    /\ UNCHANGED <<apiVars, query, listening, answer, workerVars>>

\* hpp-session-response reaches every registered listener, once.
SessionResponse(q) ==
    /\ reply[q] \in Call \cup {None}
    /\ reply' = [reply EXCEPT ![q] = "unsent"]
    /\ query' = [p \in Query |-> IF p \in listening THEN "done" ELSE query[p]]
    /\ answer' = [p \in Query |-> IF p \in listening THEN reply[q] ELSE answer[p]]
    /\ listening' = {}
    /\ UNCHANGED <<apiVars, workerVars>>

\* A query that waits for its response as long as one may come.
QueryTimesOutLate(q) ==
    /\ q \in listening /\ reply[q] = "unsent"
    /\ listening' = listening \ {q}
    /\ query' = [query EXCEPT ![q] = "done"]
    /\ UNCHANGED <<apiVars, answer, reply, workerVars>>

\* The second is over; the promise resolves with null.
QueryTimesOut(q) ==
    /\ q \in listening
    /\ listening' = listening \ {q}
    /\ query' = [query EXCEPT ![q] = "done"]
    /\ UNCHANGED <<apiVars, answer, reply, workerVars>>

-----------------------------------------------------------------------------
\* The service worker, as the page sees it (onVerifyPresence,
\* submitAttestation): a certificate, an error that is shown, or silence.

Certified(c) ==
    /\ c \in verifying /\ verifying' = verifying \ {c}
    /\ session' = c
    /\ arriving' = arriving \cup {[kind |-> "cert", of |-> c]}
    /\ UNCHANGED <<apiVars, queryVars>>

Fails(c) ==
    /\ c \in verifying /\ verifying' = verifying \ {c}
    /\ arriving' \in {arriving, arriving \cup {[kind |-> "error", of |-> c]}}
    /\ UNCHANGED <<apiVars, queryVars, session>>

\* The session expires.
SessionEnds ==
    /\ session # None /\ session' = None
    /\ UNCHANGED <<apiVars, query, listening, answer, reply, verifying, arriving>>

Next ==
    \/ ExtensionReady \/ InvalidateSession \/ SessionEnds
    \/ \E c \in Call : \/ RequestRefused(c) \/ RequestPresence(c) \/ TimesOut(c)
                       \/ CertReady(c) \/ ErrorShown(c) \/ Certified(c) \/ Fails(c)
    \/ \E q \in Query : \/ GetSession(q) \/ WorkerReplies(q) \/ SessionResponse(q)
                        \/ QueryTimesOut(q)

Spec == Init /\ [][Next]_vars

\* Timers fire; nothing is assumed of the extension.
FairSpec ==
    /\ Spec
    /\ \A c \in Call : WF_vars(TimesOut(c))
    /\ \A q \in Query : WF_vars(QueryTimesOut(q))

-----------------------------------------------------------------------------
\* Properties

\* The calls that wait, the entries of _pending and the armed timers are the
\* same, through certificates and errors that settle several calls at once and
\* timers that fire meanwhile (_resolveAll, _rejectAll, _removePending).
PendingExact ==
    /\ pending = {c \in Call : call[c] = "waiting"}
    /\ timers = pending

\* Every promise of requestPresence settles, also when the worker stays silent.
CallsSettle == \A c \in Call : call[c] = "waiting" ~> call[c] # "waiting"

\* Every promise of getSession settles, also when no response comes.
QueriesSettle == \A q \in Query : query[q] = "waiting" ~> query[q] = "done"

=============================================================================
