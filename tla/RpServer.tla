------------------------------ MODULE RpServer ------------------------------
(***************************************************************************)
(* A relying party that consumes certificates: the two routes of           *)
(* protocol/reference-implementations/example-rp-server.js with their      *)
(* in-memory replay store, and the Express middleware of verify-node.js    *)
(* with the replay store its caller provides.                              *)
(*                                                                         *)
(* A request carries a certificate to one route; the same certificate may  *)
(* come in several requests, at any time, as it was issued or with fields  *)
(* changed after it was signed.                                            *)
(***************************************************************************)
EXTENDS Certificates

CONSTANTS
    Cert,       \* certificates that requests carry
    Body,       \* Body[c] is c as the request carries it
    Issued,     \* Issued[c] is what was signed
    Issuer,     \* Issuer[c] is the key it was signed with
    Request,    \* requests that reach the server
    ServerKey,  \* the HPP server's key, which the relying party has pinned
    RpId,       \* expectedRpId
    Tolerance,  \* clockToleranceMs
    MaxTime,    \* bound of the clock
    Routes,     \* the routes a run lets requests take
    None

Route == {"callback", "reauth", "middleware"}

Id(c)     == Body[c]["cert_id"]
Expiry(c) == Body[c]["expiry_ms"]
Ids       == {Id(c) : c \in Cert}

\* A request carries the signature that was made, over fields that may be others;
\* the HPP server signs one expiry for a cert_id.
ASSUME RpAssumption ==
    /\ \A c \in Cert : /\ Expiry(c) \in Nat
                       /\ Body[c]["hpp_server_sig"] =
                            Signature(Issuer[c], buildCanonicalPayload(Issued[c]))
    /\ \A c, d \in {e \in Cert : Issuer[e] = ServerKey} :
         Issued[c]["cert_id"] = Issued[d]["cert_id"] =>
           Issued[c]["expiry_ms"] = Issued[d]["expiry_ms"]
    /\ RpId # Null
    /\ Tolerance \in Nat /\ MaxTime \in Nat
    /\ Routes \subseteq Route
    /\ None \notin Cert \cup Int

VARIABLES
    request,    \* what each request carries and where its handler is suspended
    store,      \* replayStore of the server: cert_id -> expiresAt
    shared,     \* the replay store of the middleware: cert_id -> expiresAt
    sessions,   \* requests whose session is in the sessions map
    granted,    \* requests the server granted (history)
    passed,     \* requests the middleware passed on (history)
    now         \* Date.now()

vars == <<request, store, shared, sessions, granted, passed, now>>

New      == [pc |-> "new", cert |-> None, route |-> "callback"]
StoreMap == [Ids -> Int \cup {None}]

TypeOK ==
    /\ request \in [Request -> [pc : {"new", "verified", "fresh", "done"},
                                cert : Cert \cup {None}, route : Route]]
    /\ store \in StoreMap /\ shared \in StoreMap
    /\ sessions \in SUBSET Request /\ granted \in SUBSET Request
    /\ passed \in SUBSET Request
    /\ now \in Nat

Init ==
    /\ request = [q \in Request |-> New]
    /\ store = [i \in Ids |-> None] /\ shared = [i \in Ids |-> None]
    /\ sessions = {} /\ granted = {} /\ passed = {}
    /\ now = 0

-----------------------------------------------------------------------------
\* The replay stores

\* An entry that no longer counts at its expiresAt.
UsedStrict(map, c) == map[Id(c)] # None /\ now < map[Id(c)]

\* has: an entry counts until its expiresAt has passed.
Used(map, c) == map[Id(c)] # None /\ now <= map[Id(c)]

\* The time to live counted from the end of the tolerance.
TtlTolerant(c) == IF Expiry(c) < now THEN 0 ELSE Expiry(c) - now - Tolerance

\* Math.max(0, cert.expiry_ms - Date.now())
Ttl(c) == IF Expiry(c) < now THEN 0 ELSE Expiry(c) - now

Remember(map, c) == [map EXCEPT ![Id(c)] = now + Ttl(c)]

\* A cleanup that never deletes.
SweepNothing(map) == map

Sweep(map) == [i \in Ids |-> IF map[i] # None /\ now > map[i] THEN None ELSE map[i]]

-----------------------------------------------------------------------------
\* The handlers

Step(q, pc) == request' = [request EXCEPT ![q].pc = pc]

Verifies(c) ==
    verifyPresenceCertificate(Body[c], ServerKey, RpId, now, Tolerance) = "valid"

Receive(q, c, route) ==
    /\ request[q].pc = "new"
    /\ request' = [request EXCEPT ![q] =
         [pc |-> IF Verifies(c) THEN "verified" ELSE "done", cert |-> c, route |-> route]]
    /\ UNCHANGED <<store, shared, sessions, granted, passed, now>>

\* A handler goes on after the await of verifyPresenceCertificate.
Verified(q, route) == request[q].pc = "verified" /\ request[q].route = route

AlreadyUsed(q) ==
    /\ \E route \in {"callback", "reauth"} : Verified(q, route)
    /\ Used(store, request[q].cert)
    /\ Step(q, "done")
    /\ UNCHANGED <<store, shared, sessions, granted, passed, now>>

\* Sessions kept under the certificate instead of an identifier of their own.
CallbackByCert(q) ==
    LET c == request[q].cert IN
    /\ Verified(q, "callback") /\ ~Used(store, c)
    /\ store' = Remember(store, c)
    /\ sessions' = sessions \cup {c} /\ granted' = granted \cup {q}
    /\ Step(q, "done")
    /\ UNCHANGED <<shared, passed, now>>

\* POST /api/hpp
Callback(q) ==
    LET c == request[q].cert IN
    /\ Verified(q, "callback") /\ ~Used(store, c)
    /\ store' = Remember(store, c)
    /\ sessions' = sessions \cup {q} /\ granted' = granted \cup {q}
    /\ Step(q, "done")
    /\ UNCHANGED <<shared, passed, now>>

\* POST /api/hpp/reauth: the certificate is consumed before its action_scope is
\* compared, and no session is created.
Reauth(q, scopeMatches) ==
    LET c == request[q].cert IN
    /\ Verified(q, "reauth") /\ ~Used(store, c)
    /\ store' = Remember(store, c)
    /\ granted' = IF scopeMatches THEN granted \cup {q} ELSE granted
    /\ Step(q, "done")
    /\ UNCHANGED <<shared, sessions, passed, now>>

\* GET /api/hpp/session drops the session of an expired certificate.
DropSession(q) ==
    /\ q \in sessions /\ now > Expiry(request[q].cert)
    /\ sessions' = sessions \ {q}
    /\ UNCHANGED <<request, store, shared, granted, passed, now>>

\* createHppMiddleware: "await has" and "await set" are two steps.
MiddlewareHas(q) ==
    /\ Verified(q, "middleware")
    /\ Step(q, IF Used(shared, request[q].cert) THEN "done" ELSE "fresh")
    /\ UNCHANGED <<store, shared, sessions, granted, passed, now>>

MiddlewareSet(q) ==
    /\ request[q].pc = "fresh"
    /\ shared' = Remember(shared, request[q].cert)
    /\ passed' = passed \cup {q}
    /\ Step(q, "done")
    /\ UNCHANGED <<store, sessions, granted, now>>

\* setInterval(() => replayStore.cleanup())
Cleanup ==
    /\ store' = Sweep(store)
    /\ UNCHANGED <<request, shared, sessions, granted, passed, now>>

Tick ==
    /\ now < MaxTime
    /\ now' = now + 1
    /\ UNCHANGED <<request, store, shared, sessions, granted, passed>>

Next ==
    \/ Tick \/ Cleanup
    \/ \E q \in Request :
         \/ \E c \in Cert, route \in Routes : Receive(q, c, route)
         \/ AlreadyUsed(q) \/ Callback(q) \/ DropSession(q)
         \/ \E scopeMatches \in BOOLEAN : Reauth(q, scopeMatches)
         \/ MiddlewareHas(q) \/ MiddlewareSet(q)

Spec == Init /\ [][Next]_vars

\* The interval of the cleanup fires and time passes.
FairSpec == Spec /\ WF_vars(Tick) /\ WF_vars(Cleanup)

-----------------------------------------------------------------------------
\* Properties

SameId(p, q) == Id(request[p].cert) = Id(request[q].cert)
Valid(q)     == now <= Expiry(request[q].cert)

\* While a certificate is valid no second request with its cert_id is granted,
\* whichever of the two routes they take, whatever the second one changed in
\* it and whenever the store is swept (has, set and cleanup of
\* InMemoryReplayStore).
OnceWhileValid ==
    [][\A q \in granted, p \in granted' \ granted : ~(Valid(q) /\ SameId(p, q)')]_vars

\* The store is not filled for ever: every entry whose time to live ends before
\* the bounded clock stops is dropped, though expired certificates are accepted
\* and stored again within the tolerance (cleanup).
EntriesLeave ==
    \A i \in Ids : store[i] # None /\ store[i] < MaxTime ~> store[i] \in {None, MaxTime}

\* Once the middleware has passed a valid certificate on, no other request gets
\* past its "has" with that cert_id: a second one is passed only if it had asked
\* before the first one's "set" (the two awaits of createHppMiddleware).
AskedAndUnused(i) == {p \in Request : request[p].pc = "fresh" /\ Id(request[p].cert) = i}
PassedOnlyUnused ==
    [][\A q \in passed : Valid(q) =>
         AskedAndUnused(Id(request[q].cert))' \subseteq AskedAndUnused(Id(request[q].cert))]_vars

\* Whoever has a session, was granted or was passed on came with a certificate
\* that the HPP server had signed as it came, for this relying party and after
\* user verification: neither a copy changed after it was signed, nor one that
\* somebody else signed or that another site was given gets past the await
\* of the verification, on any route (verifyPresenceCertificate in both routes
\* of example-rp-server.js and in createHppMiddleware).
Genuine(c) ==
    /\ Issuer[c] = ServerKey
    /\ \A f \in SIGNED_FIELDS : Body[c][f] = Issued[c][f]
    /\ Issued[c]["rp_id"] = RpId /\ extractUVFlag(Issued[c]["authenticator_data"])
LetIn == sessions \cup granted \cup passed
LetInGenuine == \A q \in LetIn : Genuine(request[q].cert)

\* Whenever verify-test-suite.js is run it passes: each altered, expired,
\* misissued or incomplete certificate gets the verdict the suite asserts.
SuiteHolds == SuitePasses(now)
=============================================================================
