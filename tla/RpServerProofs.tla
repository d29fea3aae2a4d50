--------------------------- MODULE RpServerProofs ---------------------------
(***************************************************************************)
(* For any certificates, requests, tolerance and times: RpServer keeps its *)
(* types, grants nothing again with the cert_id of a valid certificate,    *)
(* lets in only certificates that the HPP server signed as they came, and  *)
(* its middleware passes a second request only if it had asked before.     *)
(* The library refuses what was altered and passes its test suite.         *)
(***************************************************************************)
EXTENDS RpServer, TLAPS

CertOf(q) == request[q].cert

\* The replay store covers every granted certificate until it expires.
Covered == \A q \in granted : Valid(q) =>
               store[Id(CertOf(q))] # None /\ store[Id(CertOf(q))] >= Expiry(CertOf(q))

\* A request whose handler has not ended is not granted.
GrantedAreDone == \A q \in granted : request[q].pc = "done"

\* A request that is past its verification carries a certificate.
CertKnown == \A q \in Request : request[q].pc # "new" => CertOf(q) \in Cert

RpInv == TypeOK /\ Covered /\ GrantedAreDone /\ CertKnown

\* What OnceWhileValid says of a step.
GrantOnce == \A q \in granted, p \in granted' \ granted : ~(Valid(q) /\ SameId(p, q)')

\* What set writes is a time, and not before the certificate's expiry.
LEMMA RememberCovers ==
    ASSUME NEW map \in StoreMap, NEW c \in Cert, now \in Nat
    PROVE  /\ Remember(map, c) \in StoreMap
           /\ Remember(map, c)[Id(c)] >= Expiry(c) /\ Remember(map, c)[Id(c)] \in Int
           /\ \A i \in Ids \ {Id(c)} : Remember(map, c)[i] = map[i]
<1> DEFINE i == Id(c)
           time == now + Ttl(c)
<1>1. Expiry(c) \in Nat BY RpAssumption
<1> HIDE DEF Expiry
<1>2. time \in Int /\ time >= Expiry(c) BY <1>1 DEF Ttl
<1>3. i \in Ids BY DEF Ids
<1>4. Remember(map, c) = [map EXCEPT ![i] = time] BY DEF Remember
<1> HIDE DEF i, time
<1>5. QED BY <1>2, <1>3, <1>4 DEF StoreMap, i

\* The expiry of a certificate is a time, its cert_id one of the ids.
LEMMA CertHas == ASSUME NEW c \in Cert PROVE Expiry(c) \in Nat /\ Id(c) \in Ids
BY RpAssumption DEF Ids

\* A request that a step of its handler moves is one of the requests known.
LEMMA StepType ==
    ASSUME TypeOK, NEW q \in Request, NEW pc \in {"verified", "fresh", "done"}, Step(q, pc)
    PROVE  /\ request' \in [Request -> [pc : {"new", "verified", "fresh", "done"},
                                        cert : Cert \cup {None}, route : Route]]
           /\ \A p \in Request : request'[p].cert = request[p].cert
           /\ \A p \in Request \ {q} : request'[p] = request[p]
           /\ request'[q].pc = pc
<1> DEFINE Rec == [pc : {"new", "verified", "fresh", "done"},
                   cert : Cert \cup {None}, route : Route]
           new == [request[q] EXCEPT !.pc = pc]
<1>1. request \in [Request -> Rec] BY DEF TypeOK
<1>2. new \in Rec /\ new.cert = request[q].cert /\ new.pc = pc BY <1>1
<1>3. request' = [request EXCEPT ![q] = new] BY DEF Step
<1> HIDE DEF new, Rec
<1>4. request' \in [Request -> Rec] BY <1>1, <1>2, <1>3
<1>5. QED BY <1>1, <1>2, <1>3, <1>4 DEF Rec

\* The initial states satisfy RpInv.
LEMMA RpInvInit == Init => RpInv
BY RpAssumption DEF Init, RpInv, TypeOK, Covered, GrantedAreDone, CertKnown, New, StoreMap, Route

\* Where the request, its store and its grants stay, time may pass and the rest
\* may change.
LEMMA RpOthers ==
    ASSUME RpInv, UNCHANGED <<request, store, granted>>, shared' \in StoreMap,
           sessions' \in SUBSET Request, passed' \in SUBSET Request,
           now' \in Nat, now' >= now
    PROVE  RpInv' /\ GrantOnce
<1>1. TypeOK' BY DEF RpInv, TypeOK
<1>2. GrantedAreDone' /\ CertKnown' BY DEF RpInv, GrantedAreDone, CertKnown, CertOf
<1>3. Covered'
  <2>1. \A q \in granted : CertOf(q)' = CertOf(q) BY DEF CertOf
  <2>2. \A q \in granted : CertOf(q) \in Cert
    BY DEF RpInv, GrantedAreDone, CertKnown, TypeOK
  <2>3. \A q \in granted : Valid(q)' => Valid(q)
    BY <2>1, <2>2, CertHas DEF Valid, CertOf, RpInv, TypeOK
  <2>4. QED BY <2>1, <2>3 DEF RpInv, Covered
<1>4. QED BY <1>1, <1>2, <1>3 DEF RpInv, GrantOnce

\* A request that arrives is not granted yet.
LEMMA RpReceive ==
    ASSUME RpInv, NEW q \in Request, NEW c \in Cert, NEW route \in Route, Receive(q, c, route)
    PROVE  RpInv' /\ GrantOnce
<1> DEFINE new == [pc |-> IF Verifies(c) THEN "verified" ELSE "done",
                   cert |-> c, route |-> route]
           Rec == [pc : {"new", "verified", "fresh", "done"},
                   cert : Cert \cup {None}, route : Route]
<1> HIDE DEF Verifies
<1>1. new \in Rec /\ new.cert = c OBVIOUS
<1>2. request' = [request EXCEPT ![q] = new] /\ request[q].pc = "new" BY DEF Receive
<1> HIDE DEF new
<1>3. UNCHANGED <<store, shared, sessions, granted, passed, now>> BY DEF Receive
<1>4. q \notin granted BY <1>2 DEF RpInv, GrantedAreDone
<1>5. request \in [Request -> Rec] /\ granted \subseteq Request BY DEF RpInv, TypeOK
<1>6. request' \in [Request -> Rec] BY <1>1, <1>2, <1>5
<1>7. /\ \A p \in Request \ {q} : request'[p] = request[p]
      /\ request'[q].cert = c
  BY <1>1, <1>2, <1>5
<1>8. TypeOK' BY <1>3, <1>6 DEF RpInv, TypeOK
<1>9. GrantedAreDone' BY <1>3, <1>4, <1>5, <1>7 DEF RpInv, GrantedAreDone
<1>10. CertKnown' BY <1>7 DEF RpInv, CertKnown, CertOf
<1>11. \A p \in granted : CertOf(p)' = CertOf(p) BY <1>4, <1>5, <1>7 DEF CertOf
<1>12. \A p \in granted : Valid(p)' <=> Valid(p) BY <1>3, <1>11 DEF Valid, CertOf
<1>13. Covered' BY <1>3, <1>11, <1>12 DEF RpInv, Covered
<1>14. QED BY <1>3, <1>8, <1>9, <1>10, <1>13 DEF RpInv, GrantOnce

\* What a handler that goes on leaves alone.
LEMMA RpStep ==
    ASSUME RpInv, NEW q \in Request, NEW pc \in {"verified", "fresh", "done"}, Step(q, pc),
           request[q].pc \in {"verified", "fresh"},
           granted' = granted \/ (granted' = granted \cup {q} /\ pc = "done")
    PROVE  /\ CertKnown' /\ GrantedAreDone' /\ q \notin granted
           /\ \A p \in Request : CertOf(p)' = CertOf(p)
<1>1. q \notin granted BY DEF RpInv, GrantedAreDone
<1>2. granted \subseteq Request BY DEF RpInv, TypeOK
<1>3. /\ \A p \in Request : CertOf(p)' = CertOf(p)
      /\ \A p \in Request \ {q} : request'[p] = request[p]
      /\ request'[q].pc = pc
  BY StepType DEF RpInv, CertOf
<1>4. CertKnown'
  <2>1. SUFFICES ASSUME NEW p \in Request, request'[p].pc # "new" PROVE CertOf(p)' \in Cert
    BY DEF CertKnown
  <2>2. request[p].pc # "new"
    <3>1. CASE p = q BY <3>1
    <3>2. CASE p # q BY <1>3, <2>1, <3>2
    <3>3. QED BY <3>1, <3>2
  <2>3. QED BY <1>3, <2>2 DEF RpInv, CertKnown
<1>5. GrantedAreDone' BY <1>1, <1>2, <1>3 DEF RpInv, GrantedAreDone
<1>6. QED BY <1>1, <1>3, <1>4, <1>5

\* A handler that goes on without its store and without a grant.
LEMMA RpMoves ==
    ASSUME RpInv, NEW q \in Request, NEW pc \in {"fresh", "done"}, Step(q, pc),
           request[q].pc \in {"verified", "fresh"}, UNCHANGED <<store, sessions, granted, now>>,
           shared' \in StoreMap, passed' \in SUBSET Request
    PROVE  RpInv' /\ GrantOnce
<1>1. TypeOK' BY StepType DEF RpInv, TypeOK
<1>2. /\ CertKnown' /\ GrantedAreDone'
      /\ \A p \in Request : CertOf(p)' = CertOf(p)
  BY RpStep
<1>3. \A p \in granted : p \in Request BY DEF RpInv, TypeOK
<1>4. \A p \in granted : Valid(p)' <=> Valid(p) BY <1>2, <1>3 DEF Valid, CertOf
<1>5. Covered' BY <1>2, <1>3, <1>4 DEF RpInv, Covered
<1>6. QED BY <1>1, <1>2, <1>5 DEF RpInv, GrantOnce

\* A handler that stores its certificate, and grants its request or does not.
LEMMA RpStores ==
    ASSUME RpInv, NEW q \in Request, NEW keep \in SUBSET Request,
           request[q].pc = "verified", ~Used(store, CertOf(q)),
           store' = Remember(store, CertOf(q)), Step(q, "done"),
           granted' = granted \cup {q} \/ granted' = granted,
           sessions' = keep, UNCHANGED <<shared, passed, now>>
    PROVE  RpInv' /\ GrantOnce
<1> DEFINE c == CertOf(q)
<1>1. c \in Cert /\ now \in Nat /\ store \in StoreMap /\ granted \subseteq Request
  BY DEF CertKnown, RpInv, TypeOK
<1>2. /\ CertKnown' /\ GrantedAreDone' /\ q \notin granted
      /\ \A p \in Request : CertOf(p)' = CertOf(p)
  BY RpStep
<1>3. /\ store' \in StoreMap
      /\ store'[Id(c)] >= Expiry(c) /\ store'[Id(c)] \in Int
      /\ \A i \in Ids \ {Id(c)} : store'[i] = store[i]
  BY <1>1, RememberCovers
<1>4. TypeOK' BY <1>1, <1>3, StepType DEF RpInv, TypeOK
<1>5. ASSUME NEW p \in granted, Id(CertOf(p)) = Id(c) PROVE ~Valid(p)
  <2>1. CertOf(p) \in Cert BY <1>1 DEF RpInv, GrantedAreDone, CertKnown
  <2>2. Expiry(CertOf(p)) \in Nat /\ Id(c) \in Ids BY <1>1, <2>1, CertHas
  <2>3. store[Id(c)] \in Int \cup {None} BY <1>1, <2>2 DEF StoreMap
  <2>4. store[Id(c)] = None \/ ~(now <= store[Id(c)]) BY DEF Used
  <2>5. ASSUME Valid(p) PROVE FALSE
    <3>1. store[Id(c)] # None /\ store[Id(c)] >= Expiry(CertOf(p))
      BY <1>5, <2>5 DEF RpInv, Covered
    <3>2. now <= Expiry(CertOf(p)) BY <2>5 DEF Valid, CertOf
    <3> HIDE DEF Expiry, CertOf, Id
    <3>3. store[Id(c)] \in Int BY <2>3, <3>1
    <3>4. QED BY <1>1, <2>2, <2>4, <3>1, <3>2, <3>3
  <2>6. QED BY <2>5
<1>6. \A p \in granted : Valid(p)' <=> Valid(p)
  BY <1>1, <1>2 DEF Valid, CertOf
<1>7. Covered'
  <2>1. SUFFICES ASSUME NEW p \in granted', Valid(p)'
                 PROVE  /\ store'[Id(CertOf(p))] # None
                        /\ store'[Id(CertOf(p))] >= Expiry(CertOf(p))
    <3>1. \A p \in granted' : p \in Request BY <1>1
    <3>2. QED BY <1>2, <2>1, <3>1 DEF Covered
  <2>2. CASE p = q
    <3>1. \A x \in Int : x # None BY RpAssumption
    <3>2. QED BY <1>3, <2>2, <3>1
  <2>3. CASE p # q
    <3>1. p \in granted /\ Valid(p) BY <1>6, <2>1, <2>3
    <3>2. Id(CertOf(p)) # Id(c) BY <1>5, <3>1
    <3>3. CertOf(p) \in Cert BY <1>1, <3>1 DEF RpInv, GrantedAreDone, CertKnown
    <3>4. store'[Id(CertOf(p))] = store[Id(CertOf(p))] BY <1>3, <3>2, <3>3, CertHas
    <3>5. QED BY <3>1, <3>4 DEF RpInv, Covered
  <2>4. QED BY <2>2, <2>3
<1>8. GrantOnce
  <2>1. SUFFICES ASSUME NEW p \in granted, NEW r \in granted' \ granted, Valid(p), SameId(r, p)'
                 PROVE  FALSE
    BY DEF GrantOnce
  <2>2. r = q OBVIOUS
  <2>3. Id(CertOf(q)) = Id(CertOf(p))
    <3>1. Id(CertOf(r)') = Id(CertOf(p)') BY <2>1 DEF SameId, CertOf, Id
    <3>2. QED BY <1>1, <1>2, <2>2, <3>1
  <2>4. QED BY <1>5, <2>1, <2>3
<1>9. QED BY <1>2, <1>4, <1>7, <1>8 DEF RpInv

\* The cleanup drops no entry that covers a valid certificate.
LEMMA RpCleanup == ASSUME RpInv, Cleanup PROVE RpInv' /\ GrantOnce
<1>1. \A i \in Ids : store'[i] = IF store[i] # None /\ now > store[i] THEN None ELSE store[i]
  BY DEF Cleanup, Sweep
<1>2. UNCHANGED <<request, shared, sessions, granted, passed, now>> BY DEF Cleanup
<1>3. TypeOK' BY DEF Cleanup, Sweep, RpInv, TypeOK, StoreMap
<1>4. Covered'
  <2>1. SUFFICES ASSUME NEW p \in granted, Valid(p)
                 PROVE  /\ store'[Id(CertOf(p))] # None
                        /\ store'[Id(CertOf(p))] >= Expiry(CertOf(p))
    BY <1>2 DEF Covered, Valid, CertOf
  <2>2. CertOf(p) \in Cert BY DEF RpInv, GrantedAreDone, CertKnown, TypeOK
  <2> DEFINE entry == store[Id(CertOf(p))]
             expiry == Expiry(CertOf(p))
  <2>3. expiry \in Nat /\ Id(CertOf(p)) \in Ids BY <2>2, CertHas
  <2>4. entry # None /\ entry >= expiry BY <2>1 DEF RpInv, Covered
  <2>5. entry \in Int BY <2>3, <2>4 DEF RpInv, TypeOK, StoreMap
  <2>6. now <= expiry /\ now \in Nat BY <2>1 DEF Valid, CertOf, RpInv, TypeOK
  <2>7. store'[Id(CertOf(p))] = IF entry # None /\ now > entry THEN None ELSE entry
    BY <1>1, <2>3
  <2> HIDE DEF entry, expiry
  <2>8. ~(now > entry) BY <2>3, <2>4, <2>5, <2>6
  <2>9. QED BY <2>4, <2>7, <2>8 DEF entry, expiry
<1>5. GrantedAreDone' /\ CertKnown' BY <1>2 DEF RpInv, GrantedAreDone, CertKnown, CertOf
<1>6. QED BY <1>2, <1>3, <1>4, <1>5 DEF RpInv, GrantOnce

\* A step keeps RpInv, and grants no valid certificate again.
LEMMA RpInvNext == ASSUME RpInv, [Next]_vars PROVE RpInv' /\ [GrantOnce]_vars
<1> USE RpAssumption
<1>1. CASE UNCHANGED vars BY <1>1, RpOthers DEF vars, RpInv, TypeOK
<1>2. CASE Tick BY <1>2, RpOthers DEF Tick, RpInv, TypeOK
<1>3. CASE Cleanup BY <1>3, RpCleanup
<1>4. ASSUME NEW q \in Request, NEW c \in Cert, NEW route \in Routes, Receive(q, c, route)
      PROVE  RpInv' /\ GrantOnce
  BY <1>4, RpReceive
<1>5. ASSUME NEW q \in Request, AlreadyUsed(q) PROVE RpInv' /\ GrantOnce
  BY <1>5, RpMoves DEF AlreadyUsed, Verified, RpInv, TypeOK
<1>6. ASSUME NEW q \in Request, Callback(q) PROVE RpInv' /\ GrantOnce
  <2>1. sessions \cup {q} \in SUBSET Request BY DEF RpInv, TypeOK
  <2>2. QED BY <1>6, <2>1, RpStores DEF Callback, Verified, CertOf
<1>7. ASSUME NEW q \in Request, NEW m \in BOOLEAN, Reauth(q, m) PROVE RpInv' /\ GrantOnce
  <2>1. sessions \in SUBSET Request BY DEF RpInv, TypeOK
  <2>2. granted' = granted \cup {q} \/ granted' = granted BY <1>7 DEF Reauth
  <2>3. QED BY <1>7, <2>1, <2>2, RpStores DEF Reauth, Verified, CertOf
<1>8. ASSUME NEW q \in Request, DropSession(q) PROVE RpInv' /\ GrantOnce
  BY <1>8, RpOthers DEF DropSession, RpInv, TypeOK
<1>9. ASSUME NEW q \in Request, MiddlewareHas(q) PROVE RpInv' /\ GrantOnce
  BY <1>9, RpMoves DEF MiddlewareHas, Verified, RpInv, TypeOK
<1>10. ASSUME NEW q \in Request, MiddlewareSet(q) PROVE RpInv' /\ GrantOnce
  BY <1>10, RpMoves, RememberCovers DEF MiddlewareSet, CertKnown, CertOf, RpInv, TypeOK
<1>11. QED
  BY <1>1, <1>2, <1>3, <1>4, <1>5, <1>6, <1>7, <1>8, <1>9, <1>10 DEF Next

\* Types: every variable of the relying party keeps its type.
THEOREM RpTypes == Spec => []TypeOK
<1>1. RpInv => TypeOK BY DEF RpInv
<1>2. QED BY <1>1, RpInvInit, RpInvNext, PTL DEF Spec

\* Nothing is granted again with the cert_id of a valid certificate
\* (example-rp-server.js, both routes, with the periodic cleanup).
THEOREM ValidGrantedOnce == Spec => OnceWhileValid
<1>1. RpInv /\ [Next]_vars =>
        [\A q \in granted, p \in granted' \ granted : ~(Valid(q) /\ SameId(p, q)')]_vars
  BY RpInvNext DEF GrantOnce
<1>2. QED BY <1>1, RpInvInit, RpInvNext, PTL DEF Spec, OnceWhileValid

-----------------------------------------------------------------------------
\* Who is let in

\* A payload says what each signed field holds: two objects that differ in one
\* have two payloads.
LEMMA PayloadTells ==
    ASSUME NEW a, NEW b, NEW f \in SIGNED_FIELDS, a[f] # b[f]
    PROVE  buildCanonicalPayload(a) # buildCanonicalPayload(b)
<1> DEFINE p(o) == buildCanonicalPayload(o)
<1>1. \A o : DOMAIN p(o) = {g \in SIGNED_FIELDS : o[g] # Undefined}
  BY DEF buildCanonicalPayload, Payload
<1>2. \A o : o[f] # Undefined => p(o)[f] = o[f]
  BY DEF buildCanonicalPayload, Payload
<1> HIDE DEF p
<1>3. ASSUME a[f] # Undefined, b[f] # Undefined PROVE p(a) # p(b)
  BY <1>2, <1>3
<1>4. ASSUME a[f] = Undefined \/ b[f] = Undefined PROVE p(a) # p(b)
  <2>1. f \in DOMAIN p(a) <=> a[f] # Undefined BY <1>1
  <2>2. f \in DOMAIN p(b) <=> b[f] # Undefined BY <1>1
  <2>3. QED BY <1>4, <2>1, <2>2
<1>5. QED BY <1>3, <1>4 DEF p

\* A payload does not say what an unsigned field holds.
LEMMA PayloadIgnores ==
    ASSUME NEW a, NEW b, \A f \in SIGNED_FIELDS : a[f] = b[f]
    PROVE  buildCanonicalPayload(a) = buildCanonicalPayload(b)
<1>1. {f \in SIGNED_FIELDS : a[f] # Undefined} = {f \in SIGNED_FIELDS : b[f] # Undefined}
  OBVIOUS
<1>2. QED BY <1>1 DEF buildCanonicalPayload, Payload

\* A signature tells the key it was made with and what it was made over.
LEMMA SignatureTells ==
    ASSUME NEW k, NEW p, NEW l, NEW q
    PROVE  Signature(k, p) = Signature(l, q) <=> k = l /\ p = q
BY DEF Signature

\* The library finds a certificate signed exactly if the HPP server signed the
\* fields it carries.
LEMMA SignedAsIssued ==
    ASSUME NEW c \in Cert
    PROVE  SignedAsCanonical(Body[c], ServerKey) <=>
             Issuer[c] = ServerKey /\ \A f \in SIGNED_FIELDS : Body[c][f] = Issued[c][f]
<1> DEFINE body == Body[c]
           issued == Issued[c]
<1>1. body["hpp_server_sig"] = Signature(Issuer[c], buildCanonicalPayload(issued))
  BY RpAssumption
<1> HIDE DEF body, issued
<1>2. SignedAsCanonical(body, ServerKey) <=>
        Issuer[c] = ServerKey /\ buildCanonicalPayload(body) = buildCanonicalPayload(issued)
  BY <1>1, SignatureTells DEF SignedAsCanonical
<1>3. buildCanonicalPayload(body) = buildCanonicalPayload(issued) <=>
        \A f \in SIGNED_FIELDS : body[f] = issued[f]
  BY PayloadTells, PayloadIgnores
<1>4. QED BY <1>2, <1>3 DEF body, issued

\* What passes the library is genuine.
LEMMA VerifiesGenuine == ASSUME NEW c \in Cert, Verifies(c) PROVE Genuine(c)
<1>1. /\ SignedAsCanonical(Body[c], ServerKey)
      /\ RpId \in {Null, Body[c]["rp_id"]}
      /\ extractUVFlag(Body[c]["authenticator_data"])
  BY Zenon DEF Verifies, verifyPresenceCertificate
<1>2. Issuer[c] = ServerKey /\ \A f \in SIGNED_FIELDS : Body[c][f] = Issued[c][f]
  BY <1>1, SignedAsIssued
<1>3. RpId # Null BY RpAssumption
<1>4. "rp_id" \in SIGNED_FIELDS /\ "authenticator_data" \in SIGNED_FIELDS
  BY DEF SIGNED_FIELDS
<1>5. Issued[c]["rp_id"] = RpId BY <1>1, <1>2, <1>3, <1>4
<1>6. Issued[c]["authenticator_data"] = Body[c]["authenticator_data"] BY <1>2, <1>4
<1>7. extractUVFlag(Issued[c]["authenticator_data"]) BY <1>1, <1>6
<1>8. QED BY <1>2, <1>5, <1>7 DEF Genuine

\* Genuine certificates with one cert_id expire together.
LEMMA GenuineExpiry ==
    ASSUME NEW c \in Cert, NEW d \in Cert, Genuine(c), Genuine(d), Id(c) = Id(d)
    PROVE  Expiry(c) = Expiry(d)
<1>1. "cert_id" \in SIGNED_FIELDS /\ "expiry_ms" \in SIGNED_FIELDS BY DEF SIGNED_FIELDS
<1>2. Issued[c]["cert_id"] = Issued[d]["cert_id"] BY <1>1 DEF Genuine, Id
<1>3. Issued[c]["expiry_ms"] = Issued[d]["expiry_ms"] BY <1>2, RpAssumption DEF Genuine
<1>4. QED BY <1>1, <1>3 DEF Genuine, Expiry

\* A request whose handler goes on after the verification.
Accepted(q) == request[q].pc \in {"verified", "fresh"}

\* A request that is let in has ended, and both it and one that may still be let
\* in carry a genuine certificate.
LetInDone   == \A q \in LetIn : request[q].pc = "done"
GenuineOnly == \A q \in Request : Accepted(q) \/ q \in LetIn => Genuine(CertOf(q))

GenuineInv == RpInv /\ LetInDone /\ GenuineOnly

\* The initial states satisfy GenuineInv.
LEMMA GenuineInit == Init => GenuineInv
<1>1. Init => LetInDone /\ GenuineOnly
  BY DEF Init, LetIn, LetInDone, GenuineOnly, Accepted, New
<1>2. QED BY <1>1, RpInvInit DEF GenuineInv

\* What a request may become that is not let in at once: as it was, or ended, or
\* going on with what the library accepted.
LEMMA GenuineStays ==
    ASSUME GenuineInv, LetIn' \subseteq LetIn,
           \A q \in Request : \/ request'[q] = request[q]
                             \/ /\ request[q].pc # "done"
                                /\ Accepted(q)' => Genuine(CertOf(q)')
    PROVE  LetInDone' /\ GenuineOnly'
<1>1. LetIn \subseteq Request BY DEF GenuineInv, RpInv, TypeOK, LetIn
<1>2. \A q \in LetIn : request[q].pc = "done" BY DEF GenuineInv, LetInDone
<1>3. \A q \in LetIn : request'[q] = request[q] BY <1>1, <1>2
<1>4. LetInDone' BY <1>2, <1>3 DEF LetInDone
<1>5. ASSUME NEW q \in Request, Accepted(q)' \/ q \in LetIn' PROVE Genuine(CertOf(q)')
  <2>1. CASE request'[q] = request[q]
    <3>1. Accepted(q) \/ q \in LetIn BY <1>5, <2>1 DEF Accepted
    <3>2. Genuine(CertOf(q)) BY <3>1 DEF GenuineInv, GenuineOnly
    <3>3. QED BY <2>1, <3>2 DEF CertOf
  <2>2. CASE request'[q] # request[q]
    <3>1. q \notin LetIn' BY <1>3, <2>2
    <3>2. QED BY <1>5, <2>2, <3>1
  <2>3. QED BY <2>1, <2>2
<1>6. \A q \in Request : Genuine(CertOf(q))' <=> Genuine(CertOf(q)') BY DEF Genuine
<1>7. GenuineOnly' BY <1>5, <1>6 DEF GenuineOnly
<1>8. QED BY <1>4, <1>7

\* A handler that goes on keeps its certificate, and may let its request in.
LEMMA GenuineSteps ==
    ASSUME GenuineInv, NEW q \in Request, NEW pc \in {"fresh", "done"}, Step(q, pc),
           Accepted(q), LetIn' \subseteq LetIn \/ (pc = "done" /\ LetIn' \subseteq LetIn \cup {q})
    PROVE  LetInDone' /\ GenuineOnly'
<1>1. LetIn \subseteq Request BY DEF GenuineInv, RpInv, TypeOK, LetIn
<1>2. q \notin LetIn BY DEF GenuineInv, LetInDone, Accepted
<1>3. /\ \A p \in Request : CertOf(p)' = CertOf(p)
      /\ \A p \in Request \ {q} : request'[p] = request[p]
      /\ request'[q].pc = pc
  BY StepType DEF GenuineInv, RpInv, CertOf
<1>4. LetInDone'
  <2>1. SUFFICES ASSUME NEW p \in LetIn' PROVE request'[p].pc = "done" BY DEF LetInDone
  <2>2. CASE p = q BY <1>2, <1>3, <2>2
  <2>3. CASE p # q
    <3>1. p \in LetIn BY <2>3
    <3>2. QED BY <1>1, <1>3, <2>3, <3>1 DEF GenuineInv, LetInDone
  <2>4. QED BY <2>2, <2>3
<1>5. ASSUME NEW p \in Request, Accepted(p)' \/ p \in LetIn' PROVE Genuine(CertOf(p)')
  <2>1. Accepted(p) \/ p \in LetIn
    <3>1. CASE p = q BY <3>1
    <3>2. CASE p # q BY <1>3, <1>5, <3>2 DEF Accepted
    <3>3. QED BY <3>1, <3>2
  <2>2. Genuine(CertOf(p)) BY <2>1 DEF GenuineInv, GenuineOnly
  <2>3. QED BY <1>3, <2>2
<1>6. \A p \in Request : Genuine(CertOf(p))' <=> Genuine(CertOf(p)') BY DEF Genuine
<1>7. GenuineOnly' BY <1>5, <1>6 DEF GenuineOnly
<1>8. QED BY <1>4, <1>7

\* A step keeps GenuineInv.
LEMMA GenuineNext == ASSUME GenuineInv, [Next]_vars PROVE GenuineInv'
<1> USE DEF LetIn
<1>1. RpInv' BY RpInvNext DEF GenuineInv
<1>2. CASE UNCHANGED vars \/ Tick \/ Cleanup
  <2>1. request' = request /\ LetIn' = LetIn BY <1>2 DEF vars, Tick, Cleanup
  <2>2. QED BY <1>1, <2>1, GenuineStays DEF GenuineInv
<1>3. ASSUME NEW q \in Request, NEW c \in Cert, NEW route \in Routes, Receive(q, c, route)
      PROVE  LetInDone' /\ GenuineOnly'
  <2> DEFINE new == [pc |-> IF Verifies(c) THEN "verified" ELSE "done",
                     cert |-> c, route |-> route]
  <2>1. request' = [request EXCEPT ![q] = new] /\ request[q].pc = "new" BY <1>3 DEF Receive
  <2>2. LetIn' = LetIn BY <1>3 DEF Receive
  <2>3. new.pc \in {"verified", "fresh"} => Genuine(new.cert) BY VerifiesGenuine
  <2> HIDE DEF new
  <2>4. request'[q] = new /\ \A p \in Request \ {q} : request'[p] = request[p]
    BY <2>1 DEF GenuineInv, RpInv, TypeOK
  <2>5. Accepted(q)' => Genuine(CertOf(q)') BY <2>3, <2>4 DEF Accepted, CertOf
  <2>6. QED BY <2>1, <2>2, <2>4, <2>5, GenuineStays
<1>4. ASSUME NEW q \in Request, DropSession(q) PROVE LetInDone' /\ GenuineOnly'
  <2>1. request' = request /\ LetIn' \subseteq LetIn BY <1>4 DEF DropSession
  <2>2. QED BY <2>1, GenuineStays
<1>5. ASSUME NEW q \in Request, AlreadyUsed(q) \/ MiddlewareHas(q)
      PROVE  LetInDone' /\ GenuineOnly'
  <2>1. Accepted(q) /\ LetIn' = LetIn
    BY <1>5 DEF AlreadyUsed, MiddlewareHas, Verified, Accepted
  <2>2. \E pc \in {"fresh", "done"} : Step(q, pc) BY <1>5 DEF AlreadyUsed, MiddlewareHas
  <2>3. QED BY <2>1, <2>2, GenuineSteps
<1>6. ASSUME NEW q \in Request, Callback(q) \/ MiddlewareSet(q) PROVE LetInDone' /\ GenuineOnly'
  <2>1. Accepted(q) /\ LetIn' \subseteq LetIn \cup {q}
    BY <1>6 DEF Callback, MiddlewareSet, Verified, Accepted
  <2>2. Step(q, "done") BY <1>6 DEF Callback, MiddlewareSet
  <2>3. QED BY <2>1, <2>2, GenuineSteps
<1>7. ASSUME NEW q \in Request, NEW m \in BOOLEAN, Reauth(q, m) PROVE LetInDone' /\ GenuineOnly'
  <2>1. Accepted(q) /\ LetIn' \subseteq LetIn \cup {q}
    BY <1>7 DEF Reauth, Verified, Accepted
  <2>2. Step(q, "done") BY <1>7 DEF Reauth
  <2>3. QED BY <2>1, <2>2, GenuineSteps
<1>8. QED BY <1>1, <1>2, <1>3, <1>4, <1>5, <1>6, <1>7 DEF GenuineInv, Next

\* Whoever is let in came with a certificate that the HPP server had signed as
\* it came, for this site and after user verification (verifyPresenceCertificate
\* before every route of example-rp-server.js and in createHppMiddleware).
THEOREM LetInIsGenuine == Spec => []LetInGenuine
<1>1. GenuineInv => LetInGenuine
  <2>1. GenuineInv => LetIn \subseteq Request BY DEF GenuineInv, RpInv, TypeOK, LetIn
  <2>2. QED BY <2>1 DEF GenuineInv, GenuineOnly, LetInGenuine, CertOf
<1>2. QED BY <1>1, GenuineInit, GenuineNext, PTL DEF Spec

-----------------------------------------------------------------------------
\* The middleware

\* Its replay store covers every certificate it passed on until it expires.
SharedCovers == \A q \in passed : Valid(q) =>
                    shared[Id(CertOf(q))] # None /\ shared[Id(CertOf(q))] >= Expiry(CertOf(q))

PassedInv == GenuineInv /\ SharedCovers

\* What PassedOnlyUnused says of a step.
PassOnce == \A q \in passed : Valid(q) =>
    AskedAndUnused(Id(request[q].cert))' \subseteq AskedAndUnused(Id(request[q].cert))

\* The initial states satisfy PassedInv.
LEMMA PassedInit == Init => PassedInv
BY GenuineInit DEF Init, PassedInv, SharedCovers

\* A request that was passed on carries a certificate, and is valid only if it
\* was valid before.
LEMMA PassedHas ==
    ASSUME PassedInv, now' \in Nat, now' >= now,
           \A q \in passed : request'[q] = request[q]
    PROVE  /\ \A q \in passed : CertOf(q) \in Cert /\ CertOf(q)' = CertOf(q)
           /\ \A q \in passed : Valid(q)' => Valid(q)
<1>1. \A q \in passed : CertOf(q) \in Cert /\ CertOf(q)' = CertOf(q)
  BY DEF PassedInv, GenuineInv, RpInv, LetInDone, LetIn, CertKnown, TypeOK, CertOf
<1>2. \A q \in passed : Valid(q)' => Valid(q)
  BY <1>1, CertHas DEF Valid, CertOf, PassedInv, GenuineInv, RpInv, TypeOK
<1>3. QED BY <1>1, <1>2

\* Where the passed requests and their store stay and no request gets past
\* "has", PassedInv stays.
LEMMA PassedStays ==
    ASSUME PassedInv, now' \in Nat, now' >= now, UNCHANGED <<shared, passed>>,
           \A q \in passed : request'[q] = request[q],
           \A q \in Request : request'[q].pc = "fresh" => request'[q] = request[q]
    PROVE  SharedCovers' /\ PassOnce
<1>1. SharedCovers' BY PassedHas DEF PassedInv, SharedCovers
<1>2. PassOnce
  <2>1. SUFFICES ASSUME NEW q \in passed, NEW p \in AskedAndUnused(Id(request[q].cert))'
                 PROVE  p \in AskedAndUnused(Id(request[q].cert))
    BY DEF PassOnce
  <2>2. p \in Request /\ request'[p].pc = "fresh" /\ Id(request'[p].cert) = Id(request'[q].cert)
    BY <2>1 DEF AskedAndUnused, Id
  <2>3. request'[p] = request[p] /\ request'[q] = request[q] BY <2>1, <2>2
  <2>4. QED BY <2>2, <2>3 DEF AskedAndUnused
<1>3. QED BY <1>1, <1>2

\* What one handler does to the requests of the others.
LEMMA PassedOthers ==
    ASSUME PassedInv, NEW q \in Request, NEW new, request' = [request EXCEPT ![q] = new],
           request[q].pc # "done"
    PROVE  /\ q \notin passed
           /\ \A p \in passed : p \in Request /\ request'[p] = request[p]
           /\ \A p \in Request \ {q} : request'[p] = request[p]
           /\ request'[q] = new
<1>1. q \notin passed BY DEF PassedInv, GenuineInv, LetInDone, LetIn
<1>2. passed \subseteq Request /\ DOMAIN request = Request
  BY DEF PassedInv, GenuineInv, RpInv, TypeOK
<1>3. QED BY <1>1, <1>2

\* A handler that goes on without being past "has" passes nothing on.
LEMMA PassedMoves ==
    ASSUME PassedInv, NEW q \in Request, NEW new, request' = [request EXCEPT ![q] = new],
           request[q].pc # "done", new.pc # "fresh", UNCHANGED <<shared, passed, now>>
    PROVE  SharedCovers' /\ PassOnce
<1>1. /\ \A p \in passed : request'[p] = request[p]
      /\ \A p \in Request : request'[p].pc = "fresh" => request'[p] = request[p]
  BY PassedOthers
<1>2. now' \in Nat /\ now' >= now BY DEF PassedInv, GenuineInv, RpInv, TypeOK
<1>3. QED BY <1>1, <1>2, PassedStays

\* The same, for a handler that keeps its certificate.
LEMMA PassedSteps ==
    ASSUME PassedInv, NEW q \in Request, NEW pc \in {"verified", "done"}, Step(q, pc),
           request[q].pc # "done", UNCHANGED <<shared, passed, now>>
    PROVE  SharedCovers' /\ PassOnce
<1> DEFINE new == [request[q] EXCEPT !.pc = pc]
<1>1. request' = [request EXCEPT ![q] = new] BY DEF Step
<1>2. new.pc # "fresh" BY DEF PassedInv, GenuineInv, RpInv, TypeOK
<1> HIDE DEF new
<1>3. QED BY <1>1, <1>2, PassedMoves

\* "has" finds the cert_id of a valid certificate that was passed on.
LEMMA PassedAsks ==
    ASSUME PassedInv, NEW q \in Request, Verified(q, "middleware"), Step(q, "fresh"),
           ~Used(shared, CertOf(q)), UNCHANGED <<shared, passed, now>>
    PROVE  SharedCovers' /\ PassOnce
<1> DEFINE c == CertOf(q)
           new == [request[q] EXCEPT !.pc = "fresh"]
<1>1. request[q].pc = "verified" /\ c \in Cert
  BY DEF Verified, PassedInv, GenuineInv, RpInv, CertKnown
<1>2. request' = [request EXCEPT ![q] = new] /\ request[q].pc # "done" BY <1>1 DEF Step
<1>3. new.cert = request[q].cert BY DEF PassedInv, GenuineInv, RpInv, TypeOK
<1> HIDE DEF new
<1>4. /\ \A p \in passed : p \in Request /\ request'[p] = request[p]
      /\ \A p \in Request \ {q} : request'[p] = request[p]
      /\ request'[q] = new
  BY <1>2, PassedOthers
<1>5. now \in Nat /\ now' \in Nat /\ now' >= now BY DEF PassedInv, GenuineInv, RpInv, TypeOK
<1>6. SharedCovers' BY <1>4, <1>5, PassedHas DEF PassedInv, SharedCovers
<1>7. ASSUME NEW p \in passed, Id(CertOf(p)) = Id(c), Valid(p) PROVE FALSE
  <2>1. CertOf(p) \in Cert BY <1>4, <1>5, PassedHas
  <2>2. Expiry(CertOf(p)) \in Nat /\ Id(c) \in Ids BY <1>1, <2>1, CertHas
  <2>3. shared[Id(c)] \in Int \cup {None} BY <2>2 DEF PassedInv, GenuineInv, RpInv, TypeOK, StoreMap
  <2>4. shared[Id(c)] = None \/ ~(now <= shared[Id(c)]) BY DEF Used
  <2>5. shared[Id(c)] # None /\ shared[Id(c)] >= Expiry(CertOf(p))
    BY <1>7 DEF PassedInv, SharedCovers
  <2>6. now <= Expiry(CertOf(p)) BY <1>7 DEF Valid, CertOf
  <2> HIDE DEF c
  <2>7. QED BY <1>5, <2>2, <2>3, <2>4, <2>5, <2>6
<1>8. PassOnce
  <2>1. SUFFICES ASSUME NEW p \in passed, Valid(p),
                        NEW r \in AskedAndUnused(Id(request[p].cert))'
                 PROVE  r \in AskedAndUnused(Id(request[p].cert))
    BY DEF PassOnce
  <2>2. r \in Request /\ request'[r].pc = "fresh" /\ Id(request'[r].cert) = Id(request'[p].cert)
    BY <2>1 DEF AskedAndUnused, Id
  <2>3. request'[p] = request[p] BY <1>4
  <2>4. r # q
    <3>1. ASSUME r = q PROVE FALSE
      <4>1. Id(CertOf(p)) = Id(c) BY <1>3, <1>4, <2>2, <2>3, <3>1 DEF CertOf
      <4>2. QED BY <1>7, <2>1, <4>1
    <3>2. QED BY <3>1
  <2>5. request'[r] = request[r] BY <1>4, <2>2, <2>4
  <2>6. QED BY <2>2, <2>3, <2>5 DEF AskedAndUnused
<1>9. QED BY <1>6, <1>8

\* "set" stores the certificate it passes on until it expires.
LEMMA PassedSets ==
    ASSUME PassedInv, NEW q \in Request, MiddlewareSet(q)
    PROVE  SharedCovers' /\ PassOnce
<1> DEFINE c == CertOf(q)
           new == [request[q] EXCEPT !.pc = "done"]
<1>1. /\ Step(q, "done") /\ request[q].pc = "fresh" /\ now' = now
      /\ shared' = Remember(shared, c) /\ passed' = passed \cup {q}
  BY DEF MiddlewareSet, CertOf
<1>2. request' = [request EXCEPT ![q] = new] /\ request[q].pc # "done" BY <1>1 DEF Step
<1>3. new.cert = request[q].cert /\ new.pc = "done" BY DEF PassedInv, GenuineInv, RpInv, TypeOK
<1> HIDE DEF new
<1>4. /\ \A p \in passed : p \in Request /\ request'[p] = request[p]
      /\ \A p \in Request \ {q} : request'[p] = request[p]
      /\ request'[q] = new
  BY <1>2, PassedOthers
<1>5. c \in Cert /\ now \in Nat /\ shared \in StoreMap
  BY <1>1 DEF PassedInv, GenuineInv, RpInv, CertKnown, TypeOK
<1>6. /\ shared'[Id(c)] >= Expiry(c) /\ shared'[Id(c)] \in Int
      /\ \A i \in Ids \ {Id(c)} : shared'[i] = shared[i]
  BY <1>1, <1>5, RememberCovers
<1>7. /\ \A p \in passed : CertOf(p) \in Cert /\ CertOf(p)' = CertOf(p)
      /\ \A p \in passed : Valid(p)' => Valid(p)
  BY <1>1, <1>4, <1>5, PassedHas
<1>8. CertOf(q)' = c BY <1>3, <1>4 DEF CertOf
<1>9. \A x \in Int : x # None BY RpAssumption
<1>10. SharedCovers'
  <2>1. SUFFICES ASSUME NEW p \in passed', Valid(p)'
                 PROVE  /\ shared'[Id(CertOf(p)')] # None
                        /\ shared'[Id(CertOf(p)')] >= Expiry(CertOf(p)')
    BY DEF SharedCovers, Id, Expiry
  <2> HIDE DEF c
  <2>2. CASE p = q BY <1>6, <1>8, <1>9, <2>2
  <2>3. CASE p # q
    <3>1. p \in passed /\ Valid(p) BY <1>1, <1>7, <2>1, <2>3
    <3>2. CertOf(p)' = CertOf(p) /\ CertOf(p) \in Cert BY <1>7, <3>1
    <3> DEFINE d == CertOf(p)
    <3>3. shared[Id(d)] # None /\ shared[Id(d)] >= Expiry(d)
      BY <3>1 DEF PassedInv, SharedCovers
    <3>4. d \in Cert BY <3>2
    <3>5. Id(d) \in Ids /\ Expiry(d) \in Nat BY <3>4, CertHas
    <3>6. ASSUME Id(d) # Id(c) PROVE shared'[Id(d)] = shared[Id(d)] BY <1>6, <3>5, <3>6
    <3>7. CASE Id(d) # Id(c) BY <3>2, <3>3, <3>6, <3>7
    <3>8. CASE Id(d) = Id(c)
      <4>1. shared'[Id(d)] # None BY <1>6, <1>9, <3>8
      <4>2. Genuine(c) /\ Genuine(d)
        BY <1>1, <1>4, <3>1 DEF GenuineInv, PassedInv, GenuineOnly, Accepted, LetIn, c
      <4>3. Expiry(d) = Expiry(c) BY <1>5, <3>4, <3>8, <4>2, GenuineExpiry
      <4>4. QED BY <1>6, <3>2, <3>8, <4>1, <4>3
    <3>9. QED BY <3>7, <3>8
  <2>4. QED BY <2>2, <2>3
<1>11. PassOnce
  <2>1. SUFFICES ASSUME NEW p \in passed, NEW r \in AskedAndUnused(Id(request[p].cert))'
                 PROVE  r \in AskedAndUnused(Id(request[p].cert))
    BY DEF PassOnce
  <2>2. r \in Request /\ request'[r].pc = "fresh" /\ Id(request'[r].cert) = Id(request'[p].cert)
    BY <2>1 DEF AskedAndUnused, Id
  <2>3. r # q BY <1>3, <1>4, <2>2
  <2>4. request'[p] = request[p] /\ request'[r] = request[r] BY <1>4, <2>2, <2>3
  <2>5. QED BY <2>2, <2>4 DEF AskedAndUnused
<1>12. QED BY <1>10, <1>11

\* A step keeps PassedInv, and lets no request past "has" with the cert_id of a
\* valid certificate that was passed on.
LEMMA PassedNext == ASSUME PassedInv, [Next]_vars PROVE PassedInv' /\ [PassOnce]_vars
<1>1. GenuineInv' BY GenuineNext DEF PassedInv
<1>2. CASE UNCHANGED vars \/ Tick \/ Cleanup \/ \E q \in Request : DropSession(q)
  <2>1. /\ UNCHANGED <<request, shared, passed>> /\ now' \in Nat /\ now' >= now
    BY <1>2 DEF vars, Tick, Cleanup, DropSession, PassedInv, GenuineInv, RpInv, TypeOK
  <2>2. QED BY <1>1, <2>1, PassedStays DEF PassedInv
<1>3. ASSUME NEW q \in Request, NEW c \in Cert, NEW route \in Routes, Receive(q, c, route)
      PROVE  SharedCovers' /\ PassOnce
  <2> DEFINE new == [pc |-> IF Verifies(c) THEN "verified" ELSE "done",
                     cert |-> c, route |-> route]
  <2>1. request' = [request EXCEPT ![q] = new] /\ request[q].pc = "new" BY <1>3 DEF Receive
  <2>2. UNCHANGED <<shared, passed, now>> BY <1>3 DEF Receive
  <2>3. new.pc # "fresh" OBVIOUS
  <2> HIDE DEF new
  <2>4. request[q].pc # "done" BY <2>1
  <2>5. QED BY <2>1, <2>2, <2>3, <2>4, PassedMoves
<1>4. ASSUME NEW q \in Request, AlreadyUsed(q) \/ Callback(q) PROVE SharedCovers' /\ PassOnce
  BY <1>4, PassedSteps DEF AlreadyUsed, Callback, Verified
<1>5. ASSUME NEW q \in Request, NEW m \in BOOLEAN, Reauth(q, m) PROVE SharedCovers' /\ PassOnce
  BY <1>5, PassedSteps DEF Reauth, Verified
<1>6. ASSUME NEW q \in Request, MiddlewareHas(q) PROVE SharedCovers' /\ PassOnce
  <2>1. CASE Used(shared, CertOf(q))
    BY <1>6, <2>1, PassedSteps DEF MiddlewareHas, Verified, CertOf
  <2>2. CASE ~Used(shared, CertOf(q))
    BY <1>6, <2>2, PassedAsks DEF MiddlewareHas, CertOf
  <2>3. QED BY <2>1, <2>2
<1>7. ASSUME NEW q \in Request, MiddlewareSet(q) PROVE SharedCovers' /\ PassOnce
  BY <1>7, PassedSets
<1>8. QED BY <1>1, <1>2, <1>3, <1>4, <1>5, <1>6, <1>7 DEF PassedInv, Next

\* Once the middleware has passed a valid certificate on, a second request with
\* its cert_id is passed only if it had asked before (createHppMiddleware).
THEOREM PassedOnce == Spec => PassedOnlyUnused
<1>1. PassedInv /\ [Next]_vars =>
        [\A q \in passed : Valid(q) =>
           AskedAndUnused(Id(request[q].cert))' \subseteq AskedAndUnused(Id(request[q].cert))]_vars
  BY PassedNext DEF PassOnce
<1>2. QED BY <1>1, PassedInit, PassedNext, PTL DEF Spec, PassedOnlyUnused

-----------------------------------------------------------------------------
\* The library

\* A signature says which key made it.
LEMMA SignatureKey == \A key, payload : Signature(key, payload).key = key
BY DEF Signature

\* A certificate with a signed field altered is valid under no key, for no
\* relying party and at no time.
THEOREM AlteredIsRefused ==
    ASSUME NEW cert, DOMAIN cert = Field, cert = [f \in Field |-> cert[f]],
           NEW issuer, SignedAsCanonical(cert, issuer),
           NEW field \in SIGNED_FIELDS, NEW value, value # cert[field],
           NEW key, NEW rp, NEW time, NEW tolerance
    PROVE  verifyPresenceCertificate([cert EXCEPT ![field] = value], key, rp, time, tolerance)
               \in {"MISSING_FIELD", "CERT_SIG_INVALID"}
<1> DEFINE altered == [cert EXCEPT ![field] = value]
<1>1. altered[field] # cert[field] /\ altered["hpp_server_sig"] = cert["hpp_server_sig"]
  BY DEF Field, REQUIRED_FIELDS, SIGNED_FIELDS
<1> HIDE DEF altered
<1>2. buildCanonicalPayload(altered) # buildCanonicalPayload(cert) BY <1>1, PayloadTells
<1>3. ~SignedAsCanonical(altered, key) BY <1>1, <1>2, SignatureTells DEF SignedAsCanonical
<1>4. verifyPresenceCertificate(altered, key, rp, time, tolerance)
          \in {"MISSING_FIELD", "CERT_SIG_INVALID"}
  BY <1>3 DEF verifyPresenceCertificate
<1>5. QED BY <1>4 DEF altered

-----------------------------------------------------------------------------
\* verify-test-suite.js

\* What the fields of a certificate hold when they are there.
Held == Int \cup SuiteText

\* A signature of the suite is there, whatever the certificate it was made over.
LEMMA SignatureHeld ==
    ASSUME NEW key \in SuiteText, NEW cert,
           \A f \in SIGNED_FIELDS : cert[f] \in Held \cup {Undefined, Null}
    PROVE  Signature(key, buildCanonicalPayload(cert)) \notin {Undefined, Null}
<1> DEFINE D == {g \in SIGNED_FIELDS : cert[g] # Undefined}
<1>1. buildCanonicalPayload(cert) \in [D -> Held \cup {Null}]
  BY DEF buildCanonicalPayload, Payload
<1>2. D \in SUBSET SIGNED_FIELDS OBVIOUS
<1> HIDE DEF D
<1>3. buildCanonicalPayload(cert) \in
        UNION {[S -> Int \cup SuiteText \cup {Null}] : S \in SUBSET SIGNED_FIELDS}
  BY <1>1, <1>2 DEF Held
<1>4. Signature(key, buildCanonicalPayload(cert)) \in SuiteSignature
  BY <1>3 DEF Signature, SuiteSignature
<1>5. QED BY <1>4, AbsentAssumption

\* The fields that buildTestCertificate lets the suite's tests choose.
Overridden == {"expiry_ms", "status", "authenticator_data"}

\* What a certificate built with one field overridden holds.
IsBuilt(b, time, field, value) ==
    /\ DOMAIN b = Field /\ b = [f \in Field |-> b[f]]
    /\ SignedAsCanonical(b, "suite key")
    /\ b["hpp_server_sig"] \notin {Undefined, Null}
    /\ \A f \in SIGNED_FIELDS \cup {"status"} : b[f] \in Held
    /\ b[field] = value /\ b["rp_id"] = "example.com"
    /\ field # "expiry_ms" => b["expiry_ms"] = time + 60
    /\ field # "status" => b["status"] = "issued"
    /\ field # "authenticator_data" => b["authenticator_data"] = "up uv"

\* A certificate of the suite holds every field and is signed over them.
LEMMA Built ==
    ASSUME NEW time \in Int, NEW field \in Overridden, NEW value \in Held
    PROVE  IsBuilt(buildTestCertificate(time, field, value), time, field, value)
<1> USE DEF Overridden
<1> DEFINE base == [SuiteFields EXCEPT !["expiry_ms"] = time + 60, ![field] = value]
           b == buildTestCertificate(time, field, value)
           sig == Signature("suite key", buildCanonicalPayload(base))
<1>1. /\ DOMAIN base = Field /\ base[field] = value /\ base["rp_id"] = "example.com"
      /\ field # "expiry_ms" => base["expiry_ms"] = time + 60
      /\ field # "status" => base["status"] = "issued"
      /\ field # "authenticator_data" => base["authenticator_data"] = "up uv"
  BY DEF SuiteFields, Field, REQUIRED_FIELDS, SIGNED_FIELDS
<1>2. \A f \in SIGNED_FIELDS \cup {"status"} : base[f] \in Held
  <2>1. \A f \in SIGNED_FIELDS \cup {"status"} :
          SuiteFields[f] \in {f, "example.com", "up uv", "issued"}
    BY DEF SuiteFields, Field, REQUIRED_FIELDS, SIGNED_FIELDS
  <2>2. \A f \in SIGNED_FIELDS \cup {"status"} : SuiteFields[f] \in Held
    BY <2>1 DEF Held, SuiteText, AuthData, Field, REQUIRED_FIELDS
  <2>3. DOMAIN SuiteFields = Field BY DEF SuiteFields
  <2>4. time + 60 \in Held BY DEF Held
  <2>5. \A f \in Field : base[f] \in {SuiteFields[f], time + 60, value} BY <2>3
  <2> HIDE DEF base
  <2>6. QED BY <2>2, <2>4, <2>5 DEF Field, REQUIRED_FIELDS
<1>3. b = [base EXCEPT !["hpp_server_sig"] = sig] BY DEF buildTestCertificate, Sign
<1> HIDE DEF base, b, sig
<1>4. /\ DOMAIN b = Field /\ b = [f \in Field |-> b[f]]
      /\ b["hpp_server_sig"] = sig
      /\ \A f \in SIGNED_FIELDS \cup {"status"} : b[f] = base[f]
  BY <1>1, <1>3 DEF Field, REQUIRED_FIELDS, SIGNED_FIELDS
<1>5. buildCanonicalPayload(b) = buildCanonicalPayload(base) BY <1>4, PayloadIgnores
<1>6. SignedAsCanonical(b, "suite key") BY <1>4, <1>5 DEF SignedAsCanonical, sig
<1>7. sig \notin {Undefined, Null} BY <1>2, SignatureHeld DEF sig, SuiteText
<1>8. IsBuilt(b, time, field, value)
  BY <1>1, <1>2, <1>4, <1>6, <1>7 DEF IsBuilt, SIGNED_FIELDS
<1>9. QED BY <1>8 DEF b

\* A certificate of the suite is complete.
LEMMA BuiltComplete ==
    ASSUME NEW b, NEW time, NEW field, NEW value, IsBuilt(b, time, field, value)
    PROVE  ~MissingField(b)
<1>1. /\ b["hpp_server_sig"] \notin {Undefined, Null}
      /\ \A f \in SIGNED_FIELDS \cup {"status"} : b[f] \in Held
  BY DEF IsBuilt
<1>2. \A v \in Held : v \notin {Undefined, Null} BY AbsentAssumption DEF Held
<1>3. QED BY <1>1, <1>2 DEF MissingField, REQUIRED_FIELDS

\* Whenever the suite is run, each of its tests gets the verdict it asserts.
LEMMA SuiteAlwaysPasses == ASSUME NEW time \in Int PROVE SuitePasses(time)
<1> DEFINE Key == "suite key"
           Site == "example.com"
           With(field, value) == buildTestCertificate(time, field, value)
           Plain == With("status", "issued")
           After(field, value) == [Plain EXCEPT ![field] = value]
           Verdict(cert, key, rp) == verifyPresenceCertificate(cert, key, rp, time, 5)
           Absent == {Undefined, Null}
           Late(cert) == cert["expiry_ms"] <= time - 5
           Checked(cert, rp) == /\ ~MissingField(cert) /\ SignedAsCanonical(cert, Key)
                                /\ rp \in {Null, cert["rp_id"]}
<1>1. \A field \in Overridden, value \in Held :
        IsBuilt(With(field, value), time, field, value)
  BY Built
<1>2. /\ "issued" \in Held /\ "revoked" \in Held
      /\ "up" \in Held /\ "all flags" \in Held /\ "short" \in Held
  <2>1. "issued" \in SuiteText /\ "revoked" \in SuiteText BY DEF SuiteText
  <2>2. AuthData \subseteq SuiteText BY DEF SuiteText
  <2>3. SuiteText \subseteq Held BY DEF Held
  <2>4. "up" \in AuthData /\ "all flags" \in AuthData /\ "short" \in AuthData BY DEF AuthData
  <2>5. QED BY <2>1, <2>2, <2>3, <2>4
<1>3. /\ "expiry_ms" \in Overridden /\ "status" \in Overridden
      /\ "authenticator_data" \in Overridden
  BY DEF Overridden
<1>4. /\ \A text \in SuiteText : text \notin Absent
      /\ \A sig \in SuiteSignature : sig \notin Absent
      /\ Undefined # Null
  BY AbsentAssumption
<1> HIDE DEF With, Plain, Late, Checked
<1>5. \A field \in Overridden, value \in Held :
        Checked(With(field, value), Null)
  <2>1. SUFFICES ASSUME NEW field \in Overridden, NEW value \in Held
                 PROVE  Checked(With(field, value), Null)
    OBVIOUS
  <2> DEFINE c == With(field, value)
  <2>2. IsBuilt(c, time, field, value) BY <1>1
  <2> HIDE DEF c
  <2>3. ~MissingField(c) BY <2>2, BuiltComplete
  <2>4. SignedAsCanonical(c, Key) BY <2>2 DEF IsBuilt
  <2>5. Checked(c, Null) BY <2>3, <2>4 DEF Checked
  <2>6. QED BY <2>5 DEF c
<1>6. \A field \in Overridden \ {"expiry_ms"}, value \in Held : ~Late(With(field, value))
  <2>1. SUFFICES ASSUME NEW field \in Overridden \ {"expiry_ms"}, NEW value \in Held
                 PROVE  ~Late(With(field, value))
    OBVIOUS
  <2>2. With(field, value)["expiry_ms"] = time + 60 BY <1>1 DEF IsBuilt
  <2>3. QED BY <2>2 DEF Late
<1>7. /\ IsBuilt(Plain, time, "status", "issued")
      /\ ~Late(Plain)
      /\ Checked(Plain, Null)
  BY <1>1, <1>2, <1>3, <1>5, <1>6 DEF Plain
<1>8. /\ DOMAIN Plain = Field /\ Plain = [f \in Field |-> Plain[f]]
      /\ SignedAsCanonical(Plain, Key) /\ Plain["status"] = "issued"
      /\ Plain["authenticator_data"] = "up uv" /\ Plain["rp_id"] = Site
      /\ ~MissingField(Plain)
  BY <1>7, BuiltComplete DEF IsBuilt
<1>9. Checked(Plain, Site) BY <1>8 DEF Checked
<1>10. ASSUME NEW cert, NEW rp, Checked(cert, rp)
      PROVE  /\ Late(cert) => Verdict(cert, Key, rp) = "CERT_EXPIRED"
             /\ ~Late(cert) /\ cert["status"] # "issued" =>
                  Verdict(cert, Key, rp) = "INVALID_STATUS"
             /\ ~Late(cert) /\ cert["status"] = "issued" =>
                  Verdict(cert, Key, rp) =
                    IF extractUVFlag(cert["authenticator_data"])
                      THEN "valid" ELSE "UV_FLAG_MISSING"
  BY <1>10, Zenon DEF Checked, verifyPresenceCertificate, Late
<1> HIDE DEF Verdict
<1>11. Verdict(Plain, Key, Site) = "valid" /\ Verdict(Plain, Key, Null) = "valid"
  BY <1>10, <1>7, <1>8, <1>9 DEF extractUVFlag
<1>12. Verdict(Plain, "wrong key", Null) = "CERT_SIG_INVALID"
  <2>1. "wrong key" # Key OBVIOUS
  <2>2. ~SignedAsCanonical(Plain, "wrong key")
    <3>1. \A key : SignedAsCanonical(Plain, key) => Plain["hpp_server_sig"].key = key
      BY SignatureKey DEF SignedAsCanonical
    <3>2. QED BY <1>8, <2>1, <3>1
  <2>3. QED BY <1>8, <2>2 DEF Verdict, verifyPresenceCertificate
<1>13. Verdict(Plain, Key, "other.com") = "RP_MISMATCH"
  <2>1. "other.com" # Null BY AbsentAssumption DEF SuiteText
  <2>2. QED BY <1>8, <2>1 DEF Verdict, verifyPresenceCertificate
<1>14. Verdict(After("rp_id", "evil.com"), Key, Null) = "CERT_SIG_INVALID"
  <2> DEFINE c == After("rp_id", "evil.com")
  <2>1. \A f \in Field : c[f] = IF f = "rp_id" THEN "evil.com" ELSE Plain[f] BY <1>8
  <2>2. "evil.com" \notin Absent BY <1>4 DEF SuiteText
  <2>3. ~MissingField(c) BY <1>8, <2>1, <2>2 DEF MissingField, Field
  <2>4. Verdict(c, Key, Null) \in {"MISSING_FIELD", "CERT_SIG_INVALID"}
    <3>1. "rp_id" \in SIGNED_FIELDS /\ "evil.com" # Plain["rp_id"] BY <1>8 DEF SIGNED_FIELDS
    <3>2. QED BY <1>8, <3>1, AlteredIsRefused DEF Verdict
  <2>5. QED BY <2>3, <2>4 DEF Verdict, verifyPresenceCertificate
<1>15. Verdict(After("hpp_server_sig", NoSignature), Key, Null) = "CERT_SIG_INVALID"
  <2> DEFINE c == After("hpp_server_sig", NoSignature)
  <2>1. \A f \in Field : c[f] = IF f = "hpp_server_sig" THEN NoSignature ELSE Plain[f]
    BY <1>8
  <2>2. NoSignature \in SuiteSignature
    <3>1. [f \in {} |-> Null] \in [{} -> Int \cup SuiteText \cup {Null}] OBVIOUS
    <3>2. {} \in SUBSET SIGNED_FIELDS OBVIOUS
    <3>3. QED BY <3>1, <3>2 DEF NoSignature, Signature, SuiteSignature
  <2>3. ~MissingField(c) BY <1>8, <1>4, <2>1, <2>2 DEF MissingField, Field
  <2>4. Key # Null BY <1>4 DEF SuiteText
  <2>5. c["hpp_server_sig"] = NoSignature BY <2>1 DEF Field, REQUIRED_FIELDS
  <2>6. ~SignedAsCanonical(c, Key)
    <3> HIDE DEF c
    <3>1. c["hpp_server_sig"].key = Null BY <2>5 DEF NoSignature, Signature
    <3>2. ASSUME SignedAsCanonical(c, Key) PROVE FALSE
      <4>1. c["hpp_server_sig"] = Signature(Key, buildCanonicalPayload(c))
        BY <3>2 DEF SignedAsCanonical
      <4>2. c["hpp_server_sig"].key = Key BY <4>1, SignatureKey
      <4>3. QED BY <2>4, <3>1, <4>2
    <3>3. QED BY <3>2
  <2>7. QED BY <2>3, <2>6 DEF Verdict, verifyPresenceCertificate
<1>16. /\ Verdict(With("expiry_ms", time - 60), Key, Null) = "CERT_EXPIRED"
       /\ Verdict(With("expiry_ms", time - 3), Key, Null) = "valid"
  <2>1. time - 60 \in Held BY DEF Held
  <2>2. time - 3 \in Held BY DEF Held
  <2>3. IsBuilt(With("expiry_ms", time - 60), time, "expiry_ms", time - 60) BY <1>1, <1>3, <2>1
  <2>4. With("expiry_ms", time - 60)["expiry_ms"] = time - 60 BY <2>3 DEF IsBuilt
  <2>5. With("expiry_ms", time - 3)["expiry_ms"] = time - 3 BY <1>1, <1>3, <2>2 DEF IsBuilt
  <2>6. Late(With("expiry_ms", time - 60)) BY <2>4 DEF Late
  <2>7. ~Late(With("expiry_ms", time - 3)) BY <2>5 DEF Late
  <2>8. IsBuilt(With("expiry_ms", time - 3), time, "expiry_ms", time - 3) BY <1>1, <1>3, <2>2
  <2>9. /\ With("expiry_ms", time - 3)["status"] = "issued"
        /\ With("expiry_ms", time - 3)["authenticator_data"] = "up uv"
    BY <2>8 DEF IsBuilt
  <2>10. Verdict(With("expiry_ms", time - 60), Key, Null) = "CERT_EXPIRED"
    BY <1>3, <1>10, <1>5, <2>1, <2>6
  <2>11. Verdict(With("expiry_ms", time - 3), Key, Null) = "valid"
    BY <1>3, <1>10, <1>5, <2>2, <2>7, <2>9 DEF extractUVFlag
  <2>12. QED BY <2>10, <2>11
<1>17. Verdict(With("status", "revoked"), Key, Null) = "INVALID_STATUS"
  <2> DEFINE c == With("status", "revoked")
  <2>1. Checked(c, Null) /\ ~Late(c) BY <1>2, <1>3, <1>5, <1>6
  <2>2. IsBuilt(c, time, "status", "revoked") BY <1>1, <1>2, <1>3
  <2>3. c["status"] = "revoked" BY <2>2 DEF IsBuilt
  <2>4. QED BY <1>10, <2>1, <2>3
<1>18. ASSUME NEW data \in Held
       PROVE  Verdict(With("authenticator_data", data), Key, Null) =
                 IF extractUVFlag(data) THEN "valid" ELSE "UV_FLAG_MISSING"
  <2> DEFINE c == With("authenticator_data", data)
  <2>1. Checked(c, Null) /\ ~Late(c) BY <1>3, <1>5, <1>6
  <2>2. IsBuilt(c, time, "authenticator_data", data) BY <1>1, <1>3
  <2>3. c["status"] = "issued" /\ c["authenticator_data"] = data BY <2>2 DEF IsBuilt
  <2>4. QED BY <1>10, <2>1, <2>3
<1>19. /\ Verdict(With("authenticator_data", "up"), Key, Null) = "UV_FLAG_MISSING"
       /\ Verdict(With("authenticator_data", "all flags"), Key, Null) = "valid"
       /\ Verdict(With("authenticator_data", "short"), Key, Null) = "UV_FLAG_MISSING"
  BY <1>2, <1>18 DEF extractUVFlag
<1>20. Verdict([f \in Field |-> Undefined], Key, Null) = "MISSING_FIELD"
  BY DEF Verdict, verifyPresenceCertificate, MissingField, Field, REQUIRED_FIELDS
<1>21. \A f \in REQUIRED_FIELDS, v \in Absent : Verdict(After(f, v), Key, Null) = "MISSING_FIELD"
  <2>1. SUFFICES ASSUME NEW f \in REQUIRED_FIELDS, NEW v \in Absent
                 PROVE  MissingField(After(f, v))
    BY DEF Verdict, verifyPresenceCertificate
  <2>2. After(f, v)[f] = v BY <1>8 DEF Field
  <2>3. QED BY <2>2 DEF MissingField
<1>22. Verdict(After("extra_field", "ignored"), Key, Site) = "valid"
  <2> DEFINE c == After("extra_field", "ignored")
  <2>1. \A f \in REQUIRED_FIELDS : c[f] = Plain[f]
    BY <1>8 DEF Field, REQUIRED_FIELDS, SIGNED_FIELDS
  <2> HIDE DEF c
  <2>2. ~MissingField(c) BY <1>8, <2>1 DEF MissingField
  <2>3. buildCanonicalPayload(c) = buildCanonicalPayload(Plain)
    BY <2>1, PayloadIgnores DEF REQUIRED_FIELDS
  <2>4. SignedAsCanonical(c, Key) BY <1>8, <2>1, <2>3 DEF SignedAsCanonical, REQUIRED_FIELDS
  <2>5. /\ c["expiry_ms"] = Plain["expiry_ms"] /\ c["status"] = Plain["status"]
        /\ c["authenticator_data"] = Plain["authenticator_data"] /\ c["rp_id"] = Plain["rp_id"]
    BY <2>1 DEF REQUIRED_FIELDS, SIGNED_FIELDS
  <2>6. ~Late(c) BY <1>7, <2>5 DEF Late
  <2>7. Checked(c, Site) BY <1>8, <2>2, <2>4, <2>5 DEF Checked
  <2>8. extractUVFlag("up uv") BY DEF extractUVFlag
  <2>9. Verdict(c, Key, Site) = "valid" BY <1>8, <1>10, <2>7, <2>5, <2>6, <2>8
  <2>10. QED BY <2>9 DEF c
<1>23. \A f \in REQUIRED_FIELDS : Verdict(After(f, Undefined), Key, Null) = "MISSING_FIELD"
  BY <1>21
<1>24. Verdict(After("cert_id", Null), Key, Null) = "MISSING_FIELD"
  BY <1>21 DEF REQUIRED_FIELDS, SIGNED_FIELDS
<1>25. \A t \in SuiteTests(time) : Verdict(t.cert, t.key, t.rp) = t.verdict
  <2>1. SUFFICES ASSUME NEW t \in SuiteTests(time)
                 PROVE  Verdict(t.cert, t.key, t.rp) = t.verdict
    OBVIOUS
  <2>2. ASSUME NEW c, NEW key, NEW rp, NEW v, t = Test(c, key, rp, v), Verdict(c, key, rp) = v
        PROVE  Verdict(t.cert, t.key, t.rp) = t.verdict
    BY <2>2 DEF Test
  <2>3. \/ t = Test(Plain, Key, Site, "valid")
        \/ t = Test(Plain, Key, Null, "valid")
        \/ t = Test(Plain, "wrong key", Null, "CERT_SIG_INVALID")
        \/ t = Test(Plain, Key, "other.com", "RP_MISMATCH")
        \/ t = Test(After("rp_id", "evil.com"), Key, Null, "CERT_SIG_INVALID")
        \/ t = Test(After("hpp_server_sig", NoSignature), Key, Null, "CERT_SIG_INVALID")
        \/ t = Test(With("expiry_ms", time - 60), Key, Null, "CERT_EXPIRED")
        \/ t = Test(With("expiry_ms", time - 3), Key, Null, "valid")
        \/ t = Test(With("status", "revoked"), Key, Null, "INVALID_STATUS")
        \/ t = Test(With("authenticator_data", "up"), Key, Null, "UV_FLAG_MISSING")
        \/ t = Test(With("authenticator_data", "all flags"), Key, Null, "valid")
        \/ t = Test(With("authenticator_data", "short"), Key, Null, "UV_FLAG_MISSING")
        \/ t = Test([f \in Field |-> Undefined], Key, Null, "MISSING_FIELD")
        \/ t = Test(After("cert_id", Null), Key, Null, "MISSING_FIELD")
        \/ t = Test(After("extra_field", "ignored"), Key, Site, "valid")
        \/ \E f \in REQUIRED_FIELDS : t = Test(After(f, Undefined), Key, Null, "MISSING_FIELD")
    BY Zenon DEF SuiteTests, With, Plain
  <2> HIDE DEF After, Site, Key
  <2>4. QED
    BY <1>11, <1>12, <1>13, <1>14, <1>15, <1>16, <1>17, <1>19, <1>20, <1>22, <1>23, <1>24,
       <2>2, <2>3, Zenon
<1>26. QED BY <1>25 DEF SuitePasses, Verdict

\* Whenever verify-test-suite.js is run it passes.
THEOREM SuiteAlwaysHolds == Spec => []SuiteHolds
<1>1. TypeOK => SuiteHolds BY SuiteAlwaysPasses DEF SuiteHolds, TypeOK
<1>2. QED BY <1>1, RpTypes, PTL
=============================================================================
