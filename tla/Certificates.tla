---------------------------- MODULE Certificates ----------------------------
(***************************************************************************)
(* Presence Certificates as data: what their signature covers and what a   *)
(* relying party's library checks, in the order it checks it.  Translated  *)
(* from protocol/reference-implementations/verify-node.js, verify-python.py*)
(* and verify-test-suite.js, and from chrome-extension/lib/hpp-crypto.js.  *)
(*                                                                         *)
(* A certificate is a function from Field to values; Undefined stands for  *)
(* a key the object does not have, Null for null.  A signature is the key  *)
(* that made it and what it was made over; authenticator data is what its  *)
(* flags byte says.                                                        *)
(***************************************************************************)
EXTENDS Integers

CONSTANTS Undefined, Null

SIGNED_FIELDS ==
    {"assertion_sig", "authenticator_data", "cert_id", "client_data_json",
     "client_timestamp", "credential_id", "expiry_ms", "nonce", "rp_id",
     "server_timestamp"}

REQUIRED_FIELDS == SIGNED_FIELDS \cup {"status", "hpp_server_sig"}

Field == REQUIRED_FIELDS \cup {"extra_field"}

\* The fields of the payload that the extension verifies, seven of the ten.
CERT_PAYLOAD_FIELDS ==
    {"assertion_sig", "authenticator_data", "cert_id", "credential_id",
     "expiry_ms", "rp_id", "server_timestamp"}

\* JSON.stringify of the listed fields: a key that is undefined is left out.
Payload(object, fields) ==
    [f \in {g \in fields : object[g] # Undefined} |-> object[f]]

buildCanonicalPayload(cert) == Payload(cert, SIGNED_FIELDS)
buildCertPayload(cert)      == Payload(cert, CERT_PAYLOAD_FIELDS)

\* ECDSA (external): a signature verifies under the key that made it, over what
\* it was made over, and nothing else does.
Signature(key, payload) == [key |-> key, over |-> payload]
NoSignature == Signature(Null, [f \in {} |-> Null])

verifyServerSignature(cert, key) ==
    cert["hpp_server_sig"] = Signature(key, buildCertPayload(cert))

\* What the flags byte of authenticator data holds; "short" data has none.
AuthData == {"up", "up uv", "all flags", "short"}
extractUVFlag(data) == data \in {"up uv", "all flags"}

MissingField(cert) == \E f \in REQUIRED_FIELDS : cert[f] \in {Undefined, Null}

\* The promise of a verification that nobody awaits is true.
SignedUnawaited(cert, key) == TRUE

SignedAsCanonical(cert, key) ==
    cert["hpp_server_sig"] = Signature(key, buildCanonicalPayload(cert))

\* A library that takes a certificate for expired once its time has come,
\* whatever the tolerance.
VerifyWithoutTolerance(cert, key, expectedRpId, time, tolerance) ==
    IF MissingField(cert)                         THEN "MISSING_FIELD"
    ELSE IF ~SignedAsCanonical(cert, key)         THEN "CERT_SIG_INVALID"
    ELSE IF expectedRpId \notin {Null, cert["rp_id"]} THEN "RP_MISMATCH"
    ELSE IF cert["expiry_ms"] <= time             THEN "CERT_EXPIRED"
    ELSE IF cert["status"] # "issued"             THEN "INVALID_STATUS"
    ELSE IF ~extractUVFlag(cert["authenticator_data"]) THEN "UV_FLAG_MISSING"
    ELSE "valid"

\* The verdict: the first check that fails, or "valid".
verifyPresenceCertificate(cert, key, expectedRpId, time, tolerance) ==
    IF MissingField(cert)                         THEN "MISSING_FIELD"
    ELSE IF ~SignedAsCanonical(cert, key)         THEN "CERT_SIG_INVALID"
    ELSE IF expectedRpId \notin {Null, cert["rp_id"]} THEN "RP_MISMATCH"
    ELSE IF cert["expiry_ms"] <= time - tolerance THEN "CERT_EXPIRED"
    ELSE IF cert["status"] # "issued"             THEN "INVALID_STATUS"
    ELSE IF ~extractUVFlag(cert["authenticator_data"]) THEN "UV_FLAG_MISSING"
    ELSE "valid"

-----------------------------------------------------------------------------
\* verify-test-suite.js

\* buildTestCertificate: overrides first, the signature over the result.
SuiteFields == [f \in Field |->
    CASE f = "rp_id" -> "example.com"
      [] f = "authenticator_data" -> "up uv"
      [] f = "status" -> "issued"
      [] f \in {"hpp_server_sig", "extra_field"} -> Undefined
      [] OTHER -> f]

\* The texts that the fields and keys of verify-test-suite.js are.
SuiteText == Field \cup AuthData \cup
    {"example.com", "evil.com", "other.com", "issued", "revoked", "ignored", "suite key",
     "wrong key"}

SuiteSignature ==
    [key : SuiteText \cup {Null},
     over : UNION {[D -> Int \cup SuiteText \cup {Null}] : D \in SUBSET SIGNED_FIELDS}]

\* undefined and null are neither numbers, texts nor signatures.
ASSUME AbsentAssumption ==
    /\ Undefined # Null
    /\ \A v \in {Undefined, Null} : v \notin Int \cup SuiteText \cup SuiteSignature

Sign(cert, key) ==
    [cert EXCEPT !["hpp_server_sig"] = Signature(key, buildCanonicalPayload(cert))]

buildTestCertificate(time, field, value) ==
    Sign([SuiteFields EXCEPT !["expiry_ms"] = time + 60, ![field] = value], "suite key")

\* A test: the certificate, the key and the options it is verified with, and
\* the verdict the suite asserts.
Test(cert, key, expectedRpId, verdict) ==
    [cert |-> cert, key |-> key, rp |-> expectedRpId, verdict |-> verdict]

SuiteTests(time) ==
    LET Key == "suite key"
        Site == "example.com"
        Valid == buildTestCertificate(time, "status", "issued")
        With(field, value) == buildTestCertificate(time, field, value)
        After(field, value) == [Valid EXCEPT ![field] = value]
    IN  {Test(Valid, Key, Site, "valid"), Test(Valid, Key, Null, "valid"),
         Test(Valid, "wrong key", Null, "CERT_SIG_INVALID"),
         Test(Valid, Key, "other.com", "RP_MISMATCH"),
         Test(After("rp_id", "evil.com"), Key, Null, "CERT_SIG_INVALID"),
         Test(After("hpp_server_sig", NoSignature), Key, Null, "CERT_SIG_INVALID"),
         Test(With("expiry_ms", time - 60), Key, Null, "CERT_EXPIRED"),
         Test(With("expiry_ms", time - 3), Key, Null, "valid"),
         Test(With("status", "revoked"), Key, Null, "INVALID_STATUS"),
         Test(With("authenticator_data", "up"), Key, Null, "UV_FLAG_MISSING"),
         Test(With("authenticator_data", "all flags"), Key, Null, "valid"),
         Test(With("authenticator_data", "short"), Key, Null, "UV_FLAG_MISSING"),
         Test([f \in Field |-> Undefined], Key, Null, "MISSING_FIELD"),
         Test(After("cert_id", Null), Key, Null, "MISSING_FIELD"),
         Test(After("extra_field", "ignored"), Key, Site, "valid")}
        \cup {Test(After(f, Undefined), Key, Null, "MISSING_FIELD") : f \in REQUIRED_FIELDS}

\* In seconds, with the default tolerance of five.
SuitePasses(time) ==
    \A t \in SuiteTests(time) :
        verifyPresenceCertificate(t.cert, t.key, t.rp, time, 5) = t.verdict
=============================================================================
