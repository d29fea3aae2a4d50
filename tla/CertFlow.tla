------------------------------ MODULE CertFlow ------------------------------
(***************************************************************************)
(* The data of one attestation on its way from the authenticator to the    *)
(* relying party: the assertion of content.js, the request and the         *)
(* certificate of submitAttestation in background.js, the relay, and the   *)
(* library that judges what arrives.  It starts from a challenge that      *)
(* fetchChallenge returned.                                                *)
(***************************************************************************)
EXTENDS Certificates

CONSTANTS
    PinnedKey,      \* the key that the extension and the relying party pin
    Lifetime,       \* lifetime of a certificate
    MaxTime         \* bound of the clock

VARIABLES
    stage,      \* where the attestation is
    assertion,  \* what the content script returned
    cert,       \* the request, then the certificate that is made of it
    verdict,    \* the library's verdict of the relayed certificate
    now

vars == <<stage, assertion, cert, verdict, now>>

AssertionField == {"credential_id", "authenticator_data", "assertion_sig",
                   "client_data_json", "clientDataJSON"}

NoCert == [f \in Field |-> Undefined]

Init ==
    /\ stage = "prompt" /\ assertion = [f \in AssertionField |-> Undefined]
    /\ cert = NoCert /\ verdict = Undefined /\ now = 0

\* What navigator.credentials.get returns, under the names that content.js
\* gives it.
invokePresenceGate(data) ==
    [f \in AssertionField |->
        CASE f = "authenticator_data" -> data
          [] f = "client_data_json" -> Undefined
          [] OTHER -> f]

\* The content script and then the worker look at the UV flag.
Assert(data) ==
    /\ stage = "prompt"
    /\ stage' = IF extractUVFlag(data) THEN "attest" ELSE "failed"
    /\ assertion' = invokePresenceGate(data)
    /\ UNCHANGED <<cert, verdict, now>>

PromptFails ==
    /\ stage = "prompt" /\ stage' = "failed"
    /\ UNCHANGED <<assertion, cert, verdict, now>>

AttestBody == [f \in Field |->
    CASE f \in {"cert_id", "nonce", "rp_id", "server_timestamp"} -> f
      [] f = "client_timestamp" -> now
      [] f \in {"credential_id", "authenticator_data", "assertion_sig",
                "client_data_json"} -> assertion[f]
      [] OTHER -> Undefined]

PostAttest ==
    /\ stage = "attest" /\ stage' = "posted"
    /\ cert' = AttestBody
    /\ UNCHANGED <<assertion, verdict, now>>

\* What the server answers (external): the certificate with its expiry, signed
\* over the fields of the verification libraries or those of the extension.
Issued(fields) ==
    LET c == [cert EXCEPT !["expiry_ms"] = now + Lifetime, !["status"] = "issued"] IN
    [c EXCEPT !["hpp_server_sig"] = Signature(PinnedKey, Payload(c, fields))]

\* Anything but a certificate that verifies ends here.
Reply(fields) ==
    /\ stage = "posted"
    /\ cert' = Issued(fields)
    /\ stage' = IF verifyServerSignature(cert', PinnedKey) THEN "relay" ELSE "failed"
    /\ UNCHANGED <<assertion, verdict, now>>

ReplyFails ==
    /\ stage = "posted" /\ stage' = "failed"
    /\ UNCHANGED <<assertion, cert, verdict, now>>

\* relayCertToRP: the POST is lost, or the relying party has it judged.
RelayCert ==
    /\ stage = "relay" /\ stage' = "relayed"
    /\ \/ verdict' = verifyPresenceCertificate(cert, PinnedKey, "rp_id", now, 0)
       \/ UNCHANGED verdict
    /\ UNCHANGED <<assertion, cert, now>>

Tick ==
    /\ now < MaxTime /\ now' = now + 1
    /\ UNCHANGED <<stage, assertion, cert, verdict>>

Next ==
    \/ PromptFails \/ PostAttest \/ ReplyFails \/ RelayCert \/ Tick
    \/ \E data \in AuthData : Assert(data)
    \/ \E fields \in {SIGNED_FIELDS, CERT_PAYLOAD_FIELDS} : Reply(fields)

Spec == Init /\ [][Next]_vars

\* "works with certificates from any HPP client (browser extension, ...)"
\* (verify-node.js:17): a certificate that the extension verified and relayed
\* is not refused for what it lacks or for its signature
\* (verifyPresenceCertificate, buildCertPayload).
RelayedIsAccepted == verdict \notin {"MISSING_FIELD", "CERT_SIG_INVALID"}
=============================================================================
