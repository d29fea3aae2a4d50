---------------------------- MODULE ChallengeFlow ---------------------------
(***************************************************************************)
(* fetchChallenge of background.js with the checks of hpp-crypto.js: what  *)
(* becomes of a challenge that the server signed.  The channel and the     *)
(* server are honest; clocks may differ and answers may be slow.           *)
(***************************************************************************)
EXTENDS Certificates

CONSTANTS
    Nonce,
    PinnedKey,      \* the key that hpp-crypto.js pins
    Skews,          \* device clock minus server clock
    window_ms, max_clock_skew_ms,
    MaxTime         \* bound of the clock

VARIABLES
    stage,      \* what fetchChallenge waits for, "returned" in the end
    wire,       \* the answer of the server
    result,     \* what fetchChallenge returned
    skew, now

vars == <<stage, wire, result, skew, now>>

ChallengeField == {"nonce", "rp_id", "server_timestamp", "window_ms", "purpose",
                   "received_at", "server_sig"}

Init ==
    /\ stage = "idle" /\ wire = Undefined /\ result = Undefined
    /\ skew \in Skews /\ now = 0

\* The server's answer (external): signed over all its other fields.
SignChallenge(fields) ==
    [fields EXCEPT !["server_sig"] = Signature(PinnedKey,
        Payload(fields, ChallengeField \ {"server_sig"}))]

Challenge(nonce) == SignChallenge([f \in ChallengeField |->
    CASE f = "nonce" -> nonce
      [] f = "server_timestamp" -> now
      [] f = "window_ms" -> window_ms
      [] f \in {"received_at", "server_sig"} -> Undefined
      [] OTHER -> f])

\* The payload is every field of the object but server_sig.
verifyChallengeSignature(challenge) ==
    challenge["server_sig"] =
        Signature(PinnedKey, Payload(challenge, ChallengeField \ {"server_sig"}))

Distance(a, b) == IF a > b THEN a - b ELSE b - a

\* The error, or "fresh", at device time t.
evaluateChallengeFreshness(challenge, limit, t) ==
    LET received == challenge["received_at"]
        issued   == challenge["server_timestamp"]
    IN  IF issued + (t - received) >= issued + challenge["window_ms"]
        THEN "HPP_CHALLENGE_EXPIRED"
        ELSE IF Distance(received, issued) > limit THEN "HPP_CLOCK_SKEW_ERROR" ELSE "fresh"

Return(outcome) == stage' = "returned" /\ result' = outcome

Request ==
    /\ stage = "idle" /\ stage' = "challenge"
    /\ UNCHANGED <<wire, result, skew, now>>

Answer(nonce) ==
    /\ stage = "challenge" /\ wire = Undefined
    /\ wire' = Challenge(nonce)
    /\ UNCHANGED <<stage, result, skew, now>>

\* The network fails, or a status other than 2xx: 403 is an unknown extension.
AnswerFails ==
    /\ stage = "challenge"
    /\ \E error \in {"HPP_SERVER_UNAVAILABLE", "HPP_UNKNOWN_EXTENSION_ID"} : Return(error)
    /\ UNCHANGED <<wire, skew, now>>

\* received_at is set, then the signature is verified.
Receive ==
    LET challenge == [wire EXCEPT !["received_at"] = now + skew] IN
    /\ stage = "challenge" /\ wire # Undefined
    /\ wire' = challenge
    /\ IF verifyChallengeSignature(challenge)
       THEN stage' = "config" /\ UNCHANGED result
       ELSE Return("HPP_CHALLENGE_SIG_INVALID")
    /\ UNCHANGED <<skew, now>>

CheckFreshness ==
    /\ stage = "config"
    /\ Return(evaluateChallengeFreshness(wire, max_clock_skew_ms, now + skew))
    /\ UNCHANGED <<wire, skew, now>>

Tick ==
    /\ now < MaxTime /\ now' = now + 1
    /\ UNCHANGED <<stage, wire, result, skew>>

Next ==
    \/ Request \/ AnswerFails \/ Receive \/ CheckFreshness \/ Tick
    \/ \E nonce \in Nonce : Answer(nonce)

Spec == Init /\ [][Next]_vars

\* "server_sig (ECDSA P-256 over all fields)" (extension-spec.md:188): a
\* challenge that the server signed over all its fields is not refused for its
\* signature (fetchChallenge, verifyChallengeSignature).
GenuineIsVerified == result # "HPP_CHALLENGE_SIG_INVALID"
=============================================================================
