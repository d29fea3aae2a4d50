----------------------------- MODULE HppAttest ------------------------------
(***************************************************************************)
(* VERIFY_PRESENCE: onVerifyPresence, fetchChallenge, submitAttestation    *)
(* and relayCertToRP of chrome-extension/background.js.  One action per    *)
(* await; the attestation server, the user, the relying party and the page *)
(* answer at any later time, with any answer the code distinguishes.       *)
(*                                                                         *)
(* submitAttestation is also called by recoverInflight, so what follows it *)
(* depends on the handler that called it (EndSubmit).                      *)
(***************************************************************************)
EXTENDS HppStorage

CONSTANTS
    Window,     \* window_ms of a challenge
    Life,       \* lifetime of a certificate
    Replies     \* replies of POST /v1/attest that a run lets happen

\* What submitAttestation tells apart: a certificate whose signature verifies,
\* one whose signature does not, 401 CREDENTIAL_REVOKED, another 401, 408,
\* another status, no reply at all, a body that is not JSON.
Reply == {"issued", "badsig", "revoked", "refused", "expired", "unavailable",
          "network", "malformed"}

ASSUME AttestAssumption ==
    /\ Window \in Nat /\ Life \in Nat
    /\ Replies \subseteq Reply

-----------------------------------------------------------------------------
\* History

Record(r, new) == marks' = [marks EXCEPT ![r] = @ \cup new]

\* showError followed by "return": the page is told and the handler is done.
FailVerify(k) ==
    /\ Record(task[k].req, {"error", "returned"})
    /\ Finish(k)

-----------------------------------------------------------------------------
\* onVerifyPresence

\* A page whose origin has no eTLD+1, or that passes an rpId of its own.
RefuseOrigin(r, t) ==
    /\ marks[r] = {} /\ page[t] # None
    /\ Record(r, {"asked", "error", "returned"})
    /\ req' = [req EXCEPT ![r].tab = t, ![r].origin = page[t]]
    /\ UNCHANGED <<storeVars, task, seenVars, delivered, presented, serverVars, envVars>>

VerifyPresence(k, r, t) ==
    /\ task[k] = Idle /\ marks[r] = {} /\ page[t] # None
    /\ Record(r, {"asked"})
    /\ req' = [req EXCEPT ![r].tab = t, ![r].origin = page[t]]
    /\ task' = [task EXCEPT ![k] = [Idle EXCEPT !.fn = "verify", !.pc = "challenge",
                                        !.tab = t, !.origin = page[t], !.req = r]]
    /\ UNCHANGED <<storeVars, seenVars, delivered, presented, serverVars, envVars>>

\* fetchChallenge: a verified, fresh challenge or one of its errors.
ChallengeArrives(k) ==
    /\ task[k].pc = "challenge"
    /\ req' = [req EXCEPT ![task[k].req].deadline = now + Window]
    /\ Goto(k, "lookup")
    /\ UNCHANGED <<storeVars, seenVars, marks, delivered, presented, serverVars, envVars>>

ChallengeFails(k) ==
    /\ task[k].pc = "challenge"
    /\ FailVerify(k)
    /\ UNCHANGED <<storeVars, seenVars, req, delivered, presented, serverVars, envVars>>

\* A lookup that goes straight to the submission, without the user.
LookupSkipsPrompt(k) ==
    /\ task[k].pc = "lookup"
    /\ IF SitesOf(task[k].origin) # {}
         THEN Goto(k, "setInflight") /\ UNCHANGED marks
         ELSE FailVerify(k)
    /\ UNCHANGED <<storeVars, seenVars, req, delivered, presented, serverVars, envVars>>

LookupCredential(k) ==
    /\ task[k].pc = "lookup"
    /\ IF SitesOf(task[k].origin) # {}
         THEN Goto(k, "webauthn") /\ UNCHANGED marks
         ELSE FailVerify(k)
    /\ UNCHANGED <<storeVars, seenVars, req, delivered, presented, serverVars, envVars>>

\* The content script's answer to RUN_WEBAUTHN.  The browser only signs for an
\* rp_id of the page that is in the tab.
WebAuthnOk(k) ==
    LET tab == task[k].tab IN
    /\ task[k].pc = "webauthn"
    /\ page[tab] # None /\ RpOf[page[tab]] = RpOf[task[k].origin]
    /\ Record(task[k].req, {"uv"})
    /\ Goto(k, "setInflight")
    /\ UNCHANGED <<storeVars, seenVars, req, delivered, presented, serverVars, envVars>>

\* A failed prompt that is reported only while the tab still shows a page.
WebAuthnFailsOpen(k) ==
    /\ task[k].pc = "webauthn" /\ page[task[k].tab] # None
    /\ FailVerify(k)
    /\ UNCHANGED <<storeVars, seenVars, req, delivered, presented, serverVars, envVars>>

\* Cancelled, timed out, no UV flag, or no content script left to answer.
WebAuthnFails(k) ==
    /\ task[k].pc = "webauthn"
    /\ FailVerify(k)
    /\ UNCHANGED <<storeVars, seenVars, req, delivered, presented, serverVars, envVars>>


SetInflight(k) ==
    /\ task[k].pc = "setInflight"
    /\ WriteInflight(k, PutEntry(seenInflight[k], task[k].tab, task[k].req))
    /\ req' = [req EXCEPT ![task[k].req].started = now]
    /\ Goto(k, "post")
    /\ UNCHANGED <<marks, delivered, presented, serverVars, envVars>>

-----------------------------------------------------------------------------
\* submitAttestation

\* What follows the end of submitAttestation: sendResponse, or the next entry
\* of recoverInflight.
NextEntry(k) == task' = [task EXCEPT ![k] =
    [Idle EXCEPT !.fn = "recover", !.pc = "recoverNext", !.plan = task[k].plan]]

EndSubmit(k, new) ==
    IF task[k].fn = "verify"
      THEN Record(task[k].req, new \cup {"returned"}) /\ Finish(k)
      ELSE Record(task[k].req, new) /\ NextEntry(k)

\* The attestation server (external) issues for a nonce it has not consumed,
\* within the window.
ServerActs(r, issues, told) ==
    /\ issues => "issued" \notin marks[r] /\ now < req[r].deadline
    /\ req' = IF issues THEN [req EXCEPT ![r].expiry = now + Life] ELSE req
    /\ Record(r, told \cup {"posted"} \cup (IF issues THEN {"issued"} ELSE {}))

\* A reply, or none: a certificate the server issued can be lost on the way.
AttestReply(k, reply, issues) ==
    /\ task[k].pc = "post"
    /\ reply = "issued" => issues
    /\ issues => reply \in {"issued", "network"}
    /\ ServerActs(task[k].req, issues, {})
    /\ task' = [task EXCEPT ![k].pc = "clearInflight", ![k].resp = reply]
    /\ UNCHANGED <<storeVars, seenVars, delivered, presented, serverVars, envVars>>

\* recoverInflight without its catch: the loop ends at the entry that throws.
RecoverThrowsUncaught(k, issues) ==
    /\ task[k].pc = "post" /\ task[k].fn = "recover"
    /\ ServerActs(task[k].req, issues, {})
    /\ Finish(k)
    /\ UNCHANGED <<storeVars, seenVars, delivered, presented, serverVars, envVars>>

\* A body that is not JSON: res.json() throws, before any clearInflight.  The
\* catch of onVerifyPresence shows an error and leaves the inflight entry; the
\* catch of recoverInflight clears it.
VerifyThrows(k, issues) ==
    /\ task[k].pc = "post" /\ task[k].fn = "verify"
    /\ ServerActs(task[k].req, issues, {"error", "returned"})
    /\ Finish(k)
    /\ UNCHANGED <<storeVars, seenVars, delivered, presented, serverVars, envVars>>

RecoverThrows(k, issues) ==
    /\ task[k].pc = "post" /\ task[k].fn = "recover"
    /\ ServerActs(task[k].req, issues, {})
    /\ task' = [task EXCEPT ![k].pc = "clearInflight", ![k].resp = "threw"]
    /\ UNCHANGED <<storeVars, seenVars, delivered, presented, serverVars, envVars>>

\* verifyServerSignature's verdict ignored: the error is shown and the code
\* falls through to setSessionForTab.
AfterClearUnchecked(k) ==
    \/ /\ task[k].fn = "removed"
       /\ Finish(k) /\ UNCHANGED marks
    \/ /\ task[k].resp \in {"issued", "badsig"}
       /\ Goto(k, "setSession")
       /\ IF task[k].resp = "badsig" THEN Record(task[k].req, {"error"}) ELSE UNCHANGED marks
    \/ /\ task[k].resp \notin {"issued", "badsig"} /\ task[k].fn # "removed"
       /\ EndSubmit(k, {})

\* The continuation of each call of clearInflight.
AfterClear(k) ==
    \/ /\ task[k].fn = "removed"
       /\ Finish(k) /\ UNCHANGED marks
    \/ /\ task[k].resp \in {"stale", "threw"}
       /\ NextEntry(k) /\ UNCHANGED marks
    \/ /\ task[k].resp = "issued"
       /\ Goto(k, "setSession") /\ UNCHANGED marks
    \/ /\ task[k].resp = "revoked"
       /\ Goto(k, "removeRp") /\ UNCHANGED marks
    \/ /\ task[k].resp = "badsig"
       /\ EndSubmit(k, {"error"})
    \/ /\ task[k].resp \in {"refused", "expired", "unavailable", "network"}
       /\ EndSubmit(k, {})

ClearInflight(k) ==
    /\ task[k].pc = "clearInflight"
    /\ WriteInflight(k, DropEntry(seenInflight[k], task[k].tab))
    /\ AfterClear(k)
    /\ UNCHANGED <<req, delivered, presented, serverVars, envVars>>

\* CREDENTIAL_REVOKED: removeEnrolledSiteByRpId.
RemoveRevoked(k) ==
    /\ task[k].pc = "removeRp"
    /\ WriteSites(k, DropRp(seenSites[k], RpOf[req[task[k].req].origin]))
    /\ EndSubmit(k, {})
    /\ UNCHANGED <<req, delivered, presented, serverVars, envVars>>

SetSession(k) ==
    /\ task[k].pc = "setSession"
    /\ WriteSessions(k, PutEntry(seenSessions[k], task[k].tab, task[k].req))
    /\ Record(task[k].req, {"stored"})
    /\ Goto(k, "relay")
    /\ UNCHANGED <<req, delivered, presented, serverVars, envVars>>

\* relayCertToRP: some site enrolled for the certificate's rp_id (the first of
\* the array; its order is not modelled).  A failed POST is only logged.
RelayCert(k) ==
    LET r == task[k].req IN
    /\ task[k].pc = "relay"
    /\ \/ /\ \E s \in SitesOfRp(RpOf[req[r].origin]) :
               s.cb # None /\ delivered' = [delivered EXCEPT ![r] = @ \cup {s.cb}]
       \/ UNCHANGED delivered
    /\ Goto(k, "announce")
    /\ UNCHANGED <<storeVars, seenVars, req, marks, presented, serverVars, envVars>>

\* CERT_READY goes to whatever page the tab shows; nobody is there once it is
\* closed, and that error is swallowed.
Announce(k, t) ==
    LET r == task[k].req IN
    /\ task[k].pc = "announce" /\ task[k].tab = t
    /\ presented' = IF page[t] = None THEN presented
                    ELSE [presented EXCEPT ![r] = @ \cup {page[t]}]
    /\ EndSubmit(k, IF page[t] = None THEN {} ELSE {"announced"})
    /\ UNCHANGED <<storeVars, seenVars, req, delivered, serverVars, envVars>>

-----------------------------------------------------------------------------
AttestStep(k) ==
    \/ ChallengeArrives(k) \/ ChallengeFails(k) \/ LookupCredential(k)
    \/ WebAuthnOk(k) \/ WebAuthnFails(k) \/ SetInflight(k)
    \/ \E reply \in Replies \ {"malformed"}, issues \in BOOLEAN : AttestReply(k, reply, issues)
    \/ /\ "malformed" \in Replies
       /\ \E issues \in BOOLEAN : VerifyThrows(k, issues) \/ RecoverThrows(k, issues)
    \/ ClearInflight(k) \/ RemoveRevoked(k) \/ SetSession(k)
    \/ RelayCert(k) \/ \E t \in Tab : Announce(k, t)
=============================================================================
