---------------------------- MODULE WebsiteGate -----------------------------
(***************************************************************************)
(* The presence gate a relying party mounts in its page: GateController of *)
(* website/src/hpp.js.  It creates a relay slot at the verifier and polls  *)
(* it; a phone deposits the session token in the slot, or the slot's life  *)
(* ends first.  Every tick of the interval sends a poll whether or not the *)
(* earlier ones are answered, and answers arrive in any order.             *)
(***************************************************************************)
EXTENDS Naturals

CONSTANT Poll       \* polls that can be under way at the same time (a bound)

VARIABLES
    stage,      \* what start() has come to
    timer,      \* this.timer is set: the interval runs
    destroyed,  \* this.destroyed
    polls,      \* each poll: not sent, sent, or the answer that is on its way
    relay,      \* the relay slot at the verifier
    unlocks, expireds, errors
                \* how often each callback of the page was called (history)

gateVars == <<stage, timer, destroyed>>
toldVars == <<unlocks, expireds, errors>>
vars == <<gateVars, polls, relay, toldVars>>

Stage  == {"creating", "polling", "failed", "dropped"}
Status == {"none", "waiting", "ready", "expired"}
Answer == {"waiting", "ready", "expired", "failed"}

TypeOK ==
    /\ stage \in Stage /\ timer \in BOOLEAN /\ destroyed \in BOOLEAN
    /\ polls \in [Poll -> Answer \cup {"none", "sent"}]
    /\ relay \in Status
    /\ unlocks \in Nat /\ expireds \in Nat /\ errors \in Nat

Init ==
    /\ stage = "creating" /\ timer = FALSE /\ destroyed = FALSE
    /\ polls = [p \in Poll |-> "none"] /\ relay = "none"
    /\ unlocks = 0 /\ expireds = 0 /\ errors = 0

-----------------------------------------------------------------------------
\* start and destroy

\* POST /relay/create fails, or its answer has no relay_id: _fail.  A failed
\* request does not look at "destroyed".
CreateFails ==
    /\ stage = "creating"
    /\ stage' = "failed" /\ errors' = errors + 1
    /\ UNCHANGED <<timer, destroyed, polls, relay, unlocks, expireds>>

\* The answer is used without a look at "destroyed".
CreatedAnyway ==
    /\ stage = "creating" /\ relay # "none"
    /\ stage' = "polling" /\ timer' = TRUE
    /\ UNCHANGED <<destroyed, polls, relay, toldVars>>

Created ==
    /\ stage = "creating" /\ relay # "none"
    /\ stage' = IF destroyed THEN "dropped" ELSE "polling"
    /\ timer' = ~destroyed
    /\ UNCHANGED <<destroyed, polls, relay, toldVars>>

\* A destroyed gate enters a stage of its own.
DestroyStage ==
    /\ ~destroyed
    /\ destroyed' = TRUE /\ timer' = FALSE /\ stage' = "destroyed"
    /\ UNCHANGED <<polls, relay, toldVars>>

Destroy ==
    /\ ~destroyed
    /\ destroyed' = TRUE /\ timer' = FALSE
    /\ UNCHANGED <<stage, polls, relay, toldVars>>

-----------------------------------------------------------------------------
\* _startPolling

SendPoll(p) ==
    /\ timer /\ ~destroyed
    /\ polls[p] = "none"
    /\ polls' = [polls EXCEPT ![p] = "sent"]
    /\ UNCHANGED <<gateVars, relay, toldVars>>

Arrives(p, answer) ==
    /\ polls[p] = answer
    /\ polls' = [polls EXCEPT ![p] = "none"]
    /\ UNCHANGED <<stage, destroyed, relay>>

\* The callback is called without a look at "destroyed".
ReadyAnyway(p) ==
    /\ Arrives(p, "ready")
    /\ timer' = FALSE /\ unlocks' = unlocks + 1
    /\ UNCHANGED <<expireds, errors>>

\* "ready": the interval is cleared and onUnlock called; onError is called when
\* onUnlock throws.
ReadyArrives(p) ==
    /\ Arrives(p, "ready")
    /\ IF destroyed
         THEN UNCHANGED <<timer, toldVars>>
         ELSE /\ timer' = FALSE
              /\ unlocks' = unlocks + 1
              /\ errors' \in {errors, errors + 1}
              /\ UNCHANGED expireds

\* "expired" or "not_found".
ExpiredArrives(p) ==
    /\ Arrives(p, "expired")
    /\ IF destroyed
         THEN UNCHANGED <<timer, toldVars>>
         ELSE /\ timer' = FALSE
              /\ expireds' = expireds + 1
              /\ UNCHANGED <<unlocks, errors>>

WaitingArrives(p) ==
    /\ Arrives(p, "waiting")
    /\ UNCHANGED <<timer, toldVars>>

\* A failed poll that stops the interval as an answer does.
PollFailsStops(p) ==
    /\ Arrives(p, "failed")
    /\ timer' = FALSE
    /\ UNCHANGED toldVars

\* No answer, or one that is not 200 or not JSON: the next tick tries again.
PollFails(p) ==
    /\ Arrives(p, "failed")
    /\ UNCHANGED <<timer, toldVars>>

-----------------------------------------------------------------------------
\* External: the verifier's relay slot, the network, the phone

SlotCreated ==
    /\ stage = "creating" /\ relay = "none"
    /\ relay' = "waiting"
    /\ UNCHANGED <<gateVars, polls, toldVars>>

TokenDeposited ==
    /\ relay = "waiting" /\ relay' = "ready"
    /\ UNCHANGED <<gateVars, polls, toldVars>>

\* The slot's time to live is over.
SlotExpires ==
    /\ relay \in {"waiting", "ready"} /\ relay' = "expired"
    /\ UNCHANGED <<gateVars, polls, toldVars>>

PollAnswered(p) ==
    /\ polls[p] = "sent"
    /\ polls' = [polls EXCEPT ![p] = relay]
    /\ UNCHANGED <<gateVars, relay, toldVars>>

PollLost(p) ==
    /\ polls[p] = "sent"
    /\ polls' = [polls EXCEPT ![p] = "failed"]
    /\ UNCHANGED <<gateVars, relay, toldVars>>

AnswerArrives(p) ==
    ReadyArrives(p) \/ ExpiredArrives(p) \/ WaitingArrives(p) \/ PollFails(p)

\* Everything but what the phone does.
GateStep ==
    \/ CreateFails \/ Created \/ Destroy \/ SlotCreated \/ SlotExpires
    \/ \E p \in Poll : SendPoll(p) \/ PollAnswered(p) \/ PollLost(p) \/ AnswerArrives(p)

Next == GateStep \/ TokenDeposited

Spec == Init /\ [][Next]_vars

\* The interval ticks, promises settle, the slot's life ends, and a page that
\* goes on polling does not lose every poll.
Fairness ==
    /\ WF_vars(CreateFails \/ Created) /\ WF_vars(SlotExpires)
    /\ \A p \in Poll : /\ WF_vars(SendPoll(p)) /\ WF_vars(AnswerArrives(p))
                       /\ WF_vars(PollAnswered(p) \/ PollLost(p))
                       /\ SF_vars(PollAnswered(p))

FairSpec == Spec /\ Fairness

-----------------------------------------------------------------------------
\* Properties

\* No interval runs once the gate is destroyed or has given its verdict, also
\* when POST /relay/create is answered after destroy() (GateController.start,
\* destroy and the two branches of _startPolling that clear the interval).
NoPollingAfterEnd == timer => ~destroyed /\ unlocks = 0 /\ expireds = 0

\* The page is told something only while it wants the gate: no onUnlock and no
\* onExpired after destroy(), though polls are still on their way.
SilentAfterDestroy == [][destroyed => UNCHANGED <<unlocks, expireds>>]_vars

\* A gate that was started ends: it fails, it is destroyed, or the page is told
\* (polls that fail are retried by the next tick).
GateEnds == <>(stage = "failed" \/ destroyed \/ unlocks + expireds > 0)
=============================================================================
