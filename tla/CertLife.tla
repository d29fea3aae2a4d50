------------------------------ MODULE CertLife -------------------------------
(***************************************************************************)
(* What the extension promises of the certificate of one verification, with *)
(* no word of how: a page asks, the user of that page approves, the server *)
(* issues, and only then is the certificate held for the tab that asked,   *)
(* relayed within the site that asked, and shown.  What is held may go at  *)
(* any time, and come back, but only to the tab it was issued for.         *)
(* HppWorker implements this specification.                                *)
(***************************************************************************)
CONSTANTS Tab, Origin, RpOf, Req, None

VARIABLES
    phase,      \* how far the verification has come
    asker,      \* the tab and the origin it was asked from
    holder,     \* tab -> the verification whose certificate it holds
    relayed,    \* origins whose server was given the certificate
    shown       \* pages that were told of it

vars == <<phase, asker, holder, relayed, shown>>

Phase   == {"none", "asked", "approved", "issued"}
NoAsker == [tab |-> None, origin |-> None]

Init ==
    /\ phase = [r \in Req |-> "none"] /\ asker = [r \in Req |-> NoAsker]
    /\ holder = [t \in Tab |-> None]
    /\ relayed = [r \in Req |-> {}] /\ shown = [r \in Req |-> {}]

Advance(r, from, to) ==
    /\ phase[r] = from
    /\ phase' = [phase EXCEPT ![r] = to]
    /\ UNCHANGED <<holder, relayed, shown>>

Ask(r, t, o) ==
    /\ Advance(r, "none", "asked")
    /\ asker' = [asker EXCEPT ![r] = [tab |-> t, origin |-> o]]

Approve(r) == Advance(r, "asked", "approved") /\ UNCHANGED asker
Issue(r)   == Advance(r, "approved", "issued") /\ UNCHANGED asker

\* What is held changes, to certificates of the tabs that hold them.
Owns(t, r) == phase[r] = "issued" /\ asker[r].tab = t

Hold ==
    /\ holder' \in [Tab -> Req \cup {None}]
    /\ \A t \in Tab : holder'[t] # None => Owns(t, holder'[t])
    /\ UNCHANGED <<phase, asker, relayed, shown>>

Relay(r, o) ==
    /\ phase[r] = "issued" /\ RpOf[o] = RpOf[asker[r].origin]
    /\ relayed' = [relayed EXCEPT ![r] = @ \cup {o}]
    /\ UNCHANGED <<phase, asker, holder, shown>>

Show(r, o) ==
    /\ phase[r] = "issued"
    /\ shown' = [shown EXCEPT ![r] = @ \cup {o}]
    /\ UNCHANGED <<phase, asker, holder, relayed>>

Next ==
    \/ Hold
    \/ \E r \in Req : Approve(r) \/ Issue(r)
    \/ \E r \in Req, o \in Origin : Relay(r, o) \/ Show(r, o) \/ \E t \in Tab : Ask(r, t, o)

Spec == Init /\ [][Next]_vars
=============================================================================
