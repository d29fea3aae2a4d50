------------------------------- MODULE QrLogin ------------------------------
(***************************************************************************)
(* A login by QR code: the gate of a web page (WebsiteGate), a phone that  *)
(* attests (IosClient) and depositToRelay of HPPClient.swift, which puts   *)
(* the phone's token into the slot the gate polls.  The deposit is best    *)
(* effort: its caller may try again after an error.                        *)
(***************************************************************************)
EXTENDS WebsiteGate

CONSTANTS Attempt, Key, None

\* None stands for an empty Keychain.
ASSUME QrAssumption == None \notin Key

VARIABLES
    keychain, generated, stored, attempt, epoch, returned,  \* those of IosClient
    deposit,    \* the deposit of each attempt's token
    fulfilled   \* attempts whose token the slot has taken (history)

Phone == INSTANCE IosClient

depositVars == <<deposit, fulfilled>>
phoneVars == <<keychain, generated, stored, attempt, epoch, returned>>
allVars == <<vars, phoneVars, depositVars>>

DepositState == {"none", "sent", "done", "threw"}

\* Gate, phone and deposits keep their types.
QrTypeOK ==
    /\ TypeOK /\ Phone!TypeOK
    /\ deposit \in [Attempt -> DepositState] /\ fulfilled \in SUBSET Attempt

QrInit ==
    /\ Init /\ Phone!Init
    /\ deposit = [a \in Attempt |-> "none"] /\ fulfilled = {}

-----------------------------------------------------------------------------
\* A deposit that does not wait for the result of attest().
SendEarly(a) ==
    /\ attempt[a].pc = "verify" /\ relay # "none"
    /\ deposit[a] \in {"none", "threw"}
    /\ deposit' = [deposit EXCEPT ![a] = "sent"]
    /\ UNCHANGED <<vars, phoneVars, fulfilled>>

\* depositToRelay, with the slot scanned from the gate's QR code.
SendDeposit(a) ==
    /\ a \in Phone!Returned /\ relay # "none"
    /\ deposit[a] \in {"none", "threw"}
    /\ deposit' = [deposit EXCEPT ![a] = "sent"]
    /\ UNCHANGED <<vars, phoneVars, fulfilled>>

\* The slot takes the token; a slot that has one takes it again.  The answer
\* may be lost, and the caller is told of a failure.
DepositTaken(a) ==
    /\ deposit[a] = "sent"
    /\ \/ TokenDeposited
       \/ relay = "ready" /\ UNCHANGED vars
    /\ \E end \in {"done", "threw"} : deposit' = [deposit EXCEPT ![a] = end]
    /\ fulfilled' = fulfilled \cup {a}
    /\ UNCHANGED phoneVars

\* 404 and 401 are silent; any other status and a failed transport throw.
DepositRefused(a) ==
    /\ deposit[a] = "sent"
    /\ \E end \in {"done", "threw"} : deposit' = [deposit EXCEPT ![a] = end]
    /\ UNCHANGED <<vars, phoneVars, fulfilled>>

GateMoves  == GateStep /\ UNCHANGED <<phoneVars, depositVars>>
PhoneMoves == Phone!Next /\ UNCHANGED <<vars, depositVars>>
Deposits(a) == SendDeposit(a) \/ DepositTaken(a) \/ DepositRefused(a)

QrNext == GateMoves \/ PhoneMoves \/ \E a \in Attempt : Deposits(a)

\* The gate's fairness; nothing is assumed of the phone.
QrSpec == QrInit /\ [][QrNext]_allVars /\ Fairness

-----------------------------------------------------------------------------
\* Properties

\* The page is told of a presence only if an attestation on a phone had
\* returned, whatever polls overlap and deposits are repeated or refused
\* (depositToRelay, the slot, _startPolling).
UnlockedWasAttested ==
    unlocks > 0 => \E a \in fulfilled : a \in Phone!Returned

ReturnedWasStored == Phone!ReturnedWasStored
FingerprintStable == Phone!FingerprintStable
=============================================================================
