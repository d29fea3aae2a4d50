---------------------------- MODULE QrLoginProofs ---------------------------
(***************************************************************************)
(* Proofs about the login by QR code, for any number of overlapping polls, *)
(* of attestations and of keys.  A poll's answer that says "ready" may     *)
(* outlive the slot that said so, so the inductive invariant follows the   *)
(* token from attest() through the deposit, the slot and the polls.        *)
(***************************************************************************)
EXTENDS QrLogin, TLAPS

\* Nothing runs before the slot is created, and only a created gate polls.
GateInv ==
    /\ stage = "creating" => /\ ~timer /\ unlocks = 0 /\ expireds = 0
                             /\ \A p \in Poll : polls[p] = "none"
    /\ timer => stage = "polling"
    /\ NoPollingAfterEnd

\* An attestation that signs has a key, which the Keychain has held.
KeyInv ==
    /\ \A a \in Attempt :
         /\ attempt[a].pc \in {"drop", "add", "sign", "verify"} =>
              attempt[a].key \in generated
         /\ attempt[a].pc \in {"sign", "verify"} => attempt[a].key \in stored
    /\ keychain # None => keychain \in stored
    /\ ReturnedWasStored

\* Where a token is, an attestation has returned it.
TokenInv ==
    /\ \A a \in Attempt : deposit[a] = "sent" => a \in Phone!Returned
    /\ fulfilled \subseteq Phone!Returned
    /\ (relay = "ready" \/ unlocks > 0 \/ \E p \in Poll : polls[p] = "ready") =>
         fulfilled # {}

QrInv == QrTypeOK /\ GateInv /\ KeyInv /\ TokenInv

\* The keys that attestations took, with their epochs: of those that are on
\* their way to postVerify and of those that returned.
Takes == {x \in Phone!Result : \E a \in Attempt :
            \/ /\ attempt[a].pc \in {"sign", "verify"}
               /\ attempt[a].key = x.key /\ attempt[a].epoch = x.epoch
            \/ returned[a] = x}

\* The client's actor lets one attestation at a time past getOrCreateKey and on to
\* postVerify.  Nobody has taken a key in the epoch of one that creates a key; the
\* keys taken in an epoch are one key, the stored one if the epoch is the current.
Creating == {"create", "drop", "add"}
OneInSection == \A a, b \in Attempt :
    attempt[a].pc \in Phone!Section /\ attempt[b].pc \in Phone!Section => a = b
CreatorFirst == \A a \in Attempt : attempt[a].pc \in Creating =>
    attempt[a].epoch = epoch /\ \A x \in Takes : x.epoch # epoch
TakenStored  == \A x \in Takes : x.epoch <= epoch /\ (x.epoch = epoch => x.key = keychain)
TakesAgree   == \A x, y \in Takes : x.epoch = y.epoch => x.key = y.key
OneKeyInv    == OneInSection /\ CreatorFirst /\ TakenStored /\ TakesAgree

-----------------------------------------------------------------------------
\* The invariants hold at first.
LEMMA QrInvInit ==
    ASSUME QrInit
    PROVE  QrInv
<1> USE DEF QrInit, Init, Phone!Init
<1>1. TypeOK BY DEF TypeOK, Stage, Status, Answer
<1>2. Phone!TypeOK BY DEF Phone!TypeOK, Phone!Pc, Phone!NoResult
<1>3. QrTypeOK BY <1>1, <1>2 DEF QrTypeOK, DepositState
<1>4. GateInv BY DEF GateInv, NoPollingAfterEnd
<1>5. Phone!Returned = {} BY DEF Phone!Returned
<1>6. KeyInv BY <1>5 DEF KeyInv, ReturnedWasStored, Phone!ReturnedWasStored
<1>7. TokenInv BY DEF TokenInv
<1>8. QED BY <1>3, <1>4, <1>6, <1>7 DEF QrInv

\* The gate keeps its types, and does not poll once it has ended.
LEMMA GateKept ==
    ASSUME TypeOK, GateInv, GateStep \/ TokenDeposited
    PROVE  TypeOK' /\ GateInv'
<1> USE DEF TypeOK, Stage, Status, Answer, GateInv, NoPollingAfterEnd, gateVars, toldVars
<1>1. CASE CreateFails BY <1>1 DEF CreateFails
<1>2. CASE Created BY <1>2 DEF Created
<1>3. CASE Destroy BY <1>3 DEF Destroy
<1>4. CASE SlotCreated \/ SlotExpires \/ TokenDeposited
  BY <1>4 DEF SlotCreated, SlotExpires, TokenDeposited
<1>5. ASSUME NEW p \in Poll, SendPoll(p) PROVE TypeOK' /\ GateInv'
  BY <1>5 DEF SendPoll
<1>6. ASSUME NEW p \in Poll, PollAnswered(p) \/ PollLost(p) PROVE TypeOK' /\ GateInv'
  BY <1>6 DEF PollAnswered, PollLost
<1>7. ASSUME NEW p \in Poll, AnswerArrives(p) PROVE TypeOK' /\ GateInv'
  <2>1. CASE ReadyArrives(p) \/ ExpiredArrives(p)
    <3>1. /\ UNCHANGED <<stage, destroyed, relay>> /\ polls[p] # "none"
          /\ polls' = [polls EXCEPT ![p] = "none"]
      BY <2>1 DEF ReadyArrives, ExpiredArrives, Arrives
    <3>2. \/ UNCHANGED <<timer, unlocks, expireds, errors>>
          \/ timer' = FALSE /\ unlocks' \in Nat /\ expireds' \in Nat /\ errors' \in Nat
      BY <2>1 DEF ReadyArrives, ExpiredArrives
    <3>3. timer' \in BOOLEAN BY <3>2
    <3>4. unlocks' \in Nat /\ expireds' \in Nat /\ errors' \in Nat BY <3>2
    <3>5. TypeOK' BY <3>1, <3>3, <3>4
    <3>6. GateInv' BY <3>1, <3>2
    <3>7. QED BY <3>5, <3>6
  <2>2. CASE WaitingArrives(p) \/ PollFails(p)
    <3>1. /\ UNCHANGED <<stage, destroyed, relay, timer, unlocks, expireds, errors>>
          /\ polls' = [polls EXCEPT ![p] = "none"]
      BY <2>2 DEF WaitingArrives, PollFails, Arrives
    <3>2. TypeOK' BY <3>1
    <3>3. GateInv' BY <3>1
    <3>4. QED BY <3>2, <3>3
  <2>3. QED BY <1>7, <2>1, <2>2 DEF AnswerArrives
<1>8. QED BY <1>1, <1>2, <1>3, <1>4, <1>5, <1>6, <1>7 DEF GateStep

\* A phone keeps its types and its keys, and what attest() has returned it has
\* returned.
LEMMA PhoneKept ==
    ASSUME Phone!TypeOK, KeyInv, Phone!Next
    PROVE  Phone!TypeOK' /\ KeyInv' /\ Phone!Returned \subseteq Phone!Returned'
<1> DEFINE Kept == Phone!TypeOK' /\ KeyInv' /\ Phone!Returned \subseteq Phone!Returned'
<1> USE DEF Phone!TypeOK, Phone!Pc, Phone!Result, Phone!NoResult, KeyInv, ReturnedWasStored,
            Phone!ReturnedWasStored, Phone!Returned, Phone!histVars
<1>1. CASE Phone!DeleteKey BY <1>1 DEF Phone!DeleteKey
<1>2. CASE Phone!AppEnds BY <1>2 DEF Phone!AppEnds, Phone!Running
<1>3. ASSUME NEW a \in Attempt,
             \/ Phone!Start(a) \/ Phone!Challenge(a) \/ Phone!Biometric(a)
             \/ Phone!Passcode(a) \/ Phone!Sign(a)
      PROVE  Kept
  BY <1>3 DEF Phone!Start, Phone!Challenge, Phone!Biometric, Phone!Passcode, Phone!Sign,
              Phone!Goto
<1>4. ASSUME NEW a \in Attempt, Phone!LoadKey(a) PROVE Kept
  <2>1. Phone!TypeOK'
    <3>1. epoch' \in Nat BY <1>4 DEF Phone!LoadKey
    <3>2. attempt' \in [Attempt -> [pc : Phone!Pc, key : Key \cup {None}, epoch : Nat]]
      BY <1>4, <3>1 DEF Phone!LoadKey
    <3>3. UNCHANGED <<keychain, generated, stored, returned>> BY <1>4 DEF Phone!LoadKey
    <3>4. QED BY <3>1, <3>2, <3>3
  <2>2. KeyInv'
    <3>1. \E to \in {"sign", "threw", "create"} :
            /\ \A b \in Attempt \ {a} : attempt'[b] = attempt[b]
            /\ attempt'[a].pc = to
            /\ to = "sign" => keychain # None /\ attempt'[a].key = keychain
      BY <1>4 DEF Phone!LoadKey
    <3>2. UNCHANGED <<keychain, generated, stored, returned>> BY <1>4 DEF Phone!LoadKey
    <3>3. QED BY <3>1, <3>2
  <2>3. Phone!Returned \subseteq Phone!Returned' BY <1>4 DEF Phone!LoadKey
  <2>4. QED BY <2>1, <2>2, <2>3
<1>5. ASSUME NEW a \in Attempt, Phone!CreateKey(a) PROVE Kept
  BY <1>5 DEF Phone!CreateKey, Phone!Goto
<1>6. ASSUME NEW a \in Attempt, Phone!DropItem(a) PROVE Kept
  BY <1>6 DEF Phone!DropItem, Phone!Goto
<1>7. ASSUME NEW a \in Attempt, Phone!AddItem(a) PROVE Kept
  <2>1. Phone!TypeOK' BY <1>7 DEF Phone!AddItem, Phone!Goto
  <2>2. KeyInv' BY <1>7 DEF Phone!AddItem, Phone!Goto
  <2>3. Phone!Returned \subseteq Phone!Returned' BY <1>7 DEF Phone!AddItem
  <2>4. QED BY <2>1, <2>2, <2>3
<1>8. ASSUME NEW a \in Attempt, Phone!Verify(a) PROVE Kept
  <2>1. Phone!TypeOK' BY <1>8 DEF Phone!Verify, Phone!Goto
  <2>2. attempt[a].pc = "verify" /\ attempt[a].key \in stored /\ attempt[a].key # None
    BY <1>8, QrAssumption DEF Phone!Verify, Phone!Goto
  <2>3. /\ UNCHANGED <<keychain, generated, stored>>
        /\ \A b \in Attempt \ {a} : attempt'[b] = attempt[b]
        /\ attempt'[a].pc \in {"threw", "done"}
    BY <1>8 DEF Phone!Verify, Phone!Goto
  <2>4. \A b \in Attempt : \/ returned'[b] = returned[b]
                           \/ b = a /\ returned'[b].key = attempt[a].key
    <3>1. \/ returned' = returned
          \/ returned' = [returned EXCEPT ![a] =
                            [key |-> attempt[a].key, epoch |-> attempt[a].epoch]]
      BY <1>8 DEF Phone!Verify
    <3>2. returned \in [Attempt -> Phone!Result \cup {Phone!NoResult}] OBVIOUS
    <3>3. CASE returned' = returned BY <3>3
    <3>4. CASE returned' = [returned EXCEPT ![a] =
                              [key |-> attempt[a].key, epoch |-> attempt[a].epoch]]
      <4>1. returned'[a].key = attempt[a].key BY <3>2, <3>4
      <4>2. \A b \in Attempt \ {a} : returned'[b] = returned[b] BY <3>2, <3>4
      <4>3. QED BY <4>1, <4>2
    <3>5. QED BY <3>1, <3>3, <3>4
  <2>5. \A b \in Phone!Returned' : returned'[b].key \in stored BY <2>2, <2>4
  <2>6. KeyInv' BY <2>2, <2>3, <2>5
  <2>7. Phone!Returned \subseteq Phone!Returned' BY <2>2, <2>4
  <2>8. QED BY <2>1, <2>6, <2>7
<1>9. QED
  BY <1>1, <1>2, <1>3, <1>4, <1>5, <1>6, <1>7, <1>8 DEF Phone!Next, Phone!Proceed

\* What leaves the phone alone keeps what is said of it.
LEMMA PhoneRests ==
    ASSUME UNCHANGED phoneVars
    PROVE  /\ Phone!TypeOK <=> Phone!TypeOK'
           /\ KeyInv <=> KeyInv'
           /\ Phone!Returned' = Phone!Returned
BY DEF phoneVars, Phone!TypeOK, KeyInv, ReturnedWasStored, Phone!ReturnedWasStored,
       Phone!Returned

\* The gate says "ready" only of a slot that is ready.
LEMMA TokenGate ==
    ASSUME TypeOK, TokenInv, GateStep, UNCHANGED <<phoneVars, depositVars>>
    PROVE  TokenInv'
<1> USE PhoneRests DEF TypeOK, Stage, Status, Answer, TokenInv, gateVars, toldVars, depositVars
<1>1. CASE CreateFails \/ Created \/ Destroy
  BY <1>1 DEF CreateFails, Created, Destroy
<1>2. CASE SlotCreated \/ SlotExpires BY <1>2 DEF SlotCreated, SlotExpires
<1>3. ASSUME NEW p \in Poll, SendPoll(p) \/ PollAnswered(p) \/ PollLost(p)
      PROVE  TokenInv'
  BY <1>3 DEF SendPoll, PollAnswered, PollLost
<1>4. ASSUME NEW p \in Poll, AnswerArrives(p) PROVE TokenInv'
  BY <1>4 DEF AnswerArrives, ReadyArrives, ExpiredArrives, WaitingArrives, PollFails, Arrives
<1>5. QED BY <1>1, <1>2, <1>3, <1>4 DEF GateStep

\* QrInv is kept by every step.
LEMMA QrInvKept ==
    ASSUME QrInv, [QrNext]_allVars
    PROVE  QrInv'
<1> USE DEF QrInv, QrTypeOK
<1>1. CASE UNCHANGED allVars
  <2>1. UNCHANGED <<vars, phoneVars, depositVars>> BY <1>1 DEF allVars
  <2>2. TypeOK' /\ GateInv'
    BY <2>1 DEF vars, gateVars, toldVars, TypeOK, GateInv, NoPollingAfterEnd
  <2>3. TokenInv' BY <2>1, PhoneRests DEF vars, gateVars, toldVars, depositVars, TokenInv
  <2>4. QED BY <2>1, <2>2, <2>3, PhoneRests DEF depositVars
<1>2. CASE GateMoves
  <2>1. TypeOK' /\ GateInv' BY <1>2, GateKept DEF GateMoves
  <2>2. TokenInv' BY <1>2, TokenGate DEF GateMoves
  <2>3. QED BY <1>2, <2>1, <2>2, PhoneRests DEF GateMoves, depositVars
<1>3. CASE PhoneMoves
  <2>1. Phone!TypeOK' /\ KeyInv' /\ Phone!Returned \subseteq Phone!Returned'
    BY <1>3, PhoneKept DEF PhoneMoves
  <2>2. TypeOK' /\ GateInv'
    BY <1>3 DEF PhoneMoves, vars, gateVars, toldVars, TypeOK, GateInv, NoPollingAfterEnd
  <2>3. TokenInv'
    BY <1>3, <2>1 DEF PhoneMoves, vars, gateVars, toldVars, depositVars, TokenInv
  <2>4. QED BY <1>3, <2>1, <2>2, <2>3 DEF PhoneMoves, depositVars
<1>4. ASSUME NEW a \in Attempt, Deposits(a) PROVE QrInv'
  <2>1. UNCHANGED phoneVars
    BY <1>4 DEF Deposits, SendDeposit, DepositTaken, DepositRefused
  <2>2. TypeOK' /\ GateInv'
    <3>1. TokenDeposited \/ UNCHANGED vars
      BY <1>4 DEF Deposits, SendDeposit, DepositTaken, DepositRefused
    <3>2. CASE TokenDeposited BY <3>2, GateKept
    <3>3. CASE UNCHANGED vars
      BY <3>3 DEF vars, gateVars, toldVars, TypeOK, GateInv, NoPollingAfterEnd
    <3>4. QED BY <3>1, <3>2, <3>3
  <2>3. deposit' \in [Attempt -> DepositState] /\ fulfilled' \in SUBSET Attempt
    BY <1>4 DEF Deposits, SendDeposit, DepositTaken, DepositRefused, DepositState
  <2>4. TokenInv'
    <3> USE <2>1, PhoneRests DEF TokenInv, vars, gateVars, toldVars
    <3>1. CASE SendDeposit(a) BY <3>1 DEF SendDeposit
    <3>2. CASE DepositTaken(a) BY <3>2 DEF DepositTaken, TokenDeposited
    <3>3. CASE DepositRefused(a) BY <3>3 DEF DepositRefused
    <3>4. QED BY <1>4, <3>1, <3>2, <3>3 DEF Deposits
  <2>5. QED BY <2>1, <2>2, <2>3, <2>4, PhoneRests
<1>5. QED BY <1>1, <1>2, <1>3, <1>4 DEF QrNext

\* QrInv is an invariant.
LEMMA QrInvAlways == QrSpec => []QrInv
<1>1. QrInit => QrInv BY QrInvInit
<1>2. QrInv /\ [QrNext]_allVars => QrInv' BY QrInvKept
<1>3. QED BY <1>1, <1>2, PTL DEF QrSpec

-----------------------------------------------------------------------------
\* No key is taken at first.
LEMMA OneKeyInit ==
    ASSUME QrInit
    PROVE  OneKeyInv
<1>1. Takes = {}
  BY QrAssumption DEF QrInit, Phone!Init, Takes, Phone!Result, Phone!NoResult
<1>2. QED
  BY <1>1 DEF QrInit, Phone!Init, Phone!Section, Creating, OneKeyInv, OneInSection,
              CreatorFirst, TakenStored, TakesAgree

\* A step of one attestation that returns nothing takes at most one key.
LEMMA OneTake ==
    ASSUME NEW a \in Attempt, \A b \in Attempt \ {a} : attempt'[b] = attempt[b],
           UNCHANGED returned
    PROVE  \A x \in Takes' : \/ x \in Takes
                             \/ /\ attempt'[a].pc \in {"sign", "verify"}
                                /\ attempt'[a].key = x.key /\ attempt'[a].epoch = x.epoch
BY DEF Takes

\* A taken key is a key, taken in some epoch.
LEMMA TakeType == \A x \in Takes : x.key \in Key /\ x.key # None /\ x.epoch \in Nat
BY QrAssumption DEF Takes, Phone!Result

\* A step that takes no key, and after which only those create a key that did
\* before, keeps what is stored apart from what is taken.
LEMMA NoTakeKept ==
    ASSUME OneKeyInv, OneInSection', Takes' \subseteq Takes, UNCHANGED <<keychain, epoch>>,
           \A a \in Attempt : attempt'[a].pc \in Creating =>
               attempt[a].pc \in Creating /\ attempt'[a].epoch = attempt[a].epoch
    PROVE  OneKeyInv'
BY DEF OneKeyInv, CreatorFirst, TakenStored, TakesAgree

\* The actor: a step of an attestation that is alone leaves it the only one in its
\* section, and one that does not enter the section adds nobody to it.
LEMMA SectionKept ==
    ASSUME OneInSection, NEW a \in Attempt,
           \A b \in Attempt \ {a} : attempt'[b] = attempt[b],
           \/ Phone!Alone(a)
           \/ attempt'[a].pc \notin Phone!Section
    PROVE  OneInSection'
BY DEF OneInSection, Phone!Alone

\* getOrCreateKey, its read: the stored key, or a key to be the first of its epoch.
LEMMA LoadOneKey ==
    ASSUME Phone!TypeOK, OneKeyInv, NEW a \in Attempt, Phone!Alone(a), Phone!LoadKey(a)
    PROVE  OneKeyInv'
<1>1. /\ UNCHANGED <<keychain, returned>> /\ epoch \in Nat
      /\ \A b \in Attempt \ {a} : attempt'[b] = attempt[b]
  BY DEF Phone!LoadKey, Phone!TypeOK
<1>2. OneInSection /\ CreatorFirst /\ TakenStored /\ TakesAgree BY DEF OneKeyInv
<1>3. \A b \in Attempt \ {a} : attempt'[b].pc \notin Creating
  BY <1>1 DEF Phone!Alone, Phone!Section, Creating
<1>4. \/ /\ attempt'[a].pc = "sign" /\ attempt'[a].key = keychain
         /\ attempt'[a].epoch = epoch /\ epoch' = epoch
      \/ attempt'[a].pc = "threw" /\ epoch' = epoch
      \/ /\ attempt'[a].pc = "create" /\ attempt'[a].epoch = epoch'
         /\ epoch' = IF keychain = None THEN epoch ELSE epoch + 1
  <2>1. attempt \in [Attempt -> [pc : Phone!Pc, key : Key \cup {None}, epoch : Nat]]
    BY DEF Phone!TypeOK
  <2>2. CASE /\ UNCHANGED epoch
             /\ attempt' = [attempt EXCEPT ![a] =
                              [pc |-> "sign", key |-> keychain, epoch |-> epoch]]
    BY <2>1, <2>2
  <2>3. CASE UNCHANGED epoch /\ attempt' = [attempt EXCEPT ![a].pc = "threw"]
    BY <2>1, <2>3
  <2>4. CASE /\ epoch' = IF keychain = None THEN epoch ELSE epoch + 1
             /\ attempt' = [attempt EXCEPT ![a].pc = "create", ![a].epoch = epoch']
    BY <2>1, <2>4
  <2>5. QED BY <2>2, <2>3, <2>4 DEF Phone!LoadKey
<1>5. \A x \in Takes' :
        \/ x \in Takes
        \/ x.key = keychain /\ x.epoch = epoch /\ attempt'[a].pc = "sign"
  <2>1. \A x \in Takes' :
          \/ x \in Takes
          \/ /\ attempt'[a].pc \in {"sign", "verify"}
             /\ attempt'[a].key = x.key /\ attempt'[a].epoch = x.epoch
    BY <1>1, OneTake
  <2>2. QED BY <1>4, <2>1
<1>6. OneInSection' BY <1>1, <1>2, SectionKept
<1>7. CASE attempt'[a].pc # "create"
  <2>1. epoch' = epoch /\ attempt'[a].pc \notin Creating BY <1>4, <1>7 DEF Creating
  <2>2. CreatorFirst' BY <1>3, <2>1 DEF CreatorFirst
  <2>3. TakenStored' BY <1>1, <1>2, <1>5, <2>1 DEF TakenStored
  <2>4. TakesAgree' BY <1>2, <1>5 DEF TakenStored, TakesAgree
  <2>5. QED BY <1>6, <2>2, <2>3, <2>4 DEF OneKeyInv
<1>8. CASE attempt'[a].pc = "create"
  <2>1. /\ attempt'[a].epoch = epoch'
        /\ epoch' = IF keychain = None THEN epoch ELSE epoch + 1
    BY <1>4, <1>8
  <2>2. Takes' \subseteq Takes BY <1>5, <1>8
  <2>3. \A x \in Takes : x.epoch < epoch'
    BY <1>1, <1>2, <2>1, TakeType DEF TakenStored
  <2>4. CreatorFirst' BY <1>3, <2>1, <2>2, <2>3, TakeType DEF CreatorFirst
  <2>5. TakenStored' BY <2>1, <2>2, <2>3, <1>1, TakeType DEF TakenStored
  <2>6. TakesAgree' BY <1>2, <2>2 DEF TakesAgree
  <2>7. QED BY <1>6, <2>4, <2>5, <2>6 DEF OneKeyInv
<1>9. QED BY <1>7, <1>8

\* persistKeyData, its SecItemDelete: nobody has taken the key it deletes in the
\* epoch of the one that deletes it.
LEMMA DropOneKey ==
    ASSUME Phone!TypeOK, OneKeyInv, NEW a \in Attempt, Phone!Alone(a), Phone!DropItem(a)
    PROVE  OneKeyInv'
<1>1. attempt \in [Attempt -> [pc : Phone!Pc, key : Key \cup {None}, epoch : Nat]]
  BY DEF Phone!TypeOK
<1>2. /\ UNCHANGED <<epoch, returned>>
      /\ \A b \in Attempt \ {a} : attempt'[b] = attempt[b]
      /\ attempt[a].pc = "drop" /\ attempt'[a].pc = "add"
      /\ attempt'[a].epoch = attempt[a].epoch
  BY <1>1 DEF Phone!DropItem, Phone!Goto, Phone!histVars
<1>3. Takes' \subseteq Takes BY <1>2, OneTake
<1>4. OneInSection' BY <1>2, SectionKept DEF OneKeyInv
<1>5. attempt[a].epoch = epoch /\ \A x \in Takes : x.epoch # epoch
  BY <1>2 DEF OneKeyInv, CreatorFirst, Creating
<1>6. CreatorFirst' BY <1>2, <1>3 DEF OneKeyInv, CreatorFirst, Creating
<1>7. TakenStored' BY <1>2, <1>3, <1>5 DEF OneKeyInv, TakenStored
<1>8. TakesAgree' BY <1>3 DEF OneKeyInv, TakesAgree
<1>9. QED BY <1>4, <1>6, <1>7, <1>8 DEF OneKeyInv

\* persistKeyData, its SecItemAdd: the first key of its epoch to be stored, so
\* that nobody has taken another.
LEMMA AddOneKey ==
    ASSUME Phone!TypeOK, OneKeyInv, NEW a \in Attempt, Phone!Alone(a), Phone!AddItem(a)
    PROVE  OneKeyInv'
<1>1. attempt \in [Attempt -> [pc : Phone!Pc, key : Key \cup {None}, epoch : Nat]]
  BY DEF Phone!TypeOK
<1>2. /\ UNCHANGED <<epoch, returned>> /\ epoch \in Nat /\ attempt[a].pc = "add"
      /\ \A b \in Attempt \ {a} : attempt'[b] = attempt[b]
      /\ attempt'[a].pc \in {"sign", "threw"}
      /\ attempt'[a].key = attempt[a].key /\ attempt'[a].epoch = attempt[a].epoch
      /\ attempt'[a].pc = "sign" => keychain' = attempt[a].key
      /\ attempt'[a].pc = "threw" => keychain' = keychain
  BY <1>1 DEF Phone!AddItem, Phone!Goto, Phone!histVars, Phone!TypeOK
<1>3. attempt[a].epoch = epoch /\ \A x \in Takes : x.epoch # epoch
  BY <1>2 DEF OneKeyInv, CreatorFirst, Creating
<1>4. \A b \in Attempt : attempt'[b].pc \notin Creating
  BY <1>2 DEF Phone!Alone, Phone!Section, Creating
<1>5. \A x \in Takes' : x \in Takes \/ (x.key = keychain' /\ x.epoch = epoch)
  <2>1. \A x \in Takes' : \/ x \in Takes
                          \/ /\ attempt'[a].pc \in {"sign", "verify"}
                             /\ attempt'[a].key = x.key /\ attempt'[a].epoch = x.epoch
    BY <1>2, OneTake
  <2>2. QED BY <1>2, <1>3, <2>1
<1>6. OneInSection' BY <1>2, SectionKept DEF OneKeyInv
<1>7. CreatorFirst' BY <1>4 DEF CreatorFirst
<1>8. TakenStored' BY <1>2, <1>3, <1>5 DEF OneKeyInv, TakenStored
<1>9. TakesAgree' BY <1>3, <1>5 DEF OneKeyInv, TakesAgree
<1>10. QED BY <1>6, <1>7, <1>8, <1>9 DEF OneKeyInv

\* deleteKey: a new epoch, in which nobody has taken a key, while nobody creates one.
LEMMA DeleteOneKey ==
    ASSUME Phone!TypeOK, OneKeyInv, Phone!DeleteKey
    PROVE  OneKeyInv'
<1>1. /\ keychain' = None /\ epoch' = epoch + 1 /\ epoch \in Nat
      /\ UNCHANGED <<attempt, returned>>
      /\ \A a \in Attempt : attempt[a].pc \notin Creating
  BY DEF Phone!DeleteKey, Phone!TypeOK, Phone!Section, Creating
<1>2. Takes' = Takes BY <1>1 DEF Takes
<1>3. \A x \in Takes' : x.epoch < epoch'
  BY <1>1, <1>2, TakeType DEF OneKeyInv, TakenStored
<1>4. OneInSection' /\ CreatorFirst' BY <1>1 DEF OneKeyInv, OneInSection, CreatorFirst
<1>5. TakenStored' BY <1>1, <1>2, <1>3, TakeType DEF TakenStored
<1>6. TakesAgree' BY <1>2 DEF OneKeyInv, TakesAgree
<1>7. QED BY <1>4, <1>5, <1>6 DEF OneKeyInv

\* The other steps of attest() take no key: they come before it has one, go on
\* with the one it has, or end.
LEMMA OtherStepsOneKey ==
    ASSUME Phone!TypeOK, OneKeyInv, NEW a \in Attempt,
           \/ Phone!Biometric(a) \/ Phone!Passcode(a)
           \/ /\ Phone!Alone(a)
              /\ \/ Phone!Start(a) \/ Phone!Challenge(a) \/ Phone!CreateKey(a)
                 \/ Phone!Sign(a) \/ Phone!Verify(a)
    PROVE  OneKeyInv'
<1> USE DEF Phone!TypeOK, Phone!histVars, Phone!Goto
<1>1. CASE \/ Phone!Start(a) \/ Phone!Challenge(a) \/ Phone!Biometric(a)
           \/ Phone!Passcode(a) \/ Phone!Sign(a)
  <2>1. /\ UNCHANGED <<keychain, epoch, returned>>
        /\ \A b \in Attempt \ {a} : attempt'[b] = attempt[b]
        /\ attempt'[a].pc \notin Phone!Section
        /\ attempt'[a].pc \in {"sign", "verify"} =>
              /\ attempt[a].pc \in {"sign", "verify"}
              /\ attempt'[a].key = attempt[a].key /\ attempt'[a].epoch = attempt[a].epoch
    BY <1>1 DEF Phone!Start, Phone!Challenge, Phone!Biometric, Phone!Passcode, Phone!Sign,
                Phone!Section
  <2>2. Takes' \subseteq Takes BY <2>1, OneTake DEF Takes
  <2>3. OneInSection' BY <2>1, SectionKept DEF OneKeyInv
  <2>4. QED BY <2>1, <2>2, <2>3, NoTakeKept DEF Phone!Section, Creating
<1>2. CASE Phone!Alone(a) /\ Phone!CreateKey(a)
  <2>1. /\ UNCHANGED <<keychain, epoch, returned>>
        /\ \A b \in Attempt \ {a} : attempt'[b] = attempt[b]
        /\ attempt'[a].pc \in {"drop", "threw"} /\ attempt[a].pc = "create"
        /\ attempt'[a].epoch = attempt[a].epoch
    BY <1>2 DEF Phone!CreateKey
  <2>2. Takes' \subseteq Takes BY <2>1, OneTake
  <2>3. OneInSection' BY <1>2, <2>1, SectionKept DEF OneKeyInv
  <2>4. QED BY <2>1, <2>2, <2>3, NoTakeKept DEF Creating
<1>3. CASE Phone!Alone(a) /\ Phone!Verify(a)
  <2>1. /\ UNCHANGED <<keychain, epoch>>
        /\ \A b \in Attempt \ {a} : attempt'[b] = attempt[b]
        /\ attempt'[a].pc \in {"threw", "done"} /\ attempt[a].pc = "verify"
    BY <1>3 DEF Phone!Verify
  <2>2. \/ returned' = returned
        \/ returned' = [returned EXCEPT ![a] =
                          [key |-> attempt[a].key, epoch |-> attempt[a].epoch]]
    BY <1>3 DEF Phone!Verify
  <2>3. \A b \in Attempt :
          \/ returned'[b] = returned[b]
          \/ /\ b = a
             /\ returned'[b].key = attempt[a].key /\ returned'[b].epoch = attempt[a].epoch
    BY <2>2
  <2>4. Takes' \subseteq Takes BY <2>1, <2>3 DEF Takes
  <2>5. OneInSection' BY <1>3, <2>1, SectionKept DEF OneKeyInv
  <2>6. QED BY <2>1, <2>4, <2>5, NoTakeKept DEF Creating
<1>4. QED BY <1>1, <1>2, <1>3

\* Every step of gate, phone and deposits keeps it.
LEMMA OneKeyKept ==
    ASSUME QrInv, OneKeyInv, [QrNext]_allVars
    PROVE  OneKeyInv'
<1>1. CASE UNCHANGED phoneVars
  BY <1>1 DEF phoneVars, OneKeyInv, OneInSection, CreatorFirst, TakenStored, TakesAgree, Takes
<1>2. CASE Phone!Next
  <2>1. Phone!TypeOK BY DEF QrInv, QrTypeOK
  <2>2. CASE Phone!DeleteKey BY <2>1, <2>2, DeleteOneKey
  <2>3. CASE Phone!AppEnds
    <3>1. /\ UNCHANGED <<keychain, epoch, returned>>
          /\ \A b \in Attempt : attempt'[b] = attempt[b] \/ attempt'[b].pc = "threw"
      BY <2>1, <2>3 DEF Phone!AppEnds, Phone!histVars, Phone!TypeOK
    <3>2. Takes' \subseteq Takes BY <3>1 DEF Takes
    <3>3. OneInSection' BY <3>1 DEF OneKeyInv, OneInSection, Phone!Section
    <3>4. QED BY <3>1, <3>2, <3>3, NoTakeKept DEF Creating
  <2>4. ASSUME NEW a \in Attempt, Phone!Proceed(a) PROVE OneKeyInv'
    BY <2>1, <2>4, LoadOneKey, DropOneKey, AddOneKey, OtherStepsOneKey DEF Phone!Proceed
  <2>5. QED BY <1>2, <2>2, <2>3, <2>4 DEF Phone!Next
<1>3. QED
  BY <1>1, <1>2
  DEF QrNext, GateMoves, PhoneMoves, Deposits, SendDeposit, DepositTaken, DepositRefused,
      allVars

\* What is returned was taken.
LEMMA ReturnedIsTaken ==
    ASSUME QrInv, NEW a \in Phone!Returned
    PROVE  returned[a] \in Takes
BY DEF QrInv, QrTypeOK, Phone!TypeOK, Phone!Returned, Takes

-----------------------------------------------------------------------------
\* Gate, phone and deposits keep their types (hpp.js, HPPClient.swift).
THEOREM QrTypeCorrect == QrSpec => []QrTypeOK
<1>1. QrInv => QrTypeOK BY DEF QrInv
<1>2. QED BY <1>1, QrInvAlways, PTL

\* No gate polls once it is destroyed or has given its verdict, however many
\* polls are under way (GateController.start, destroy, _startPolling).
THEOREM EndedGateRests == QrSpec => []NoPollingAfterEnd
<1>1. QrInv => NoPollingAfterEnd BY DEF QrInv, GateInv
<1>2. QED BY <1>1, QrInvAlways, PTL

\* A page is only told of a presence that a phone has attested, for any number
\* of attestations, deposits and polls (depositToRelay, _startPolling).
THEOREM UnlockedIsAttested == QrSpec => []UnlockedWasAttested
<1>1. QrInv => UnlockedWasAttested
  BY DEF QrInv, QrTypeOK, TypeOK, TokenInv, UnlockedWasAttested
<1>2. QED BY <1>1, QrInvAlways, PTL

\* attest() only returns a key that has been in the Keychain, whatever Keychain
\* calls fail and however attestations overlap (createAndPersistKey).
THEOREM ReturnedIsStored == QrSpec => []ReturnedWasStored
<1>1. QrInv => ReturnedWasStored BY DEF QrInv, KeyInv
<1>2. QED BY <1>1, QrInvAlways, PTL

\* A destroyed gate calls neither onUnlock nor onExpired (the two branches of
\* _startPolling that look at destroyed).
THEOREM DestroyedIsSilent == QrSpec => SilentAfterDestroy
<1>1. ASSUME [QrNext]_allVars
      PROVE  [destroyed => UNCHANGED <<unlocks, expireds>>]_vars
  <2>1. CASE UNCHANGED vars BY <2>1
  <2>2. CASE GateStep \/ TokenDeposited
    BY <2>2
       DEF GateStep, TokenDeposited, CreateFails, Created, Destroy, SlotCreated, SlotExpires,
           SendPoll, PollAnswered, PollLost, AnswerArrives, ReadyArrives, ExpiredArrives,
           WaitingArrives, PollFails, Arrives, gateVars, toldVars
  <2>3. QED
    BY <1>1, <2>1, <2>2
       DEF QrNext, GateMoves, PhoneMoves, Deposits, SendDeposit, DepositTaken, DepositRefused,
           allVars
<1>2. QED BY <1>1, PTL DEF QrSpec, SilentAfterDestroy

\* Attestations between which no key was deleted and no Keychain read failed return
\* one key, which stays the stored one (getOrCreateKey, createAndPersistKey,
\* persistKeyData, deleteKey).
THEOREM FingerprintIsStable == QrSpec => []FingerprintStable
<1>1. QrInit => QrInv /\ OneKeyInv BY QrInvInit, OneKeyInit
<1>2. QrInv /\ OneKeyInv /\ [QrNext]_allVars => QrInv' /\ OneKeyInv'
  BY QrInvKept, OneKeyKept
<1>3. QrInv /\ OneKeyInv => FingerprintStable
  BY ReturnedIsTaken
  DEF OneKeyInv, TakenStored, TakesAgree, FingerprintStable, Phone!FingerprintStable
<1>4. QED BY <1>1, <1>2, <1>3, PTL DEF QrSpec
=============================================================================
