----------------------------- MODULE IosClient ------------------------------
(***************************************************************************)
(* attest() of the iOS SDK: HPPClient.swift, BiometricAuthManager.swift    *)
(* and SecureEnclaveKeyManager.swift, for one HPPClient and the Keychain   *)
(* item of its key.  The client is an actor: calls of attest() overlap     *)
(* only where one awaits the verifier or the prompt.  getOrCreateKey and   *)
(* signRaw await nothing, so that between their Keychain calls only the    *)
(* app can end.  A second client on the same item is not modelled.         *)
(***************************************************************************)
EXTENDS Naturals

CONSTANTS
    Attempt,    \* calls of attest()
    Key,        \* keys the Secure Enclave can generate
    None

VARIABLES
    keychain,   \* the stored key, or None
    generated,  \* keys the Secure Enclave has generated
    stored,     \* keys that have been in the Keychain (history)
    attempt,    \* where each call of attest() is, and the key it has
    epoch,      \* deleteKey() calls that removed a key, and reads that failed
                \* though there was one (history)
    returned    \* what each call returned: its key, and the epoch in which it
                \* took or created it (history)

histVars == <<epoch, returned>>
vars == <<keychain, generated, stored, attempt, histVars>>

Pc == {"new", "challenge", "biometric", "passcode", "load", "create", "drop",
       "add", "sign", "verify", "done", "threw"}
Running == Pc \ {"new", "done", "threw"}
Result  == [key : Key, epoch : Nat]
NoResult == [key |-> None, epoch |-> 0]

TypeOK ==
    /\ keychain \in Key \cup {None}
    /\ generated \in SUBSET Key /\ stored \in SUBSET generated
    /\ attempt \in [Attempt -> [pc : Pc, key : Key \cup {None}, epoch : Nat]]
    /\ epoch \in Nat
    /\ returned \in [Attempt -> Result \cup {NoResult}]

Init ==
    /\ keychain = None /\ generated = {} /\ stored = {}
    /\ attempt = [a \in Attempt |-> [pc |-> "new", key |-> None, epoch |-> 0]]
    /\ epoch = 0
    /\ returned = [a \in Attempt |-> NoResult]

-----------------------------------------------------------------------------
Goto(a, from, to) ==
    /\ attempt[a].pc = from
    /\ attempt' = [attempt EXCEPT ![a].pc = to]

Start(a) ==
    /\ Goto(a, "new", "challenge")
    /\ UNCHANGED <<keychain, generated, stored, histVars>>

\* fetchChallenge
Challenge(a) ==
    /\ \E to \in {"biometric", "threw"} : Goto(a, "challenge", to)
    /\ UNCHANGED <<keychain, generated, stored, histVars>>

\* authenticate: a biometric prompt; no biometry, or any failure but a
\* cancellation, goes on to the passcode.
Biometric(a) ==
    /\ \E to \in {"load", "passcode", "threw"} : Goto(a, "biometric", to)
    /\ UNCHANGED <<keychain, generated, stored, histVars>>

Passcode(a) ==
    /\ \E to \in {"load", "threw"} : Goto(a, "passcode", to)
    /\ UNCHANGED <<keychain, generated, stored, histVars>>

-----------------------------------------------------------------------------
\* getOrCreateKey

\* A key is created whatever the Keychain holds.
AlwaysCreates(a) ==
    /\ attempt[a].pc = "load"
    /\ attempt' = [attempt EXCEPT ![a].pc = "create", ![a].epoch = epoch]
    /\ UNCHANGED <<keychain, generated, stored, epoch, returned>>

\* loadKeyData: a read that fails is taken for an item that does not exist.  The
\* Secure Enclave may refuse the handle that was read.
LoadKey(a) ==
    /\ attempt[a].pc = "load"
    /\ \/ /\ keychain # None /\ UNCHANGED epoch
          /\ \/ attempt' = [attempt EXCEPT ![a] =
                              [pc |-> "sign", key |-> keychain, epoch |-> epoch]]
             \/ attempt' = [attempt EXCEPT ![a].pc = "threw"]
       \/ /\ epoch' = IF keychain = None THEN epoch ELSE epoch + 1
          /\ attempt' = [attempt EXCEPT ![a].pc = "create", ![a].epoch = epoch']
    /\ UNCHANGED <<keychain, generated, stored, returned>>

\* createAndPersistKey: no Secure Enclave, or a new key.
CreateKey(a) ==
    /\ \/ Goto(a, "create", "threw") /\ UNCHANGED generated
       \/ /\ attempt[a].pc = "create"
          /\ \E key \in Key \ generated :
               /\ generated' = generated \cup {key}
               /\ attempt' = [attempt EXCEPT ![a].pc = "drop", ![a].key = key]
    /\ UNCHANGED <<keychain, stored, histVars>>

\* persistKeyData: SecItemDelete, whose status nobody reads, then SecItemAdd.
DropItem(a) ==
    /\ Goto(a, "drop", "add")
    /\ keychain' \in {None, keychain}
    /\ UNCHANGED <<generated, stored, histVars>>

\* The status of SecItemAdd ignored.
AddItemUnchecked(a) ==
    /\ Goto(a, "add", "sign")
    /\ \/ /\ keychain = None
          /\ keychain' = attempt[a].key /\ stored' = stored \cup {attempt[a].key}
       \/ UNCHANGED <<keychain, stored>>
    /\ UNCHANGED <<generated, histVars>>

\* SecItemAdd fails when there is an item, and may fail for other reasons.
AddItem(a) ==
    /\ \/ /\ keychain = None /\ Goto(a, "add", "sign")
          /\ keychain' = attempt[a].key /\ stored' = stored \cup {attempt[a].key}
       \/ Goto(a, "add", "threw") /\ UNCHANGED <<keychain, stored>>
    /\ UNCHANGED <<generated, histVars>>

-----------------------------------------------------------------------------
\* signRaw uses the key attest() holds, stored or not.
Sign(a) ==
    /\ \E to \in {"verify", "threw"} : Goto(a, "sign", to)
    /\ UNCHANGED <<keychain, generated, stored, histVars>>

\* postVerify, and what attest() returns.
Verify(a) ==
    /\ \/ Goto(a, "verify", "threw") /\ UNCHANGED returned
       \/ /\ Goto(a, "verify", "done")
          /\ returned' = [returned EXCEPT ![a] =
                            [key |-> attempt[a].key, epoch |-> attempt[a].epoch]]
    /\ UNCHANGED <<keychain, generated, stored, epoch>>

\* Where attest() runs from one Keychain call to the next without an await.
Section == {"create", "drop", "add", "sign"}
Alone(a) == \A b \in Attempt \ {a} : attempt[b].pc \notin Section

DeleteKey ==
    /\ keychain # None /\ \A a \in Attempt : attempt[a].pc \notin Section
    /\ keychain' = None /\ epoch' = epoch + 1
    /\ UNCHANGED <<generated, stored, attempt, returned>>

\* The app is ended; the Keychain stays.
AppEnds ==
    /\ \E a \in Attempt : attempt[a].pc \in Running
    /\ attempt' = [a \in Attempt |->
         IF attempt[a].pc \in Running THEN [attempt[a] EXCEPT !.pc = "threw"] ELSE attempt[a]]
    /\ UNCHANGED <<keychain, generated, stored, histVars>>

\* The prompts have an actor of their own; the rest runs on the client's.
Proceed(a) ==
    \/ Biometric(a) \/ Passcode(a)
    \/ /\ Alone(a)
       /\ \/ Start(a) \/ Challenge(a) \/ LoadKey(a) \/ CreateKey(a) \/ DropItem(a)
          \/ AddItem(a) \/ Sign(a) \/ Verify(a)

Next == DeleteKey \/ AppEnds \/ \E a \in Attempt : Proceed(a)

Spec == Init /\ [][Next]_vars

-----------------------------------------------------------------------------
\* Properties

Returned == {a \in Attempt : returned[a] # NoResult}

\* The key of an attestation has been stored, so that the device could sign
\* with it again (createAndPersistKey, with the failures of SecItemAdd).
ReturnedWasStored == \A a \in Returned : returned[a].key \in stored

\* "Stable across attestations until deleteKey() is called"
\* (HPPClient.swift:63), as far as the code keeps it: attestations between which
\* no key was deleted and no Keychain read failed name one key, and while
\* neither happens it stays the stored one, which publicKeyFingerprint()
\* names, whatever else fails and wherever the app ends (getOrCreateKey,
\* persistKeyData, deleteKey).
FingerprintStable ==
    \A a \in Returned :
        /\ returned[a].epoch = epoch => returned[a].key = keychain
        /\ \A b \in Returned :
             returned[a].epoch = returned[b].epoch => returned[a].key = returned[b].key
=============================================================================
