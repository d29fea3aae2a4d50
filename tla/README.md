# A TLA+ model of the Human Presence Protocol SDK

These modules specify the programs of this repository that keep state while
they talk to each other: the Chrome extension, the website SDK, the relying
party's server code and the iOS SDK. TLC checks them on small instances, and
TLAPS proves the central safety properties for every value of the constants.

Paths are relative to `src/`. To run a check, or the proofs of a module:

    tlc -workers 4 -config worker.cfg MCHppWorker
    tlapm HppSessionProofs.tla

## 1. The system

| Component | State it keeps | Operations | Talks to |
|---|---|---|---|
| Service worker, `chrome-extension/background.js` | none of its own between events: everything is in storage, in the icons of the tabs and in suspended async functions | `VERIFY_PRESENCE`, `ENROLL_REQUEST`, `HPP_SITE_DETECTED`, `REVOKE_SITE`, `GET_SESSION`, `UPDATE_SETTINGS`, `onStartup`, `activate`, two alarms, `tabs.onRemoved` | content script (messages), attestation server and relying party (fetch), storage |
| Extension storage, `chrome-extension/lib/hpp-storage.js` | sessions and inflight submissions by tab, enrolled sites, pending callbacks, settings, cached server configuration | a get/set wrapper per map, purges | every handler of the worker |
| Crypto and errors, `chrome-extension/lib/` | none | canonical payloads, signatures, challenge freshness, eTLD+1 | worker |
| Content script, `chrome-extension/content.js` | the gate, prompt or error overlay it draws and its timer, the tab's detected site | runs WebAuthn, forwards page events and worker messages | page, worker |
| Page API, `chrome-extension/hpp-api.js` | `_ready`, `_pending`, timers, `_sessionInvalid` | `requestPresence`, `getSession`, `invalidateSession` | content script, by events without identifiers |
| Website SDK, `website/src/hpp.js` | one `GateController` per gate: relay id, interval, `destroyed` | `gate()`, `destroy()`, polling | verifier's relay |
| Relying party server, `protocol/reference-implementations/example-rp-server.js` | replay store, sessions | `POST /api/hpp`, `POST /api/hpp/reauth`, `GET /api/hpp/session`, cleanup | `verify-node.js` |
| Certificate verification, `verify-node.js`, `verify-python.py` | none; the Express middleware uses a replay store its caller gives it | `verifyPresenceCertificate`, `createHppMiddleware` | relying party |
| iOS SDK, `ios/Sources/HPP/` | one Keychain item, the Secure Enclave's keys | `attest()`, `depositToRelay()`, `deleteKey()`, `publicKeyFingerprint` | verifier, Keychain, biometric prompt |
| Popup, options, onboarding pages | the form they show; the popup also one countdown interval | `GET_SETTINGS`, `UPDATE_SETTINGS`, `GET_SESSION`, `REVOKE_SITE`, "Clear All Sessions" | worker, settings, session storage |
| Attestation server, verifier, relay | not in the repository (`protocol/openapi.yaml` describes them) | issue, enroll, relay slots | everyone |
| Verification test suite, `verify-test-suite.js` | none | asserts a verdict for each altered certificate | `verify-node.js` |
| Simulator, demo pages, documents, schemas | none | | |

What is hard in it:

* **Storage is read, changed and written back over two awaits.** The worker
  runs any number of handlers at once, and each wrapper of `hpp-storage.js`
  replaces a whole map with a changed copy of what it read. Two handlers undo
  each other's change.
* **The worker ends whenever Chrome likes.** All suspended handlers are gone,
  the session storage stays. `recoverInflight` takes over what was being
  submitted, but only when the browser starts or a new worker is activated.
* **Facts are read, then used after awaits**: the page of a tab, the list of
  sites, the freshness of a challenge.
* **Replies are lost**: the server can have issued a certificate or registered a
  credential whose reply never arrives.
* **Page events have no identifier**, so a certificate, an error or a session
  settles every promise that is open at that moment.
* **Polls overlap**: the website SDK sends one every tick, answered or not.
* **Replay stores expire**, are swept at any time, and in the middleware are
  asked and written over two awaits.
* **The Keychain fails, or the app ends**, between a load, a delete and an add, while other calls of
  `attest()` wait at the prompt or for the verifier.
* **One icon, many writers**: verifications, detection, enrollment, dismissal and the minute
  alarm all set the icon of a tab, each after awaits of its own.
* **One object, two forms**: popup and options page each send the whole form they loaded
  earlier, and `updateSettings` merges it over two awaits.
* **One certificate, four lists of its fields**: content script, worker, server and relying
  party each name them on their own.

What makes each part correct:

* worker and storage: a tab's session is a certificate issued for that tab after
  user verification; nothing is stored or announced that was not issued; no
  request gets two verdicts; only confirmed origins are enrolled, each with its
  own callback; a certificate is relayed only within the site it was issued for;
  every request is answered, recovered entries leave, expired sessions leave;
* page API: the open promises, `_pending` and the timers agree, all promises settle;
* website SDK: a gate stops polling and falls silent when it is destroyed or
  decided, and always ends;
* relying party: no `cert_id` of a valid certificate is granted twice, and the store drains;
* iOS: a result names a key that was stored, and the fingerprint is stable; a page is told
  of a presence only if a phone attested it;
* tab: icon and overlays tell the truth in the end, whichever handler writes last;
* settings: the server that was chosen is the one in use, the popup counts one session down;
* certificates: whoever is let in came with a certificate that the HPP server signed as it came, the library
  passes its test suite, and accepts what the extension relays.

`PROJECT.json` lists the components with their status and every hazard at
its line, with the properties that guard it or the reason none does.

## 2. The modules

    HppStorage     the maps, the get/set steps of the wrappers, suspended handlers
      HppAttest    VERIFY_PRESENCE, submitAttestation, relayCertToRP
        HppLifecycle   recovery, alarm, closing tabs, Chrome ending the worker
          HppEnroll    HPP_SITE_DETECTED, ENROLL_REQUEST, REVOKE_SITE
            HppWorker  Init, Next, fairness, properties, refinement of CertLife  (MCHppWorker)
              HppWorkerProofs    types, the origin of suspended handlers, enrolled sites and callbacks
                HppSessionProofs sessions and tabs, one verdict for a request
                  HppCertLifeProofs  who is told of a certificate; the worker implements CertLife
    CertLife       abstract: the life of a certificate
    TabUi          icon, gate, prompt and error overlay of a tab           (MCTabUi)
      TabUiProofs
    ExtensionPages settings, server configuration, the popup's countdown   (MCExtensionPages)
      ExtensionPagesProofs
    PageApi        window.HPP with the events that settle it               (MCPageApi)
      PageApiProofs
    Certificates   certificates as data, verifyPresenceCertificate, the test suite
      ChallengeFlow    fetchChallenge with its checks                      (MCChallengeFlow)
      CertFlow         one attestation from the authenticator to the relying party
      RpServer         the routes and the middleware                       (MCRpServer)
        RpServerProofs
    WebsiteGate    GateController
      QrLogin      the gate with a phone (INSTANCE IosClient) and the deposits (MCQrLogin)
        QrLoginProofs
    IosClient      attest() and deleteKey()

### The extension (HppStorage to HppWorker)

`sessions`, `inflight`, `sites` and `pending` are the four stored maps. A
handler invocation is a slot `k \in Task`. `task[k].pc` names the await at which it
is suspended, and the other fields are its local variables. The code between two
awaits is one action. A storage wrapper is two actions: a `Get...` puts a copy
of the map in `seen...[k]`, and the writing action of the handler replaces the
map with a changed copy of it. So any number of handlers can interleave between
the two awaits, as they can in the code.

A request `r \in Req` stands for everything made for one verification: challenge,
nonce, assertion, `cert_id` and certificate. Its `req[r]` holds what the
properties need (tab, origin, deadline, time of the inflight entry, expiry), and
`marks[r]` records what has happened to it. A callback URL is the origin it
resolves to, and `RpOf` is `computeRpId`.

`submitAttestation` is called by `onVerifyPresence` and by `recoverInflight`;
`EndSubmit` continues with whichever called it. `AttestReply` separates what the
server does (`issues`) from what arrives (`reply`), so a certificate can be issued
and its reply lost. `VerifyThrows` and `RecoverThrows` are the path of a body that
is not JSON, on which `submitAttestation` leaves before `clearInflight`.

`WorkerEnds` is Chrome ending the worker: the handlers and their copies are gone and
storage stays. `Activate` keeps the session storage, `BrowserStarts` wipes it;
both run `recoverInflight`.

### The life of a certificate (CertLife)

`CertLife` says what the extension promises without storage, handlers or awaits: a page asks,
its user approves, the server issues, and only then may the certificate be held, by the tab that
asked, relayed, within the site that asked, and shown. What is held may go at any time and come
back. `HppWorker!ImplementsCertLife` maps to it: `phase` is read off `marks`, `asker`
off `req`, `holder` is `sessions`, `relayed` is `delivered` and `shown` is `presented`. A whole-map
write that brings back an entry is a `Hold`, which is legal only because the entry was right when
it was read.

### The tab (TabUi)

A verification is seen from its outside: between the click and its end it is one step, which
`HppAttest` models in full. What follows, the icon, `HIDE_GATE`, `SHOW_ERROR` and `CERT_READY`,
is one step per message, and a message reaches whatever page the tab shows when it arrives. The other
handlers (`onSiteDetected`, `onEnrollRequest`, dismissal, the minute alarm) are slots as in
`HppStorage`. `updateIconForTab` is one step for its four calls of `chrome.action`, which all
take the same state. `earned` and `broken` are history variables.

### Settings and popup (ExtensionPages)

The two panes share no state, so that a behaviour uses one of them (`pane`). `hpp_active` stands for the four
settings that both pages edit, `override` for the two that only the options page has. A page sends the form it
loaded, which may be old by then; `updateSettings` is a read and a write. The status pane keeps answers to
`GET_SESSION` under way, in any order, and its intervals by identifier, so that one that nothing
can clear would show.

### Certificates (Certificates, ChallengeFlow, CertFlow)

A certificate is a function from field names to values, `Undefined` for a key that is missing. A
signature is a key and the part of the object it was made over, so that two lists of signed fields
make different signatures. `verifyPresenceCertificate` is the checks in their order, the verdict being the
first that fails, and `SuiteTests` is the list of cases of `verify-test-suite.js`.
`ChallengeFlow` is
`fetchChallenge` with an honest server and clocks that differ. `CertFlow` follows one attestation through the names that
content script, worker and library give its fields; it starts where a challenge has been accepted, and so do
the modules of the worker.

### The page API (PageApi)

A call or a query is an element of `Call` or `Query`. `arriving` holds events
on their way to the page, in any order. `CertReady` and `ErrorShown` settle all of
`pending`; `SessionResponse` answers all listeners. The extension may stay silent
(`Fails` without an event), as the early returns of `submitAttestation` do.

### The website SDK and the phone (WebsiteGate, IosClient, QrLogin)

`Poll` bounds the polls under way at once. A poll is sent, answered with what the
slot is at that moment (or lost), and its answer is on its way until it arrives.
The slot may receive a token or expire at any time.

Each call of `attest()` is a program counter over challenge, prompts, Keychain
load, key creation, delete, add, sign and verify. `HPPClient` is an actor (`HPPClient.swift:31`), so calls of one client
overlap only at an await: the fetch of the challenge, the prompt, the submission. From the creation of a key to its
signature nothing is awaited (`:92-119`); the module keeps these Keychain calls as steps, since each may fail and the app may
end between them, but lets no other call of the client run there (`Section`, `Alone`). The prompts belong to an
actor of their own and go on. `epoch` is a history variable: it counts what may rightly or wrongly take a key away, calls of `deleteKey()`
that removed one and Keychain reads that failed though there was one. A second `HPPClient` on the same Keychain item,
which the documents advise against (`:16-18`), is not modelled.

`QrLogin` puts the two together: `depositToRelay` sends the token of an attestation that returned
to the slot the gate polls. The slot may take it though the answer is lost, the caller may send it again, and the gate may have
been destroyed or have expired by then.

### The relying party (RpServer)

A request carries a certificate to a route: `Body[c]` is the object that arrives, `Issued[c]` what was signed and
`Issuer[c]` the key it was signed with, so that a body can be a copy with other fields, of another signer
or for another site. A handler runs `verifyPresenceCertificate` on the body (`Receive`) and goes on after that await in a
step of its own. In the two routes of the example server `has`, `set` and
the creation of the session are one step, because nothing is awaited between them;
in the middleware `await has` and `await set` are two (`MiddlewareHas`,
`MiddlewareSet`). The stores map `cert_id` to a time, both read from the body as in the code. One
clock serves expiry, tolerance and the time to live of a store entry. The example passes `expectedRpId` on both
routes, and the middleware's caller is taken to do so as its documentation says (`RpId # Null`).

## 3. What the runs check

| Run | Instance | Properties | Shows |
|---|---|---|---|
| `worker` | 2 tabs, 2 sites, 2 requests, 2 handlers, no ticks; tab 2 navigates; verify, activate, worker ends, browser starts; issued, bad signature | `TypeOK` `NotifiedOnlyIssued` `SessionBelongsToTab` `OneVerdict` `ImplementsCertLife` | over crashes and recoveries racing new verifications, only issued certificates are stored and announced, in their own tab, only a resubmitted request can get two verdicts, and the whole implements `CertLife` |
| `settles` | 2 tabs, 1 request, 2 handlers, clock to 1, `Life` and `Stale` 0; verify, close, alarm, activate, clear; issued, malformed body | `VerifyAnswered` `RecoveredLeaves` `ExpiredPurged` | requests are answered, recovered entries and expired sessions leave, whatever stale maps are written back |
| `sites` | 2 tabs, 2 sites of which one is enrolled, 1 request, 2 handlers; verify, detect, enroll, revoke; issued, revoked, lost reply | `EnrolledOnlyConfirmed` `CallbackOfOwnOrigin` `RelayStaysInSite` | stale lists and pending callbacks never enroll an unconfirmed origin or lend a site another's callback, and a certificate never reaches a callback of another site |
| `page` | 2 calls, 2 queries | `TypeOK` `PendingExact` `CallsSettle` `QueriesSettle` | the promise bookkeeping is exact, and everything settles |
| `tab` | 1 tab that is loaded twice, 2 verifications, 1 other handler, clock to 2, `Life` 1, `Soon` 2 | `TypeOK` `ActiveEarned` `VerifyingEnds` `ErrorLeaves` `ExpiringShown` | the icon never claims what nothing earned and warns before a session ends, errors leave, and a gate does not wait for a verification whose end was told |
| `settings` | 2 pages, 2 handlers, 1 override; 2 intervals, clock to 2 | `TypeOK` `OverrideAsChosen` `CountdownOwned` `ConfigFollows` `CountdownEnds` | the chosen server survives the saves of a stale form and its configuration prevails; the popup counts one session down and ends |
| `rp` | 3 requests, 6 certificates (two ids that expire at 1 and 2, a copy with an unsigned field changed, one altered after it was signed, one of another signer, one of another site), clock to 3, tolerance 2, all routes | `TypeOK` `OnceWhileValid` `PassedOnlyUnused` `EntriesLeave` `LetInGenuine` `SuiteHolds` | replay prevention of the example server and the middleware, through expiry and the tolerance after it; only genuine certificates are let in; the library passes its test suite |
| `qr` | 2 overlapping polls, 2 attestations, 2 keys | `QrTypeOK` `NoPollingAfterEnd` `UnlockedWasAttested` `ReturnedWasStored` `FingerprintStable` `SilentAfterDestroy` `GateEnds` | a login by QR code with `destroy()`, lost and repeated deposits, Keychain failures and app ends at any time |
| `challenge` | violation; 2 nonces, clocks apart by -2, 0 or 1 | `GenuineIsVerified` | finding 3 |
| `certificate` | violation; 1 attestation | `RelayedIsAccepted` | finding 4 |
| `inflight_resolved` | violation | `InflightResolved` | finding 1 |
| `presented` | violation | `PresentedToItsSite` | finding 2 |

**Bounds.** `Task` bounds the handlers suspended at once: two are what it takes for
a lost update, and a third adds no new kind of overlap, since each map is
written by whole-map replacement. `Req` bounds the verifications: two let one be
recovered while another is submitted in the same or another tab. `Tab` and
`Origin` have two elements each, one to be mixed up with the other. Deadlines,
lifetimes and the inflight limit are 0 to 2 units of a clock bounded by `MaxTime`, which
is enough to be before, at and after each of them. `Events`, `Replies`, `Routes` and
`Sites0` select what happens in a run, so that each run spends its states on one
question; between them the runs let everything happen. In `worker` and `sites` the clock stands still:
their properties are about who holds and hears what, which late answers of the server reach without it, and
what depends on time is in `settles`, where a tick makes a session expire and an entry stale.
In `worker` an enrolled list never changes. `MaxLoads` of 2 in `tab` lets a message meant for a page
reach its successor; one tab is enough, because handlers of different tabs share nothing there
but the alarm's loop. Two answers to `GET_SESSION` and two intervals let an
old countdown meet a new one. The six certificates of `rp` make the library's checks of signature, signer, site and time each
decide in some state, and let two requests come with one `cert_id` in two bodies; the tolerance outlasts the earlier expiry by
enough for the certificate to be accepted after its entry ended.
Requests and handlers are symmetric in the safety runs; no run with a
liveness property uses symmetry. `Poll`, `Call`, `Query`, `Attempt` and `Key`
have two elements: two polls let a late answer meet the end of the gate, two attestations with two keys let one be suspended
while the other creates, loses or replaces the key. The theorems of section 5 hold for any numbers of them.

`CHECK_DEADLOCK` is off throughout: every instance has finitely many requests, calls
and ticks, after which the system rightly rests.

**Fairness.**

* `HppWorker!FairSpec`: weak fairness of `Resume(k)`. A suspended handler awaits a
  fetch, a message, a WebAuthn prompt or a storage call; the first two answer or
  fail, the third has a timeout, storage calls return. Fairness is on the handler
  as a whole, never on a particular outcome.
* `AlarmSpec` adds that time passes and that the minute alarm fires again and
  again. It is strong fairness because a bounded model may have all slots taken
  at times; the real worker has no such limit.
* The worker is not ended in `settles`: nothing in the code answers a message
  whose handler was ended, or runs without an event.
* `PageApi!FairSpec`: the page's own timers fire. Nothing is assumed of the extension.
* `QrLogin!QrSpec` has the fairness of `WebsiteGate`: the interval ticks, requests answer or fail, a slot's life
  ends, and a page that goes on polling is answered again some time (strong fairness of
  `PollAnswered`). Without the last a gate behind a dead network polls for ever. Nothing is
  assumed of the phone.
* `TabUi!FairSpec`: promises settle, the page's timers fire, time passes, and the minute alarm fires again and
  again (strong fairness for the same reason as in `AlarmSpec`). Nothing is assumed of the user.
* `ExtensionPages!FairSpec`: time passes and the browser calls the popup's intervals. `ConfigFollows` names its
  own condition, that refreshes keep succeeding: an alarm fires every five minutes, but the
  network is nobody's to promise.
* `RpServer!FairSpec`: time passes and the five-minute interval fires.

## 4. Findings

1. **An inflight entry can stay for ever.** `chrome-extension/docs/extension-spec.md:87`: "On
   service worker restart, the worker checks hpp_inflight_map and either resumes or safely
   abandons in-progress attestations". `recoverInflight` is called from `onStartup`
   and `activate` (`background.js:111`). Neither fires when Chrome ends an idle worker
   and loads it for the next message or alarm. Run `inflight_resolved`.
2. **CERT_READY can reach a page of another site.** `extension-spec.md:446` (INV-5) wants the
   `rp_id` to match the current top-level frame before the certificate is presented.
   `submitAttestation` sends it to the tab (`background.js:470`), which may have
   navigated during the POST, the storage writes or the relay. Run `presented`.
3. **A challenge signed as documented is refused.** `extension-spec.md:188`: "server_sig (ECDSA P-256 over all
   fields)". `fetchChallenge` adds `received_at` to the object (`background.js:356`) before
   `verifyChallengeSignature`, which verifies every field but `server_sig`
   (`lib/hpp-crypto.js:120`). Run `challenge`.
4. **The relayed certificate is not one the libraries accept.** `verify-node.js:17-18`: "Platform-agnostic — works
   with certificates from any HPP client". The content script returns `clientDataJSON` (`content.js:287`), the worker reads
   `client_data_json` (`background.js:395`), so a required field is missing; and the extension verifies the signature over 7 fields
   (`lib/hpp-crypto.js:71`), the libraries over 10 (`verify-node.js:56`), so no signature satisfies both. Run `certificate`.

The findings 3 and 4 are about single steps at the ends of the flow. The other modules begin behind them: a
challenge that verified, a certificate in the format its reader expects.

Other places where code and documents part, seen while reading and not made into runs:

* `hpp_inflight_map` is "written before the POST and cleared on success or error"
  (`extension-spec.md:79-88`). An overlapping `setInflight` or `clearInflight` can lose the entry or bring it
  back (`hpp-storage.js:83`, `:96`), and a body that is not JSON leaves it (`background.js:426`).
* Callbacks "MUST resolve to the same origin as the page that initiated verification"
  (`protocol/docs/security-invariants.md`, INV-6). The relay takes the first enrolled site with the same
  `rp_id` (`background.js:464`), which may be another origin of the site. `RelayStaysInSite` states what does hold.
* `verified` means "already at your callback endpoint" (`API.md:122`), but a failed relay is only
  logged (`background.js:483`).
* The `error` event comes for "any failure in the verification flow" (`API.md:123`, `API_EVENTS.md:18`).
  Several early returns of `submitAttestation` (`background.js:409`) tell the page nothing, and a
  timeout of `requestPresence` emits no event (`hpp-api.js:135`).
* Freshness "must be evaluated at the moment of use" (`extension-spec.md:204`). It is evaluated once, in
  `fetchChallenge` (`background.js:290`).
* When the reply of `POST /v1/enroll` is lost (`background.js:585`), the server has a credential that the
  extension does not know of, and nothing reconciles them.
* `getSession()` returns null after `invalidateSession()` (`API.md:130`), unless the query was already
  waiting (`hpp-api.js:171`). One session response answers every open query (`:172`).
* A certificate is accepted `clockToleranceMs` past its expiry, while its replay entry ends
  at expiry (`example-rp-server.js:217`), so it can be granted again in that interval. The
  documented time to live is the one the code uses. `OnceWhileValid` ends at expiry for this reason.
* `publicKeyFingerprint` is "stable across attestations until deleteKey() is called"
  (`HPPClient.swift:63`). A Keychain read that fails for another reason than a missing item, as on a locked
  device, is taken for a missing key (`SecureEnclaveKeyManager.swift:126`), and a new one replaces it. `FingerprintStable` says that for
  one client nothing else does.
* `onUnlock` "Fires once" (`website/README.md:59`). Clearing the interval (`website/src/hpp.js:196`) does not stop
  polls already under way; two that were answered `ready` both call it. And `_fail` (`:99`) does not look at
  `destroyed`, so that `onError` can be called of a gate that is gone.
* The caller of the library must reject duplicates (`verify-node.js:156`); `createHppMiddleware` (`:284`) awaits
  `has` and then `set`, so two requests that both ask before either writes are both passed. `PassedOnlyUnused` states what does hold.
* "All six icon states transition correctly through a full session lifecycle" (`extension-spec.md:695`).
  The alarm purges first and then looks only at tabs that have a session (`background.js:141`, `:678`), so
  the icon of a purged one stays as it was. `ExpiringShown` is about the time before.
* The gate says "Verifying" until the page is told something. The early returns of `submitAttestation` send neither
  `HIDE_GATE` nor `SHOW_ERROR`, so that the gate's button stays disabled; `VerifyingEnds` excludes them. A gate may also appear
  though a session was stored just before: `onSiteDetected` looks, awaits, and then shows it.
* An expired challenge is fetched again once (`extension-spec.md:204`, `:559`, `:667`). `fetchChallenge` reports
  the error and nothing retries.
* Revocation "clears active session state" (`extension-spec.md:367`). `REVOKE_SITE` (`background.js:638`) removes the site only;
  a DELETE that fails is swallowed (`:653`).
* The options page's `max_clock_skew_ms` is saved and only displayed (the worker takes it from the server configuration); `hpp_active` set to false keeps `onSiteDetected`
  from showing anything but does not stop `VERIFY_PRESENCE`; a save of the popup sends the form it loaded and so
  takes back what the options page changed meanwhile (`OverrideAsChosen` is about what the popup does not send); `isServerConfigStale` is called nowhere.
* A status is 'issued' in the code and 'ISSUED' in `extension-spec.md:521`.
* Enrollment sets the icon to active (`background.js:607`) though there is no session yet;
  `ActiveEarned` counts it as earned.

## 5. What is proved

TLAPS proves these for all tabs, origins, sites, requests, handlers, clocks, replies and
events, from the named assumptions of the modules. They say that the constants have their types and that `None` is
none of the data (`WorkerAssumption`, `PageAssumption`, `TabUiAssumption`, `PagesAssumption`, `RpAssumption`, `QrAssumption`);
that the sites a behaviour starts from have callbacks of their own and an empty Keychain is no key; that
`Undefined` and `Null` are no values of a field (`AbsentAssumption`); and, in `RpAssumption`, that a body carries the signature that
was made over what was issued, whatever its other fields are, and that the HPP server signs one expiry for a `cert_id`. TLC evaluates each of them on the instances.

The extension:

* `HppWorkerProofs!TypeCorrect`: `TypeOK`, together with `OriginKnown`: a suspended verification
  knows the page that asked. It is needed because a request's `origin` may be `None` in general, while the actions apply
  `RpOf` to it. One lemma per group of actions; the storage writes go through
  lemmas on what `PutEntry`, `PurgeExpired`, `PutSite`... return.
* `HppWorkerProofs!EnrolledIsConfirmed` and `!CallbackIsOwn`. The inductive invariant `SiteInv` extends the two
  properties from the stored lists to every copy a suspended handler holds (a stale
  copy may be written back at any time), and to the locals of a handler on its way to
  `addEnrolledSite`: its origin is confirmed and its callback its own.
* `HppSessionProofs!SessionIsOfTab`. `SessionInv` says of `sessions`, `inflight`, all copies of
  them and every recovery plan that the entry of tab `t` is a request of `t` with the marks it
  should have (`MapsInv`), and of each handler that it works for a request of its
  own tab with the marks its program counter implies (`HandlerInv`). `HistoryGrows` says that marks are only
  added and a request that has been asked keeps its tab. So an entry that was right when
  it was read is right when it is written back, which is the whole argument for the non-atomic
  wrappers.
* `HppSessionProofs!OneVerdictOnly`. `VerdictInv` says that a request has at most one handler of `onVerifyPresence`,
  that this one has not returned, that a recovery at work for a request has marked it as resumed, and that who was
  told a verdict was told by a handler that returned, or by a recovery. A step `SpeaksOnce`: it says nothing, or
  gives one verdict and returns, or belongs to a recovery.
* `HppCertLifeProofs!RelayIsInSite` and `!NotifiedIsIssued`. `RelayInv` says that a handler at the relay or at the
  announcement works for a stored request, that stored requests were issued, and that nobody is told
  of a request before it is stored. It rests on the two invariants before: `SessionInv` for what `setSessionForTab`
  stores, `SiteInv` for the callback that the lookup by `rp_id` finds. Most steps are `Silent`; three are not.
* `HppCertLifeProofs!WorkerImplements`: initial states of `HppWorker` are initial states of `CertLife`, and every step of every handler is
  a step of it or leaves all it sees unchanged. Steps that write `sessions` need `SessionInv` (whatever is written back
  was issued for its tab), the relay needs `RelayInv`, and the announcement that the request was issued; so
  the refinement is a corollary of the invariants before, one lemma per kind of step.
* `PageApiProofs!PageTypes` and `!PendingIsExact`. With its types `PendingExact` is inductive by itself: every place that
  settles promises also empties `_pending` and clears the timers of the same calls.
* `TabUiProofs!TabTypes` and `!ActiveIsEarned`. `ActiveEarned` is not inductive: an icon may be set late, from a session or a
  state read earlier. `EarnedInv` adds that a stored session, a session in any copy a handler has read, and every handler and
  verification on its way to the active icon belong to a tab that has earned it. `earned` only grows, so that what was
  read stays true.
* `ExtensionPagesProofs!PagesTypeCorrect`, `!OverrideIsChosen`, `!CountdownIsOwned`. `SettingsInv` adds to `OverrideAsChosen` that a save of the popup that has merged
  and waits to write carries the override that is set, unless it has become stale, and that a handler holds a form of its own page; the lemma
  `MergeType` says what `Merge` returns. `CountdownOwned` needs its types only (`CountdownInv`).

Relying party, website and phone:

* `RpServerProofs!RpTypes` and `!ValidGrantedOnce`. `RpInv` adds to the types that the `cert_id` of a request that was
  granted is in the store until that certificate's expiry (`Covered`), that granted
  requests are finished, and that one past its verification carries a certificate. Sweeping at any time keeps `Covered` because it
  drops only entries whose time is over. Nothing is assumed of the bodies: it holds of copies with a changed expiry too.
* `RpServerProofs!LetInIsGenuine`. `VerifiesGenuine` is what the library's verdict means: the checks that passed, and
  that a signature over the canonical payload shows each signed field to be as it was issued (`SignedAsIssued`, from `PayloadTells` and
  `PayloadIgnores`: a payload shows exactly its signed fields). `GenuineInv` carries it from the await of the verification to the grant: requests
  that go on after it, and those let in, carry genuine certificates, and who is let in has ended and takes up no other.
* `RpServerProofs!PassedOnce`. `SharedCovers` says of the middleware's own store what `Covered` says of the other. Here it needs
  `GenuineInv`: two requests may both be past `has` with one `cert_id`, and the second `set` overwrites the entry of the first, which still lasts long
  enough only because genuine certificates with one `cert_id` expire together (`GenuineExpiry`).
* `RpServerProofs!SuiteAlwaysHolds`, `!AlteredIsRefused`. The first goes through
  the cases of the test suite for an arbitrary time; `Built` says what a built certificate holds. The second generalises the suite's tampering case to every signed field, value,
  key, relying party, time and tolerance.
* `QrLoginProofs!UnlockedIsAttested`, `!ReturnedIsStored`, `!EndedGateRests`, `!DestroyedIsSilent`, `!QrTypeCorrect`. `QrInv` has four parts: the types;
  `GateInv` (the interval runs only while the gate polls and is not destroyed); `KeyInv` (an attestation
  past the add works with a key that was in the Keychain); `TokenInv`, which follows the token backwards: a call of
  `onUnlock` or a poll answered `ready` means that the slot took a token, the slot took it of a deposit that was sent, and
  a deposit is sent only of an attestation that returned, which stays returned.
* `QrLoginProofs!FingerprintIsStable`. `OneKeyInv` looks at every key an attestation has taken, returned or not, with the epoch in which it took it: at
  most one call is between its Keychain calls (`OneInSection`); while one creates a key, none has been taken in this
  epoch (`CreatorFirst`), so that a delete whose add fails takes nothing from anybody; a key taken in this epoch is the one in the Keychain
  (`TakenStored`); and keys taken in one epoch agree (`TakesAgree`).

So every safety property that a passing run checks, the refinement included, is proved for all values of the constants. Only
model-checked are the liveness properties (`VerifyAnswered`, `RecoveredLeaves`, `ExpiredPurged`, `CallsSettle`, `QueriesSettle`, `VerifyingEnds`,
`ErrorLeaves`, `ExpiringShown`, `ConfigFollows`, `CountdownEnds`, `EntriesLeave`, `GateEnds`): they need fairness and `ENABLED`, which
this prover cannot reason about. The modules have no RECURSIVE operator and nothing that needs induction over data.

## 6. What is abstracted or not modelled

* Signatures, keys and payloads of the worker: a reply that "verifies" or does not (`badsig`). What a signature covers
  is in `Certificates` and the modules that extend it. Credential ids are left out, since an origin has at most one entry in the list.
* The array of enrolled sites is a set. Where the code takes the first match the model takes any.
* The attestation server (external) issues at most once per nonce and only within the window. The relay
  slot of the verifier is external too.
* Chrome (external): session storage survives the end and the activation of a worker and is empty after a
  browser start; tab ids of a restored browser stand for those it had.
* Calls of `chrome.storage` do not fail. `HppWorker` leaves out what touches none of its maps: icons and overlays are in `TabUi`,
  settings and the server configuration in `ExtensionPages`. The three are not composed; they meet only in the messages each of
  them models (a verification's outcome in `TabUi`, a session's expiry in `ExtensionPages`).
* `onSiteDetected` ends by reading the session and showing the gate or not: in `TabUi`.
* `JSON.stringify` is modelled by the fields it keeps (a key that is undefined is left out) and ECDSA by the
  key and the payload. The import of the pinned key, encodings, the order of keys and sign counts are left out, with the cases of the
  test suite about them.
* Error texts, logs, the lists, search and diagnostics that popup and options page only display; the
  onboarding page, which is static.
* The restart of the example server, which loses its in-memory stores: the code says the store is for
  development only.
* What the Python verifier raises on malformed input; its checks are those of the Node version, in the same order.
* A second `HPPClient` on one Keychain item, in the app or beside it.
* `TabUi` purges expired sessions in one step; that the purge reads, awaits and writes is in `HppStorage`.
* The worker compares and looks up sites by the challenge's `rp_id` (`background.js:389`, `:464`), which nothing compares
  with the page's; the server (external) is taken to answer with the `rp_id` it was asked for (`:339`), so the modules write `RpOf[origin]`.
* What the slot does with a second deposit: `QrLogin` lets it keep the session it has.
* The simulator, demos and documents have no state.

## 7. Plan

Done: the modules above, in the order storage, attestation, life cycle, enrollment, worker,
gate, relying party, page, iOS, then the abstract `CertLife`, the certificates and their two flows, the login by QR code, the
tab, and the pages; the theorems of section 5.

Next, proofs: what recovery promises when a lost update removed an entry, as an invariant of its own; an abstract
specification of a relying party that grants once, with `RpServer` shown to implement it.

Then, extending the model: `PageApi` composed with the worker's session map, for `GET_SESSION` after a navigation; what
recovery promises when a lost update removed an entry; `TabUi` with the handlers of `HppWorker` in place of its
one-step verification.
