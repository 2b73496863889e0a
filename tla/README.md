# A TLA+ development for libid-server-rs

`libid-server-rs` turns "I control this GitHub account" into a proof bundle a wallet
can submit on-chain. It is one process with two in-memory maps, a handful of axum
handlers and one detached task per claim; there is no database and no key. What is
hard about it is not any one function but that a claim passes through two locks, a
browser redirect that anybody may replay or alter, a token exchange and a proving
session that may never answer, and a task that outlives the request that spawned it.
These modules model that, check it with TLC on small instances and prove every safety property
they check with TLAPS, for any number of claims and any settings. Around it stand smaller modules
for the parts that keep no state on the server but have to get a value right: the OAuth client,
the settings, the CORS patterns, the link formats, the popup page and the Gmail relay.

## The system

| Part | Source | State it keeps | Operations | Talks to |
|---|---|---|---|---|
| State store | `state.rs` | `challenges`, `results`: two maps, each behind its own `RwLock` | `create_challenge` (two critical sections), `consume_challenge`, `set_status`, `status_json` | all routes and the task |
| Challenge route | `routes/challenge.rs` | none beyond the request | `challenge_github` | store |
| Callback route | `routes/callback.rs` | handler locals, kept across three awaits | `callback_github`, the spawned task, `run_verification` | store, OAuth client, proving flow |
| Result route | `routes/result.rs` | none | `result_github` | store (read) |
| OAuth client | `oauth.rs` | none | `build_auth_url`, `exchange_code_server_side` | GitHub |
| Proving flow | `flow/mod.rs` | one session per task | `run` and its checks | notary, GitHub through MPC-TLS |
| Platform table | `platform.rs` | constants | `extract_user` | proving flow |
| Server lifecycle | `main.rs` | whether the process serves | serve, graceful shutdown, exit | everything |
| Startup, configuration | `lib.rs`, `config.rs` | `Runtime`, immutable | `build_state` | everything |
| Router and CORS | `routes/mod.rs` | immutable patterns | the origin predicate | browsers |
| Gmail relay | `routes/gmail.rs` | none | `gmail_callback_target` | browsers |
| Popup page | `routes/callback.html` | none | tells its opener, closes | the web app |
| Types, errors | `types.rs`, `error.rs` | none | | everything |

Behaviours that are hard, and the properties they call for:

* **Two locks, two clocks.** `create_challenge` puts the challenge in one map and its slot in
  the other. In between, other requests sweep both maps and the client may hang up. The slot
  of a challenge that can still be consumed must be there (`LiveChallengeHasSlot`).
* **Replayed and altered redirects.** The callback's URL is the browser's. A challenge must be
  held by at most one callback, ever (`SingleUse`), and a proof must go to the key and wallet
  the challenge was minted with (`ProofMatchesRequest`).
* **Three observers.** The popup reads a page, the opener polls a slot, the server has its
  handler and its task. They may not contradict each other (`PopupAgrees`, `FinalAnswerStays`,
  `ImplementsLifecycle`).
* **Nothing has a timeout.** GitHub, the notary and the client may each fall silent; polling
  must end and a shutdown may never be held up by a proof (`PollingEnds`, `DrainEnds`).
* **Nothing survives the process.** Challenges from before a restart come back in redirects and
  polls (`OnlyMintedHere`, `ImplementsLifecycle`).
* **Four parties to one token.** A code, a verifier, an account and a challenge meet in the exchange,
  and a proving session goes on from there with a key, a wallet and a token. What is served at the
  end must have them all from one claim (`TokenIsTheApprovers`, `ServedBundleIsGood`), also when it
  comes late (`AcceptedIsServed`).
* **The browser is a participant.** It copies links badly (`LinkLeadsBack`), handles messages late
  (`NewsMatchesPoll`), goes back in its history (`HandedOnce`) and keeps pages (`NeverStale`).
* **Settings are text.** An address, a list of patterns or a URL with a slash too many must mean what
  its author meant, or stop the start (`AddressTypoNeverServes`, `AdmitsOnlyCovered`,
  `DocumentedFormsWork`, `OnlyToTheApp`).
* **The notary may be broken.** `flow/mod.rs` promises that this shows as a failed claim and
  never as a bundle the contract refuses (`BundleIsBindable`), that sessions do not trade proofs
  (`BundleIsOwn`), and that an honest answer is not refused (`HonestAnswerAccepted`).

## Modules

```
AppState          the store: two maps and their critical sections
  ClaimFlow       routes, task, clients, clock and process over that store
    ClaimProving      ClaimFlow in which each task is a session of ProofFlow
    PopupPage         ClaimFlow next to the popups and the window that opened them
ClaimLifecycle    what polls may observe; ClaimFlow implements it
ProofFlow         flow::run against a notary that may be broken
OAuthClient       auth_url and token exchange against GitHub
LinkFormats       key, wallet and OAuth state, letter by letter
Startup           settings, build_state, and what claims find of them
Origins           the CORS patterns against a reference matcher
GmailRelay        the fragment relay, with a browser and an operator
MC<module>        the instances of <module> for TLC
<module>Proofs    the theorems about <module>, and CompositionProofs those about
                  ClaimProving and PopupPage
```

### AppState

`challenges` and `results` are functions from the ids they contain. No critical section of
`state.rs` awaits or takes the other lock, so each is one operator; `create_challenge`, which
has two, is `InsertChallenge` and `InsertSlot`. An `Instant` is the age of its entry in ticks.
The code looks at an age in three places and always as `elapsed().as_secs() < ttl`, so an age
need not count beyond the TTL, which is what keeps the state space finite. The
PKCE verifier drawn for a challenge is random and is named by the challenge. A challenge id is
32 random bytes: a fresh one is never an old one.

### ClaimFlow

One action per piece of a handler that runs without an await.

| Variable | In the code |
|---|---|
| `challenges`, `results` | the two maps of `AppState` |
| `mint`, `request` | how far `challenge_github` got for each id, and the `PendingChallenge` it built |
| `cb` | the locals of each `callback_github` (challenge, key, code, what was consumed) and where it is |
| `task` | the task each callback spawned |
| `authorized` | what the user has approved on GitHub (environment) |
| `mode`, `restarts` | the process (serving; asked to stop with clients still connected or only handlers left; down), and the bound on its restarts |

`challenge_github` is `ChallengeGithub` (validate, draw, stamp), `CreateChallenge` and
`CreateSlot` (the two locks); `MintDropped` is the client that leaves while a lock is awaited.
`callback_github` up to the consume and the synchronous code after it is one of
`CallbackBadState`, `CallbackUnknown`, `CallbackGone`, `CallbackMismatch`, `CallbackDeclined`
and `CallbackCode`. Then `ReportDeclined`, or `ExchangeOk` (status, spawn and page, no await
between them) or `ExchangeErr`; `CallbackDropped` is the browser that leaves while one of them
is awaited. The task ends in `TaskComplete`, `TaskFails` or `TaskPanics`. `Shutdown`, `ClientsDone`,
`Exit`, `Crash` and `Start` are the process. axum's graceful shutdown closes the listener and waits for the
connections there are. While one of them is still sending its request the server is "lingering": such a
request is served when it is whole (`Serves`), and a client that neither finishes nor reads its reply keeps the server there.
Once these clients are done only handlers are left to wait for (`Drained`). An exit takes the maps and the detached
tasks with it. A redirect may carry any id a reply has disclosed or that was never minted (`Nameable`), any key
and any code: of its own claim, of another, or one that GitHub never issued.

### ClaimLifecycle

The abstract specification: a claim is unborn, waiting, proving, complete, failed or lost, moves
one way only, and a poll is answered with the stage just reached or, once that answer has expired,
404. `ClaimFlow` implements it with `stage` read off the one callback that holds the challenge and
`view` the reply of `status_json`. A report that arrives when the slot is gone makes the
slot visible again: that is `Advance`, and a `set_status` that only updated existing slots would
not implement it.

### ProofFlow

`run`, one session per task. Hashes and signatures are symbolic: a root is the list of its leaves, a signature
is who signed which digest. `BadKey` and `Prove` are `pubkey_to_session_address` and the MPC-TLS session;
`Respond` is everything from `read_msg` to the end, which has no await. A `Check` is a condition with its
error, `FirstFailure` the error that a row of them returns: `CommonChecks` is `verify_common_checks`, `Verify`
puts the rows of `verify` in the order of the code and `Verdict` adds what `assemble_registration_proof` looks
for. `NotarySigns` lets the notary sign anything for a session it took part in, and `Respond` hands a session
any proof ever signed, for any session, unaltered or with one part altered (`Altered`), together with the
attestation of any session. `ContractAccepts` is what `types.rs` and the module comment say
`GitHubIdentityVerifier` checks. A recovery byte outside 0, 1, 27, 28 may or may not be recovered by the
library; if it is, `solidity_sig` panics.

### ClaimProving

The composition. `RunArguments` is what `callback_github` hands to `run`: the key from the redirect, the
wallet of the consumed challenge and the account whose token the exchange returned; `ProofFlow` is
instantiated with callbacks as sessions. `Approve` lets several accounts approve one
auth_url, as happens when a link is opened in another browser. `ConnectFails` is `run_verification` up to the
connection, `Run` is `run`, `Reports` the `match result` behind the lock. A notary signs for
a session that has died with its process all the same. Its actions are written as those of
`ClaimFlow` with the session beside them, so that every step is one of `ClaimFlow` or leaves its state alone; that
is by construction and no result, and what the runs and theorems are about is what the sessions add.

### PopupPage

`ClaimFlow` with a window per callback. Two replies carry the page: `Loads`, then `Script`, which posts
to the opener if there is one and sets the timer, then `Closes`. `posted` and `heard` are the messages on the
way to the opener and those it has handled. Two things may be otherwise:

* `ScriptInTab` is a page in a window no script opened, such as that of a link the user opened by hand. It may have no
  opener, and browsers may refuse its `window.close()`.
* `AlteredScript` is a page whose error text is not the inside of a JavaScript string. The text comes with the
  redirect, and `callback_html` puts it between quotes as it is (`callback.rs:55`). The script of the page is then
  another one: it may post nothing or any messages, about any claim and any number of times, and leave the popup open.

Nothing can be promised of an altered page, and nothing is. What is checked is that such pages, in other windows or
of other claims, do not matter to what the page as written promises: its messages agree with the polls
(`NewsMatchesPoll`), and its popup closes (`PopupCloses`). A message's `script` field is for the
properties alone: the opener cannot tell the two apart, and `postMessage` names no origin (`callback.html:18`).

### OAuthClient

`AuthQuery` and `Form` are the parameters that `build_auth_url` and `exchange_code_server_side` send, `Outcome` is
how an answer is read, in the order of the code. `RedirectUri` is what `build_state` makes of `BASE_URL`. The OAuth App may be
registered for just that, or for `{BASE_URL}/auth/github/callback` to the letter, as `config.rs` and the repository's README ask
(`Registration`): with a `BASE_URL` that ends in a slash these are two URLs. GitHub is modelled by what it checks
of both requests: the registered callback, the code's first use, the client's secret, the code's own redirect URI and PKCE challenge.
An answer may be lost after the code was used, and something else may answer.
`ClaimFlow` has of all this only that a token is granted for a code tied to the verifier.

### LinkFormats

`validate_compressed_pubkey`, `parse_link_wallet`, `format_oauth_state` and `parse_oauth_state` on
sequences of letters, with a user who copies a part of the link (`Cut`) or gains whitespace (`Breaks`).
The reference goes the other way: it spells texts out of bytes. `Stripped` goes through the text letter by letter,
as `filter` on its characters does; `Head2` is `splitn(3, ':')` of which two parts are read.

### Startup

`Parse` is clap, `BuildState` and `BuildFails` are `build_state`, `Bind` and `Stop` the rest of `main`,
`Restart` the operator with other settings. `Verify` is `run_verification`: it is there that the
host and the port of `NOTARY_URL` are looked at for the first time, for every claim, after its user has
authorized it. `Url::port` is none for a URL that names the default port of its scheme, and
`notary.example:7047` is a URL without a host: with such a setting the server starts and every claim
fails, but none is ever proved against another endpoint (`DialsTheConfiguredNotary`).

### Origins

`Patterns` is `allowed_origin_patterns`, `Matches` the predicate of `cors_layer`. The reference,
`Glob` over `Entries`, knows neither the split nor prefixes and suffixes: it goes through a pattern letter by
letter and keeps how far into the text it may reach. A header that is no visible
ASCII is refused before the predicate.

### GmailRelay

`Accepted` and `Target` are `gmail_callback_target` on a parsed URL, `Serve` and `ServeError` the handler,
`Forward` the script of the page. Tabs have a session history and share a cache; `Deploy` replaces
`APP_URL` under them. The path of `APP_URL` is dropped, as the tests of `gmail.rs` have it. `HandedOnce` is about the relay's
own hand-overs: what the app's entry in the history does with the fragment it keeps, when the user reloads it or
goes forward to it, is the app's business and not modelled.

## Runs

| Run | Asks | Instance | Distinct states |
|---|---|---|---|
| `claim_safety` | Do the maps, handlers and tasks ever contradict each other, is every poll answered as the lifecycle promises? | 2 challenges, 3 redirects, 2 keys, 2 wallets, TTL 2, 1 restart | 1 555 000 |
| `claim_pending` | Does a 202 mean that something is running? (violated) | 1 challenge, 1 redirect | |
| `proof_broken_notary` | Is every bundle bindable, is every honest answer accepted? | 1 session, 2 accounts, 2 of every checked field, 4 recovery bytes, drift 2, faulty leaves | 226 000 |
| `proof_drift` | Does the drift error mean what it says? (violated) | 1 session | |
| `proving_crossed` | Can claims or sessions trade codes, tokens, accounts or proofs? | 2 challenges, 2 redirects, 2 accounts, TTL 1 | 1 100 000 |
| `proving_faults` | Is what was accepted served, does polling end, does a drain end? | 2 challenges, 1 redirect, 2 keys (one off the curve), 2 recovery bytes, TTL 1, 1 restart, no symmetry | 987 000 |
| `popup` | Do messages of the page as written agree with the polls, does its popup close, next to tabs and altered pages? | 1 challenge, 2 redirects, 2 keys, TTL 2, 1 restart, no symmetry | 229 000 |
| `oauth_client` | Whose token does an exchange return? | 2 authorizations, 2 exchanges, 2 accounts, `BASE_URL` with 0 to 2 slashes, registered to the letter or trimmed | 28 000 |
| `link_formats` | Which requests are accepted, which links lead back? | keys of 2 bytes, wallets of 1, every cut, 2 spaces | 135 000 |
| `startup` | What are claims checked against? | 4 URLs, 3 addresses, malformed and absent settings, 2 claims, 1 restart | 7 000 |
| `origins` | Whom does the list admit? | every pattern of 4 letters, alone, spaced and listed; 25 origins | 63 000 |
| `gmail_relay` | Where does Google's answer go? | 2 tabs, 2 answers, 14 values of `APP_URL`, 1 deployment | 165 000 |

Why these bounds are enough to be interesting. Two challenges are what it takes for one claim's
minting to sweep the other's entries, and for a code of one to reach the other's exchange; three
redirects are a claim, its replay and another claim. In `popup` the second one is the replay, or the redirect that gets the page: a claim has at most
one, which is as written or altered, in a popup or a tab. That an altered page of one claim and a written one of another do not get into
each other's way takes two claims, which is too much for that run; the theorem `NewsMatchesPolls` has any number of them.
Two keys and wallets tell a request's own from another's. A TTL of 2 has a fresh, a nearly
expired and an expired age, and minting may itself straddle ticks; a TTL of 1 still has slots that expire
and are swept before a report. One restart separates
"before" from "after". In `ProofFlow` each checked field has the right value and a wrong one, the
clock runs one past the drift limit in both directions, and the leaf lists cover both honest
orders, leaves missing, moved, and naming another account. `proving_crossed` keeps all
fields right, so that nothing but the session's own checks can reject a crossed answer. Four letters
are a `*.` with a label, an inner dot or a second star after it; two spaces fall into one segment of a link or into two.

Deadlock is checked in the `ClaimFlow`, `ClaimProving`, `PopupPage`, `Origins` and `GmailRelay` runs, where something can always
happen. The others switch it off: sessions, exchanges and links come to an end.

`MaxRestarts`, `MaxTime`, `MaxDeploys`, `MaxSpaces` and the sizes of the sets are the only bounds.
`ClientsLeave` and `LeafFaults` switch off an environment fault in runs that ask about something
else (`claim_pending` shows its counterexample without any client leaving).

### Disagreements between code and text

* `claim_pending`: `result.rs:28` documents 202 as "flow still running". A callback whose key does
  not match is answered 400 after the challenge was consumed (`callback.rs:76`, `89`), and its slot
  is left as it was: polls are answered 202 until the TTL though nothing can complete the claim.
* `proof_drift`: `error.rs:91` says the drift "exceeds max"; `mod.rs:317` returns it for a drift
  equal to the maximum (`>=`).
* Without a run of its own: `config.rs:31` and the repository's README (line 93) have the OAuth App registered for exactly
  `{BASE_URL}/auth/github/callback`, while `lib.rs:59` trims the slashes that end `BASE_URL`. With
  such a `BASE_URL`, and an App registered to the letter, GitHub refuses every auth_url. `OAuthClient` has that deployment;
  in it no approval ever happens.

### What breaks the properties

Next to some operators stands a variant that the specifications do not use: the operator as a
plausible bug would have it. Put in the operator's place, each makes a property fail, which is how
we know that the property speaks about the code.

| Variant | Instead of | What it is | Breaks |
|---|---|---|---|
| `Lookup` | `Consume` | a consume that leaves the challenge in the map | `Inv`, `SingleUse`, `FinalAnswerStays` |
| `SweepEarly` | `Sweep` | an off-by-one at the TTL | `LiveChallengeHasSlot` |
| `SetStatusIfPresent` | `SetStatus` | an update that gets lost with an expired slot | `ImplementsLifecycle` |
| `ViewUnaged` | `StatusView` | a poll that ignores the TTL | `PollingEnds` |
| `TakeWithoutWallet` | `Take` | a handler that drops the wallet it consumed | `TypeOK` |
| `AnyPubkey` | `PubkeyMatches` | no comparison of the keys | `ProofMatchesRequest` |
| `ReportPageOnly` | `ReportDeclined` | a failed page without a failed status | `PopupAgrees` |
| `CallbackUnknownReports` | `CallbackUnknown` | a status for a challenge nobody minted | `OnlyMintedHere` |
| `ExitAfterTasks` | `Exit` | a drain that waits for proofs | `DrainEnds` |
| `SessionFailsAndRetries` | `SessionFails` | a session that is tried again after its failure was returned | `TypeOK` of `ProofFlow` |
| `AssembleLastLeaf` | `Assemble` | the id's leaf taken by position | `BundleIsBindable` |
| `UnbumpedV` | `SolidityV` | a recovery byte of 0 left as it is | `BundleIsBindable` |
| `AtMostDrift` | `FreshTimestamp` | an off-by-one at the drift limit | `HonestAnswerAccepted` |
| `AnyHandshake` | `SameHandshake` | no comparison of the handshakes | `BundleIsOwn` |
| `TokenForAnyCode` | `TokenGranted` | an exchange without a verifier | `ServedBundleIsGood` |
| `ProveAnyKey` | `Prove` | a session for a key that is no point | `OffCurveNeverServed` |
| `SetStatusIfPresent` | `SetStatus` | a late proof that finds no slot | `AcceptedIsServed` |
| `ReportPageOnly` | `ReportDeclined` | a failed page without a failed status | `NewsMatchesPoll` |
| `ScriptKeepsFailure` | `Script` | a popup that closes only after a success | `PopupCloses` |
| `StatusDecides` | `Outcome` | a refusal with status 200 taken for a token | `OkMeansGranted` |
| `AuthQueryWithoutPkce` | `AuthQuery` | no `code_challenge` | `TokenIsTheApprovers` |
| `FormWithoutSecret` | `Form` | credentials where GitHub does not look | `OwnCodeIsGranted` |
| `AnyWallet` | `parse_link_wallet` | the zero address let through | `AcceptedIffSpelled` |
| `ParseUnstripped` | `parse_oauth_state` | whitespace left in | `LinkLeadsBack` |
| `AddressOrZero` | `HexToAddress` | zero for a typo | `AddressTypoNeverServes` |
| `PortOr7047` | `PortOf` | a default port | `DialsTheConfiguredNotary` |
| `SuffixAnywhere` | `SuffixMatches` | a suffix that begins inside a label | `AdmitsOnlyCovered` |
| `Untrimmed` | `Trim` | entries with their spaces | `DocumentedFormsWork` |
| `TargetKeepingFragment` | `Target` | the fragment of `APP_URL` left in place | `FragmentIntact` |
| `LocalhostFirst` | `is_loopback_host` | the front of the name looked at | `OnlyToTheApp` |
| `KeptByDefault` | `Kept` | no `no-store` | `NeverStale` |
| `Assign` | `Forward` | `location.href` for `location.replace` | `HandedOnce` |

## Fairness

`ServerFairness` assumes that time passes and that the server's own synchronous work gets done: a
request that waits for a lock gets it (`CreateChallenge`, `CreateSlot`, `ReportDeclined`; tokio's
`RwLock` is fair and no critical section blocks), and a drained server exits. `CPFairSpec` adds the lock that a
report of a task waits for (`Reports`). Nothing is assumed
of GitHub, of the notary or of clients, because the code puts no timeout on either call.
So `PollingEnds` rests on the TTL alone: a slot that is never reported on expires. `DrainEnds`
has the two exceptions the code has: a client that holds on to its connection (`ClientsDone` is not fair), and a token
exchange that GitHub never answers. A proof in progress is none. And `AcceptedIsServed` begins
only where the last answer from outside has come.

`PPFairSpec` assumes that a browser runs the script of a page it has loaded and the timer that script
sets, in a popup and for the page as written; not that a page arrives, nor that an opener listens.

## Proofs

Every invariant that a passing run checks, the action property `FinalAnswerStays` and the refinement of
`ClaimLifecycle` are theorems, for all values of the constants: any numbers of challenges, callbacks, keys, accounts,
sessions and tabs, any TTL, clock and texts. A run shows the property on an instance, where its
mutant shows that it can fail; the theorem shows that the instance was no accident.

| Module | Theorem | States |
|---|---|---|
| `ClaimFlowProofs` | `Invariance`, `TypeCorrect` | `Inv`, `TypeOK` |
| | `ConsumedOnce` | `SingleUse` |
| | `ProofsMatchRequests` | `ProofMatchesRequest` |
| | `LiveChallengesHaveSlots` | `LiveChallengeHasSlot` |
| | `PopupsAgree` | `PopupAgrees` |
| | `OnlyMintedEntries` | `OnlyMintedHere` |
| | `FinalAnswersStay` | `FinalAnswerStays` |
| | `Refinement` | `ImplementsLifecycle`, if the TTL is not 0 |
| `ProofFlowProofs` | `TypeCorrect` | `TypeOK` |
| | `BundlesAreBindable` | `BundleIsBindable` |
| | `BundlesAreOwn` | `BundleIsOwn` |
| | `HonestAnswersAccepted` | `HonestAnswerAccepted` |
| `CompositionProofs` | `CompositionInvariance` | `Inv` of `ClaimFlow` |
| | `ProvingInvariance` | `CPInv` |
| | `ServedBundlesAreGood` | `ServedBundleIsGood` |
| | `BundlesAreOwn` | `BundleIsOwn` |
| | `OffCurveIsNeverServed` | `OffCurveNeverServed` |
| | `NewsMatchesPolls` | `NewsMatchesPoll` |
| `OAuthClientProofs` | `OkIsGranted` | `OkMeansGranted` |
| | `TokensAreTheApprovers` | `TokenIsTheApprovers` |
| | `OwnCodesAreGranted` | `OwnCodeIsGranted` |
| `LinkFormatsProofs` | `RequestsAreReadRight` | `AcceptedIffSpelled` |
| | `LinksLeadBack` | `LinkLeadsBack` |
| `OriginsProofs` | `OnlyCoveredAreAdmitted` | `AdmitsOnlyCovered` |
| | `DocumentedFormsAreAdmitted` | `DocumentedFormsWork` |
| `StartupProofs` | `TyposNeverServe` | `AddressTypoNeverServes` |
| | `ConfiguredNotaryDialled` | `DialsTheConfiguredNotary` |
| `GmailRelayProofs` | `FragmentsIntact` | `FragmentIntact` |
| | `ForwardedToTheApp` | `OnlyToTheApp` |
| | `PagesAreFresh` | `NeverStale` |
| | `FragmentsHandedOnce` | `HandedOnce` |

### The arguments

**ClaimFlow.** None of the properties is inductive. `SingleUse` needs to know that a challenge in the map is
held by nobody (`ChallengesInv`); that needs to know that what a callback holds is a challenge that was answered
(`HoldersInv`), so that a challenge about to be inserted is held by nobody either. `PopupAgrees`,
`FinalAnswerStays` and the refinement need to know what a slot says: where the one callback of its claim got to
(`SlotsInv`), which is only well defined with `SingleUse`. `LiveChallengeHasSlot` needs the slot to be no older
than the challenge (`LiveSlotInv`). The parts depend on each other, so `Inv` is their conjunction and is proved
as a whole. The store's operators come first (one lemma for each critical section), then one lemma per group of
actions (`InvMinting`, `InvCallback`, `InvFinishing`, `InvTick`, `InvProcessEnds`, `InvElsewhere`), then the
theorems. For the refinement `FinishingReports` says what a report does to one claim, and `LifecycleNext` maps
every step to `Advance`, `Expire`, `Restart` or a stutter.

**ProofFlow.** The checks come first: a verdict of "ok" means that every check holds, though each is written to
return early (`VerdictFacts`). Then what a bundle is made of: a leaf that `Position` finds is a leaf that
verifies against the root, and a known recovery byte becomes 27 or 28. The inductive invariant is `RunInv`:
besides the properties it says that sessions have results exactly when they are over (`SessionsOK`), that what
the notary signed is signed for what it says (`SignaturesInv`), without which `BundleIsOwn` would not follow
from a matching handshake, and that an answer is read once (`UnansweredInv`). For `HonestAnswerAccepted` an
honest proof is taken through every row of checks.

**ClaimProving.** Every step is a step of `ClaimFlow` or leaves its state alone (`TaskStepIsClaimStep`), by the way the
actions are written, so every theorem of `ClaimFlow` is one about `CPSpec` (the lemma `ProvingClaim`). Its sessions are those of
`ProofFlow` but for one thing: what a session is run for is decided when it starts, while `ProofFlow` chooses it
in the beginning. So `CPInv` takes `RunInv` as it is and reuses the lemmas about steps, and adds that a token is
for an account that approved the claim's own auth_url (`UsersInv`) and that a session runs with its task and a
complete task has a bundle (`TasksInv`). `ServedBundleIsGood` then follows from the slot through its one
callback (`SlotsInv`) to the session.

**PopupPage.** `PagesInv`: every message of a page as written is the one its callback's page posts, and `PageStays`: no step of
the claim changes that page any more. An altered script's messages are in neither. `NewsMatchesPoll` is more than
`PopupAgrees`, which speaks of the process that served the page: it follows from where the one callback of a slot got to
(`SlotsInv`), across expiry and restarts.

**OAuthClient.** `UrlsInv` (an auth_url is what `BASE_URL` makes), `CodesInv` (a code is for an auth_url that
its account's user saw) and `ExchangesInv` (a reply is a token for the code sent, a refusal with its reason, or
nothing a token can be read from). The last relates three parties, and `OutcomeFacts` is where the order in
which the code reads an answer matters.

**GmailRelay.** `HandedOnce` is about histories: a relay page that would forward a fragment stands in one place
of one history, and in none once the app has the fragment (`HandedInv`), which holds because `location.replace`
takes the page out. `TrailsInv` ties what a tab shows to its history; `TargetsInv` says that each page leads to
an `APP_URL` in service since it was asked for.

**Startup.** The process runs on what the operator wrote, to the letter, and so does every claim it has looked
at.

**LinkFormats and Origins** are about functions of texts of any length, and their proofs are inductions: over
the letters of a link, of a pattern, of an entry. An induction theorem would need an operator for a parameter,
which the provers do not instantiate, so the inductions are by least counterexample (`MinFacts`, from the
well-foundedness of inclusion on finite sets; `Upwards`). A recursive function is first shown to exist
(`StrippedFacts`, `GlobFacts`): only then does its equation hold. `LinkFormats` shows that decoding and spelling
are inverse, and that a link always strips to a beginning of the minted state; both colons and the whole key are
in it exactly if enough of it was kept. `Origins` shows that the patterns are the entries
(`PatternsAreEntries`), that a predicate's yes reaches the end of the text in the reference (`LettersReach`),
and that where the reference gets to without stars the letters stand (`ReachedLetters`).

### The assumptions

| Assumption | Why |
|---|---|
| `TTLAssumption`, `MaxRestartsAssumption`, `ClientsLeaveAssumption`, `ProofFlowAssumption`, `ProvingAssumption`, `RelayAssumption`, `LinkAssumption` | the types of the constants; a recovery byte is a `u8`; a key has a first byte |
| `NoneAssumption`, `NoneIsNoResult`, `NoneIsNoChallenge`, `NoneIsNoReply`, `NoneIsNoText`, `NoneIsNoAccount`, `NoneIsNoError` | the absent value is none of the values: `Option` in the code |
| `TextAssumption` | texts are finite sequences |
| `SegmentAssumption` | a minted id is `hex::encode` of 32 bytes, and `API_DOMAIN` has no whitespace |
| `UrlAssumption` | what the `url` crate's parser returns |
| `LoopbackAssumption` | `localhost`, `127.0.0.0/8` and `::1` are the browser's own machine |
| `TTL # 0` (of `Refinement` only) | with a TTL of 0, which `config.rs` allows, every answer has expired when it is given |

TLC evaluates all of the named ones for the instances it checks.

## Only model-checked

* Liveness (`PollingEnds`, `DrainEnds`, `AcceptedIsServed`, `PopupCloses`), which is outside what the proof system does.
* The properties of the two runs that end in a violation.
* The symbolic cryptography is an assumption of the model and not of a theorem: roots are injective in their leaves and signatures
  cannot be forged.

## Not modelled

HTML and JSON as text; HTTP details such as the allowed methods and headers; the route table and the
health probe, which keep no state; logging; what tlsn, the libid crates, GitHub, the
notary and the contract do inside. What an altered page does beyond posting messages and staying open (it runs on this
server's origin, where it can send what any client can send) adds nothing to what clients do in `ClaimFlow`. The `find_json_snippet_range` search over the body is part of
that: how it searches is not in this repository, and a body is one account. What the web app does with
messages and polls is not in the repository either: `PopupPage` has it handle every message it is sent.

## Plan

1. `ClaimFlow` over `AppState`, its abstract specification and proofs (done).
2. `ProofFlow`, `ClaimProving`, `PopupPage` and the modules for the OAuth client, links, settings,
   origins and the relay, modelled and checked (done).
3. Theorems for every safety property of these modules (done).
4. Left: an abstract specification of a proving session (its bundle or its error, and nothing in between) for `ProofFlow` to
   implement.
