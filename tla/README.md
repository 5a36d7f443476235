# A TLA+ development of DecPKI

DecPKI is a small decentralized PKI. Validators keep an identity log, publish it
as signed *trust bundles*, and browsers verify identities offline against the last
bundle they fetched. A backend-for-frontend (BFF) registers WebAuthn credentials
and gives logged-in users session tokens.

The modules here are translated from the code (`bff/`, `cli/`, `src/decpki/`,
`browser/`), not from the documents under `specs/`. Comments name the function each
action stands for, and `PROJECT.json` gives its lines. What the documents promise
and the code does not do is listed under [Departures](#departures).

## Inventory

| Component | State | Operations | What is hard | Correct when |
|---|---|---|---|---|
| BFF sessions: `bff/session.py` (`SqliteSessionStore`), login and session endpoints of `bff/main.py` | SQLite tables `challenges`, `refresh_tokens`, `jti_blocklist`; tokens in clients' hands | login start/complete, refresh, logout, revoke, list, prune on start | endpoints run on a thread pool and hold the store's lock per call, not per request; the process may die between two commits; clocks compared with `<`, `<=`, `>` | a challenge opens one session; a revoked or logged-out session stays closed and its last token is rejected; a restart changes no answer |
| Bundle cache: `bff/bundle_cache.py` | the bundle last loaded | background load, `is_did_active` | the bundle changes between a check and what follows it | no tokens for a DID the bundle dropped |
| Registration: `/enrolment/*` of `bff/main.py`, `bff/enrolment.py` | dictionaries `_challenges`, `_nonces`; a directory of JSON files | start, submit, get, list | check-then-write without a lock; dictionaries lost on restart | one request per ceremony; no duplicate credential |
| Enrolment commands: `cli/enrol_sign.py` | the same files, `identity_log.json` | enrol-sign, enrol-promote, enrol-revoke | several processes read, change and rewrite the same files; each may die in between; a file may be read torn | only requests signed by a quorum enter the log; a promoted request is in it; a revocation stays |
| Identity log: `models.py`, `quorum.py` | the list of records | add, save, load, `next_block` | last writer wins | unique DIDs, growing blocks |
| Trust bundle: `bundle.py`, `merkle.py`, `verify.py` | a file | generate, verify | odd tree layers, sort order, order of checks, expiry boundary | an unaltered bundle answers as the log did; an altered one is reported |
| Service worker: `browser/sw/decpki-sw.js` | IndexedDB, the flag `syncInProgress` | sync on message, online and activation | every `await` is an interleaving point; the browser kills workers; saves may throw | the stored bundle never goes back; the flag is always cleared |
| `DecPKIClient`: `browser/src/index.js`, `bundle.js`, `crypto.js`, `storage.js` | a bundle in memory per tab | init, verify, onmessage, destroy | a tab answers from a copy while others replace it | revocation bounded by the grace period; tabs learn of new bundles |
| Browser session: `browser/src/session.js`, `sessions.js` | `localStorage`, shared by the tabs; a refresh timer per tab | login, refresh, getToken, logout, revoke | refreshes, logins and logouts overlap; what a call read is stale when its answer comes; tabs are reloaded | the stored tokens are of one session; no late answer undoes a logout or a newer login; a session is refreshed silently until it ends, and its end is noticed |
| Browser's CBOR: `browser/src/cbor-canonical.js` | none | encode | the head grows at 24, 2^8, 2^16 and 2^32; keys are sorted by length, then bytes; JavaScript shifts 32 bits | the bytes are those Python signed |
| Others: `registration.js`, `cose.py`, `SessionStore`, demos, scripts | none | | | not modelled, see below |

How they interact: the BFF writes request files; validators' commands read and
rewrite them, append to the log and move them to `promoted/`, where the BFF's login
looks the credential up; `decpki bundle` turns the log into a bundle file; the BFF's
cache reads that file, and an endpoint serves it to service workers; a worker stores
it in IndexedDB and broadcasts to the tabs, which read it back. A tab's session calls
the BFF's login, refresh and logout; other tabs see what it stores.

## Modules

| Module | Models | Runs |
|---|---|---|
| `SessionRegistry` | abstract: what the BFF promises about sessions | in `two_logins` and `browser_session` |
| `BffSessions` (implements `SessionRegistry`) | sessions and bundle cache | `one_session`, `two_logins`, `latest_blocked` (`MCBffSessions`) |
| `BffSessionsProofs` | theorems about it | TLAPS |
| `SessionRegistryProofs` (extends it) | the theorem that it implements the registry | TLAPS |
| `BrowserSession` (client of `SessionRegistry`) | the tabs' sessions | `browser_session` (`MCBrowserSession`) |
| `Enrolment` | registration, enrolment commands, identity log | `two_submissions`, `quorum`, `revocation_lost` (`MCEnrolment`) |
| `BundleSync` | publisher, service worker, tabs | `bundle_sync`, `sync_ends` (`MCBundleSync`) |
| `BrowserSessionProofs`, `EnrolmentProofs`, `BundleSyncProofs` | theorems about the three above | TLAPS |
| `Merkle` | the tree and its proofs, as operators | `encodings` (`MCEncodings`) |
| `CanonicalCbor` | the browser's encoder, as operators | `encodings` |
| `MerkleProofs` | theorems about the tree's operators | TLAPS |
| `EncodingsProofs` (extends it and `MCEncodings`) | the same for the leaves of the run `encodings`; the encoder's heads, keys and codes | TLAPS |
| `TrustBundle` (extends `Merkle`) | generation and both verifiers | `trust_bundle`, `one_bad_signature` (`MCTrustBundle`) |
| `TrustBundleProofs` (extends it and `MerkleProofs`) | theorems about it | TLAPS |

### BffSessions

One action per lock section. The store's methods take the lock for one statement or
one transaction, FastAPI runs the handlers on a pool of threads, so two requests
interleave between any two calls. `req[h]` holds the local variables of the handler
on thread `h`: `pc` is the call it makes next; `since` is when its previous step was
taken, so that a clock it reads may show any second from then until now
(`ClockReading`). The first method of a handler reads the clock before it waits for
the lock, so that its reading may be old (`FirstReading`), by at most `LockWait`.
`login_complete` is `LoginComplete` (`consume_challenge`), `CheckDid`,
`IssueRefreshToken`, `IssueSessionToken`, `Respond`; `login_refresh` is
`RefreshConsume`, `CheckDid`, `IssueSessionToken`, `Respond`; `api_revoke_session` is
`RevokeRequest`, `RevokeAuth`, `RevokeSelect`, `RevokeBlock`, `RevokeDelete`,
`RevokeReply`. `Restart` may happen between any two of them: handlers vanish, tables
stay, expired rows are pruned.

`revoked`, `raced` and `latest` are history: the sessions a revocation has deleted,
those a login or refresh was minting for while a revocation ran, and each
session's latest token. The verdict on a WebAuthn assertion is a choice.

Checked: `OneSessionPerChallenge`, `RevocationEffective`, `ClosedForever`,
`InactiveDidMintsNothing`, `RestartKeepsAnswers`, `ImplementsRegistry`. `RevocationEffective` leaves out two
things the code does not do, a mint racing the revocation (run `latest_blocked`) and
the second of the token's `exp`; see Departures.

### SessionRegistry

What a client of the BFF may rely on, with no table, clock or check: a session, named
by its refresh token, is `Open`ed once; a handler that opens it, or finds it open
(`Begin`), may `Mint` one token for it, even if it is closed meanwhile; `Drop` closes
sessions and lets handlers give up. `BffSessions` implements it under the mapping
`registryState` (fresh before `issue_refresh_token`, open while the row exists),
`registryMinting` (the session of a handler that is between
`consume_refresh_token` or `issue_refresh_token` and `issue_session_token`) and
`registryOwner` (the session in a token's payload): `ImplementsRegistry`. A logout, an
expired refresh, the deletion of a revocation and a restart are each one `Drop`.

### BrowserSession

The tabs of one browser over one `localStorage`, with the registry as their BFF
(`INSTANCE SessionRegistry WITH Thread <- Call`, so each call has a handler there). A
call is sent by `Login`, `Refresh`, `TimerFires` or `Logout`, which read what they
present; meanwhile the BFF takes `Served` and `Minted`; and the call ends by `Answered`,
`LoginFails` or `CallClears`, which write to the storage as it is by then. Only the
stretches between two awaits are atomic. `Reload` takes a tab's timer and calls away
and leaves the storage; `CloseElsewhere` is a revocation from anywhere (the panel of
`sessions.js` too, which leaves `localStorage` alone) or an expiry.

`keeper`, `left` and `overtaken` are history: the tab that wrote the stored session
token, the sessions that have left the storage, and those that left while a call that
presented them was waiting. `MCBrowserSession` adds `Recycle`, which gives the
identifier of a token nobody holds to a later one, so that refreshes go on for ever.

Assumed: a synchronous stretch of one tab is atomic for the others; a request that is
abandoned by its client does nothing more at the BFF than a registry step of its own
would; `decpki_did` comes and goes with the refresh token, `decpki_expires_at` with the
session token; a timer may fire at any time after it is set, also at once, as it does
when a lifetime is at most 120 s.

Checked: `TokensTogether`, `KeptFresh`, `LoggedOutStaysOut`, the action property
`LoginKept`, and three liveness properties: `SilentRefresh` (no stored token is kept
for ever), `RevocationNoticed` (nor is a session closed elsewhere) and `LogoutQuiets`
(after a logout the tabs stop refreshing). `TokensTogether` and `LoginKept` except what
an overtaken call does (see Departures); `KeptFresh` and the first two liveness
properties hold while the tab lives that stored the token, since no other tab, and no
reload, sets a timer for it. They are written with `[]<>`: to hold on to a token is a
state that must end, again and again.

Fairness: weak fairness of `Settles` for each call, because every `fetch` settles with
an answer or an error; strong fairness of `TimerFires` for each tab, because time
passes, and a timer waits in the model only for a free `Call`, which the code does not
know (weak fairness would let the other tab take each slot as it comes free). Nothing
is assumed of the users and of the BFF: `Served` and `Minted` have none.

### Enrolment

A command reads a file, changes its copy and writes it back. `write_text` truncates
first: `OpenLog`/`WriteLog` and `OpenRequest`/`WriteRequest` are those two halves, and
`Torn` is what a reader or a crash finds in between. A process that writes after
another one has written since its truncation may leave the end of a longer copy, which
is `Torn` too (`Written`); it writes to the file it opened, also when that was moved to
`promoted/` meanwhile. This is exact for two writers of one file, as many as the runs
have. `Crash` ends a process anywhere,
also by the exception a torn file raises. BFF threads go through `StartAdd` and `StoreChallenge`, which fill the two
dictionaries of an added credential one after the other, or through `Submit`,
`CheckNonce`, `PopNonce`, two `Scan`s (one per directory), `CreateOpen` and
`CreateWrite`; `RestartBff` forgets the dictionaries and the handlers.

A promoted record keeps the request it came from (`metadata.enrolment_id`); keys,
attestations and signatures are abstracted to who signed. `signed`, `revoked`,
`ceremony` and `excused` are history. Assumed: operators name a request by its path in
`ENROLMENT_DIR`, and validators do not share a DID.

Checked: `QuorumBacked` and `LoginKeyApproved` (whatever file of `promoted/` a login
reads its key from, a quorum signed it) with two overlapping processes and a threshold
of two;
`LedgerWellFormed` there too, and with two DIDs where commands follow one another (two
processes and two DIDs are what the theorem `LogIsWellFormed` covers); `PromotedInLedger`,
`RevocationFinal`, `OneRequestPerCeremony`, `DuplicateRefused` with two BFF threads and
commands that follow one another but may die. `PromotedInLedger` and
`RevocationFinal` are not true of overlapping commands, whose saves overwrite each
other: run `revocation_lost` shows it.

### BundleSync

`LoadLog`, `Stamp`, `OpenFile`, `WriteFile` are the steps of `decpki bundle`. Each
`Slot` is an invocation of one of the worker's event handlers, in the steps its awaits
cut it into: `SyncStart`, `Fetch`, `Validate`, `SaveBundle`, `SaveState`, `Announce`,
or `SaveFailed`, `Finally`. Each save may throw. `KillWorker` drops all of them with
the flag. A tab goes through `OpenTab`, `LoadBundle`, `LoadState`, `SaveEndpoint`,
`Listen`; `Reload` is `onmessage` with its read of IndexedDB (reads are delivered in
the order they are executed, so one step suffices). `Destroy` closes its channel and
leaves its bundle: the client still answers; `CloseTab` ends it.

Assumed: one publisher at a time, one endpoint URL, one clock. `lastSync`,
`lastError` and the read-only `GET_BUNDLE_STATUS` are left out. A bundle that is
fetched whole has valid signatures: `TrustBundle` is about those that do not.

Checked: `NeverBackwards` (an action property: flag and single writer keep overlapping
syncs from storing an older snapshot, a tab never falls back), `RevocationBounded`
(the grace period bounds how long a revoked DID is `VALID` anywhere, except for a
revocation that falls between the publisher's load of the log and its clock),
`TabsInformed` (a listening tab without the stored bundle has a broadcast waiting or
coming, unless a death or a failed save swallowed it), `SyncEnds`.

Fairness: `FairSpec` has weak fairness of each handler's own steps (`SyncStep`) and of
nothing else. A promise of `fetch` or IndexedDB settles, with a result or an error, and
the event loop then runs its continuation. Messages, tabs and the publisher have no
fairness: nobody is obliged to use the system. If the browser kills the worker, the
flag goes with it.

### Merkle, CanonicalCbor and TrustBundle

`Merkle` writes the tree with recursive functions, a hash as a free constructor
(distinct inputs have distinct hashes). `MCEncodings` walks through every sequence of
up to six distinct leaves: with six, layers of 1, 2, 3, 4, 5 and 6 nodes occur, so a
layer is padded at the first level, at an inner level, and at both (five leaves).

`CanonicalCbor` is the encoder the worker uses to get back the bytes the validators
signed. A number is its eight bytes (TLC has no integers beyond 2^31), a string its
bytes, an object the sequence of its entries in the decoder's order. What `writeHead`
shifts is modelled by what JavaScript's `>>` does: it takes the lower 32 bits of its
operand (`Low`) and shifts them by the count modulo 32 (`ShiftedByte`), so that a number
above 2^32 comes out right only because it is taken apart into `hi` and `lo`
(`High`, `Low`) first; the mutant `WriteHeadUnsplit` shifts it as a whole. That
`Math.floor(value / 2^32)` and `value >>> 0` are the two halves is exact up to 2^53.
Left out are the UTF-8 encoder of the platform and the values on which the code throws. Over some
thousand items, with heads on both sides of every boundary and objects with their
entries in each order, `CanonicalBytes` says that two items have the same bytes exactly
if they say the same, and that no encoding begins another's; `ShortestHeads` and
`KeysAscend` compare with what canonical CBOR is, which is assumed of Python's `cbor2`.

`TrustBundle` builds a log, generates a bundle, alters up to `MaxDamage` fields of the
file, and asks both verifiers. A signature verifies if it is intact and the payload is
the one that was signed; its key may come out so that it cannot be read, on which
`verify` answers `TAMPERED` and `validateBundle` throws (`AllReadable`). `SnapshotAnswered` ties the answers to the log at generation time,
at each side's own boundary in the second of `expires_at`. `TamperEvident` is
about `verify`, and rests on the order of its six checks: a payload, or a signature,
that was altered is reported as such. `OnlySignedStored` is about the browser: it
replaces the bundle it holds only by the payload that was signed, with intact signatures
of as many validators as signing took; whether further ones were modified it does not
ask, against its documents (run `one_bad_signature`). An alteration leaves the threshold
positive: a file that asks for no signature needs none. An encoded payload is taken to be the payload,
for both encoders, which is what the run `encodings` says of the browser's;
`valid_until` is left out because no code reads it.

## Runs and bounds

| Run | Distinct states | Bounds, and why they are enough |
|---|---|---|
| `one_session` | 1.1 M | one session, two threads, two tokens, clock 0..4, lifetimes 2, waits for the lock of up to 1: a refresh can overlap a revocation at each step, a token and its blocklist row expire within the run, and a restart can come before and after |
| `two_logins` | 263 k | two DIDs, challenges and threads; the clock stands still: expiry is the other run's; with the refinement of `SessionRegistry` |
| `two_submissions` | 104 k | two ceremonies, requests, credentials and BFF threads, one command at a time: two submissions can share a challenge or a credential, and a second credential of a promoted DID is possible |
| `quorum` | 59 k | threshold two of two validators, two processes: a signature can be overwritten and made again |
| `bundle_sync` | 1.3 M | two bundles, two handlers, one tab, grace 1, clock 0..3: an old and a new bundle are in flight together, and the clock goes past the expiry of the second |
| `sync_ends` | 111 k | one bundle, two handlers, clock 0..2; no symmetry, for liveness |
| `browser_session` | 287 k | two tabs, two calls, two sessions, two token identifiers used again and again: a refresh of a session can be answered after a logout, after a newer login, and beside another tab's; no symmetry, for liveness |
| `encodings` | 3 k | six leaves; items nested twice, at most two to an array or object; numbers on both sides of each boundary, above 2^32 with different bytes in each half and with the highest bit of a half set |
| `trust_bundle` | 379 k | three DIDs (an even and two odd layers), two and three signers with threshold two, grace 0 and 1, one altered field: another one gives no signature back |
| `latest_blocked`, `revocation_lost`, `one_bad_signature` | | stop at the counterexample |

Symmetry is used over identifiers that nothing orders, never in a run with liveness.
Deadlock is checked in every run. The clock and fresh identifiers are bounded in the
guards (`MaxTime`, `MaxBundles`, `MaxRecords`, `MaxDamage`, the identifier sets).

Every property of a passing run has a mutant: the definition in `PROJECT.json`
replaced by a plausible bug, written beside it and marked "Mutant of", after which the
run fails.

## Proofs

TLAPS checks these for every value of the constants: any number of threads, tabs,
calls, processes, DIDs, tokens and bundles, any lifetimes, grace and threshold.

| Module | Theorem | States |
|---|---|---|
| `BffSessionsProofs` | `TypeCorrect` | `TypeOK`, and that what a handler's locals refer to exists (`LocalsOK`) |
| | `SingleUse` | `OneSessionPerChallenge` |
| | `RevocationHolds` | `RevocationEffective` |
| | `ClosedIsFinal` | the action property `ClosedForever` |
| | `InactiveGetsNothing` | the action property `InactiveDidMintsNothing` |
| | `RestartIsInvisible` | the action property `RestartKeepsAnswers` |
| `SessionRegistryProofs` | `StoreImplementsRegistry` | the refinement `ImplementsRegistry` |
| `BrowserSessionProofs` | `TypeCorrect` | `TypeOK`, and what the calls hold (`CallsOK`, `StoredOK`) |
| | `NoLateUndo` | `LoggedOutStaysOut` |
| | `OneSessionStored` | `TokensTogether` |
| | `RefreshScheduled` | `KeptFresh` |
| | `LoginIsKept` | the action property `LoginKept` |
| `EnrolmentProofs` | `TypeCorrect` | `TypeOK`, and what files, commands and threads hold (`FilesOK`, `CeremonyOK`) |
| | `OneRequest` | `OneRequestPerCeremony` |
| | `LogIsQuorumBacked` | `QuorumBacked` |
| | `LogIsWellFormed` | `LedgerWellFormed` |
| | `LoginKeysAreApproved` | `LoginKeyApproved` |
| | `DuplicatesAreRefused` | `DuplicateRefused`, with its inductive invariant `DuplicateOK` |
| | `LogIsComplete` | given `[]OneSaver`: each copy of the log holds what was promoted and revoked |
| | `PromotionsAreRecorded`, `RevocationsAreFinal` | given `[]OneSaver`: `PromotedInLedger`, `RevocationFinal` |
| | `OneCommandAtATime` | both, without that hypothesis, for one process |
| `BundleSyncProofs` | `TypeCorrect` | `TypeOK`, and the age and order of the copies (`CopiesOK`, `OrderOK`, `InformedOK`) |
| | `RevocationHeld` | `RevocationBounded` |
| | `NeverBack` | the action property `NeverBackwards` |
| | `TabsAreInformed` | `TabsInformed` |
| `MerkleProofs` | `EveryProofVerifies` | the proof of each of any number of leaves is accepted |
| | `NoProofOfTwo` | a proof leads from one leaf only to a root |
| | `RootsBind` | one root, one list of leaves (of one length, or without repetition) |
| `EncodingsProofs` | `LeavesProofsVerify`, `LeavesProofsBind`, `LeavesRootBinds` | `ProofsVerify`, `ProofsBind`, `RootBinds` |
| | `HeadsTell` | no head begins another, for all 64-bit numbers |
| | `EntriesAscend` | an object's entries are in the order of their encoded keys, for any entries |
| | `ObjectsKeysAscend` | `KeysAscend` |
| | `HeadsShortest` | `writeHead` writes the shortest of the heads CBOR allows, for all 64-bit numbers |
| | `NumbersShortest` | `ShortestHeads` |
| | `EncodingsCanonical` | an encoding is, or begins, another just when the items say the same, for items of any depth |
| | `ItemsCanonical` | `CanonicalBytes` |
| `TrustBundleProofs` | `TypeCorrect` | `TypeOK` |
| | `BundlesAnswerAsTheLog` | `SnapshotAnswered` |
| | `HeldWasSigned` | `HeldOK`: threshold and intact signatures of what the browser holds, for every threshold |
| | `AlterationsAreNoticed` | `TamperEvident`, for every threshold but 0 |
| | `SignedIsStored` | the action property `OnlySignedStored`, for every threshold but 0 |

They rest on the assumptions in the modules: lifetimes, grace, threshold and bounds are naturals,
a bundle is a set of DIDs, validators are finitely many, `None` and `Torn` are none of the
values they stand beside. The bounds (`MaxTime`, `MaxBundles`, ...) are any naturals.
In each module the inductive invariant stands after the properties; its parts were
checked with TLC on the runs' instances before they were proved. Each lemma `...Step`
has one step per action, or per group of actions with one frame.

**Sessions.** `TypeOK` alone is not inductive: `IssueSessionToken` reads the row of the
session its local names, so that `jwt` is typed only if the row was inserted.
`LocalsOK` says so for every program counter, and also that a live row's `last_jti` is
its session's latest token. `ChallengeInv` strengthens `OneSessionPerChallenge` with
the logins in flight: a challenge a handler has consumed is in no row, session or other
handler. `RevocationInv` follows a revocation through its three lock sections: outside
races, the clock it will write is no older than the session's last token (`RevokerOK`),
every blocklist row outlives its token (`BlocklistOK`), and after the deletion nothing
mints and the last token is covered (`RevokedOK`). The action properties are proved
step by step from `TypeOK` and `LocalsOK`, and so is the refinement: each lock section
maps to one of `Open`, `Begin`, `Mint` and `Drop`, or leaves the mapped variables alone
(`RegistryStep`, over the lemmas `RegistryStutter` and `RegistryDrop`).

**Browser session.** A late answer can undo a logout only with a session the storage
does not have. `CallOK` says that a refresh or logout presents the stored session or
one by which it is known to be overtaken, and that what the BFF mints for a refresh is
of the session presented. `LoginOK` says that logins in flight have sessions of their
own, never stored and never left: the only way in for a session is an answered login.
`StoredOK` keeps the BFF from handing out a stored session's identifier again. From
these, `ServedStep`, `MintedStep` and `OutcomeStep` cover the BFF's half and the end of
a call.

**Enrolment.** The log is a file that every command copies and writes back, so `LogOK`
(unique DIDs, growing blocks, a quorum behind each promoted record) is an invariant of
the file and of each command's copy (`ProcOK`), and it does not matter whose save is
the last. `next_block` is a maximum over the log; `WellFormed` makes the last record the
maximum, which avoids an induction over the log's length. A signature in any copy of a
request has been written to that request once (`SignaturesOK`), signatures of a
copy are distinct, and the set of those written only grows: so a count of valid
signatures in a stale copy is a quorum all the same. `FilesOK` says that a
request has a file and a moved one has its quorum's signatures, wherever the writer of a
moved file is. `CeremonyOK` places each challenge: in the dictionary, in one thread, or
in one request.

`DuplicateOK` is about the check of `create`, which looks into two directories while
promotions move files from the first to the second. Once a thread has passed the first
one, either its credential is excused (another create of it overlapped, or a file was
torn), or no other thread is as far with that credential, and a request that has it was
seen to be promoted by then, so that the second directory shows it. `PromotedInLedger`
and `RevocationFinal` are false where two commands save copies of the log that overlap
(run `revocation_lost`); `OneSaver` says that no two are between load and save at once,
and is a hypothesis of the theorems, not an invariant: all else may overlap, other
commands, reads of the log included. With it `LogComplete` is inductive: the log, and
the copy of the one command that will save, hold the DID of every request that is
promoted or beyond its save of the log (`Settled`), and every revocation. With one
process, as in the run `two_submissions`, `OneSaver` holds by itself.

**Bundle distribution.** `Stamped` holds of every copy of a bundle: its `issued_at` is
no later than the revocation of one of its DIDs, except of those in `overlapped`; with
`Expires` that is `RevocationBounded`. `OrderOK` orders the copies by where they are:
a tab's is at most the database's, which is at most what the one handler past the flag
`syncInProgress` has fetched, which is at most the endpoint's. `InformedOK` extends
`TabsInformed` to tabs that do not listen yet.

**The tree and the bundle.** The operators of `Merkle` are recursive functions over
numbers. TLAPS has no induction to offer for them, so the lemmas bring their own: a set
of numbers that is not empty has a least one (`LeastNat`), so a set that holds 0 and
each successor holds all (`Induct`, `InductTo`); and that a recursive function exists is
one such induction. Layers shrink to (n + 1) \div 2 nodes, so a first one of length 1
exists (`Height`). `EveryProofVerifies` is an induction over the layers: what a proof
has made of the leaf by layer k is that layer's node number `Way(i, k)`, padding
included. `RootsBind` goes down from the root: equal parents have equal children, if
the layers are as long as each other; where they are not, padding shows as two equal
nodes side by side, which layers over distinct leaves do not have. Hashes are injective
by construction, which is the assumption on SHA-256. Without distinct leaves the root does
not bind: a, b, c and a, b, c, c have one.

In `TrustBundle`, `SortedByDid` puts each record after as many as belong before it:
ranks of records with different DIDs are a bijection (`Ranking`, `Sorting`), and what is
sorted stays as it is (`SortedStays`), so the verifier's second sort finds the leaves
the generator had. `SignedOK` says that what was signed is the snapshot in `records`;
`FileOK` that a file whose threshold was altered still asks for a signature, and that an
undamaged file is what was signed; `HeldOK` that what the browser stored has the
validators' threshold and as many intact signatures. One signature that verifies is
enough for `SignedIsStored`: it is one for this payload, of which the threshold is a
part. `AlterationsAreNoticed` and `SignedIsStored` assume that the threshold is not 0,
as by its default of 2: `decpki bundle --threshold 0` is accepted, and a file without
signatures then passes the first two checks of `verify`, and `validateBundle`, whatever
it says.

**The encoder.** A head's first byte tells the type and how many bytes of the number
follow (`IsHead`), so that two codes that agree have heads of one length, and the rest
agrees (`HeadsTell`); that these bytes are the number's is a fact about the shifts
(`ShiftedIs`, `HeadIs`). The encoder sorts an object's keys by the length of their encodings
first; a longer key has a head that is greater byte by byte (`ShorterAscends`, by the
digits of the length, `NumberAscends`), so that this is the order of the bytes. `Sorted`
is a permutation by the same `Ranking` as above, `Before` being a strict total order of
the keys' encodings, which differ because the keys do. Lengths are those that 32 bits
hold.

`EncodingsCanonical` is about any set of items that holds the parts of each and in
which a part is less deep than its whole (`Composed`): `encodeItem`'s recursion has one
solution there (`EncodingDef`). Two codes are `Told` apart if, whenever bytes after one
and bytes after the other make the same sequence, those bytes are the same: heads are
(`HeadsTell`), what follows equal heads is if its pieces are (`FlattenTells`), and so, by
induction over the depth, are all codes (`PairTold`, `CodesAgree`). That one code says
one thing goes the same way; that items which say the same have one code needs the sort,
two ascending lists of the same entries being one list (`ListedAlike`). The run's items
are such a set, of depth two (`ItemsComposed`).

Only model-checked: liveness, which the prover does not do: `SyncEnds`, and the browser's
`SilentRefresh`, `RevocationNoticed` and `LogoutQuiets`.

## Departures

Where documents or tests promise something the code does not do. The first three have a
run; the models take most of the others' steps too, but no run states them.

- **`latest_blocked`**: the SELECT, INSERT and DELETE of `revoke_session` are three lock
  sections (`bff/session.py:333`): a refresh in between mints a token nobody blocks.
  `specs/007-session-management/spec.md:80`: "A revoked session token MUST be rejected
  by all protected endpoints immediately after revocation".
- **`revocation_lost`**: commands save whole copies of the log
  (`src/decpki/models.py:142`): a `register` that overlaps an `enrol-revoke` undoes it,
  or loses a promotion.
- **`one_bad_signature`**: `validateBundle` counts the signatures that verify and passes
  over the others (`browser/src/bundle.js:117`): a bundle with one of three signatures
  modified is stored, where two are enough. 003 `data-model.md:27`: "All `signatures`
  must verify against `snapRoot`"; also `spec.md:85` and FR-002 (`spec.md:119`).
- `revoke_session` blocks the row's `last_jti` only (`bff/session.py:339`): tokens from
  before the last refresh are accepted until their `exp` (against the same sentence; 007
  `research.md:66` accepts it for the prototype, so it has no run).
- `list_sessions` drops the second of `expires_at` (`bff/session.py:316`), the
  in-memory store it is a "drop-in replacement" for (`:156`) keeps it (`:132`): in its
  last second a session can still be refreshed (`:291`) but is not listed.
- A refresh that is answered after a logout stores its token in the empty storage, and
  beside the tokens of a newer login if there was one, when `getDid()` no longer is the
  DID of the stored session token (`browser/src/session.js:126`; 005
  `contracts/browser-session-api.md:92`). If it fails instead, it clears the newer
  login's tokens (`session.js:116`). `overtaken` is the exception for both.
- After a reload nothing schedules a refresh (`browser/src/session.js:191`): only
  `getToken` refreshes then. `SilentRefresh` leaves such tabs out.
- `is_jti_revoked` wants `original_exp > now` (`bff/session.py:305`), the JWT library
  still accepts the second of `exp`: a token revoked in the second it was minted is
  accepted again in its last one (against 008 `spec.md:97`).
- Logout leaves the session token valid (005 `spec.md:83` against `research.md:81`).
- `get_did` never looks at the cached bundle's expiry (`bff/bundle_cache.py:46`; 005
  `spec.md:78`: "If the DID is absent or the bundle is expired, login MUST be rejected").
- `self_revoked` is false when the caller's token is not its session's last
  (`bff/main.py:473`; 007 `contracts/bff-sessions-api.md:83`).
- An `enrol-sign` that overlaps a promotion writes the request back as pending
  (`cli/enrol_sign.py:58`; 004 `data-model.md:29`).
- A promoted `add_credential` request adds nothing to the log: `DuplicateDIDError` is
  swallowed (`cli/enrol_sign.py:134`; 004 `data-model.md:47`).
- Two submissions of one credential at once are both accepted (`bff/enrolment.py:109`;
  004 `spec.md:82`).
- `register` and `decpki bundle` count key files, and the browser counts signatures, so
  one validator can be its own quorum (`src/decpki/quorum.py:11`,
  `browser/src/bundle.js:117`; 001 `data-model.md:24`, 003 `spec.md:72`).
- A tab in `init` opens its channel after it has loaded the bundle, and misses an
  update in between (`browser/src/index.js:71`; 003 `spec.md:61`).
- A failed sync saves `lastSync: null` (`browser/sw/decpki-sw.js:185`; 003
  `data-model.md:97`).
- The 80% test is made on activation only (`browser/sw/decpki-sw.js:218`; 003
  `spec.md:129`).
- A revocation between the publisher's load and its clock escapes the grace period
  (`src/decpki/bundle.py:148`; `decentralized-pki-design.md:100`).
- `valid_until` is never compared (001 `data-model.md:17`); a grace of 0 is accepted
  (001 `data-model.md:101`).

## Not modelled

- Cryptography, COSE, HTTP and JSON formats (`cose.py`): the models take their verdicts
  as choices or assume them injective. Python's CBOR is a library.
- `SessionStore`, the in-memory predecessor of `SqliteSessionStore`, which only tests
  construct;
  `EnrolmentStore.add_signature` and `promote`, which nothing calls but tests.
- `registration.js`: two requests in a row, no state; the BFF's side is in `Enrolment`.
- `storage.js`'s in-memory fallback; `keygen` and `inspect`; demos, scripts and the
  tooling under `.specify/`.
- An abstract specification of bundle distribution (a snapshot that only moves forward):
  it would say no more than `NeverBackwards`.

## Plan

Done, in this order: `BffSessions`, `Enrolment`, `BundleSync`, `Merkle` and
`TrustBundle`; then `SessionRegistry` with its refinement, `BrowserSession` composed
with it, and `CanonicalCbor`; then the theorems above.
