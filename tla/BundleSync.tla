------------------------------ MODULE BundleSync ------------------------------
(***************************************************************************)
(* How a trust bundle travels from the identity log to the tabs that       *)
(* verify with it: decpki bundle (cli/decpki_cli.py, src/decpki/bundle.py) *)
(* writes a file that an endpoint serves; the service worker               *)
(* (browser/sw/decpki-sw.js) fetches it into IndexedDB and tells the tabs; *)
(* every tab (browser/src/index.js: DecPKIClient) verifies with the copy   *)
(* it holds in memory.                                                     *)
(*                                                                         *)
(* Handlers of the worker and of the tabs interleave at every await; the   *)
(* browser may kill the worker, and an operator the publisher, at any      *)
(* step.  One clock is read by all: its unit is the second of issued_at    *)
(* and expires_at.  A bundle's signatures and proofs are TrustBundle's.    *)
(***************************************************************************)
EXTENDS Naturals, FiniteSets

CONSTANTS Did,         \* the identities registered when the behaviour starts
          Tab,         \* browser tabs with a DecPKIClient
          Slot,        \* event handlers the worker may be running at once
          Grace,       \* --grace: seconds from issued_at to expires_at
          MaxTime,     \* bound on the clock
          MaxBundles,  \* bound on the bundles generated
          None,        \* nothing there
          Torn         \* the bundle file while, or since, its writer died

\* A bundle, as far as the tabs' answers depend on it; serial numbers the runs
\* of decpki bundle and is in no file.
BundleInfo == [serial: 1 .. MaxBundles, issued_at: 0 .. MaxTime, dids: SUBSET Did]
SyncState  == {"idle", "failed"}

ASSUME BundleSyncAssumption ==
    /\ Grace \in Nat
    /\ MaxTime \in Nat
    /\ MaxBundles \in Nat
    /\ None # Torn
    /\ None \notin Nat
    /\ {None, Torn} \cap BundleInfo = {}

VARIABLES
    now,             \* the clock
    revoked,         \* identity_log.json: when each DID was revoked, or None
    publisher,       \* the run of decpki bundle
    endpoint,        \* the file the endpoint serves
    bundle,          \* IndexedDB bundles/current
    syncState,       \* IndexedDB meta/sync: its status, or None; once there, its
                     \* endpointUrl never changes
    syncInProgress,  \* the worker's flag
    sync,            \* the worker's running handlers
    tab,             \* the tabs, their bundle and their unread broadcasts
    \* History, which no program reads:
    serial,          \* the bundles generated
    overlapped,      \* DIDs revoked while a run was between log and clock
    missed           \* tabs that a stored bundle was not announced to

server == <<revoked, publisher, endpoint, serial, overlapped>>
worker == <<syncInProgress, sync>>
stored == <<bundle, syncState>>
vars   == <<now, server, worker, stored, tab, missed>>

NoRun    == [pc |-> "idle", dids |-> {}, bundle |-> None]
NoSync   == [pc |-> "idle", bundle |-> None]
ClosedTab == [pc |-> "closed", bundle |-> None, inbox |-> FALSE]

Expires(b) == b.issued_at + Grace
Readable(file) == file \notin {None, Torn}

Init ==
    /\ now = 0
    /\ revoked = [d \in Did |-> None]
    /\ publisher = NoRun
    /\ endpoint = None
    /\ bundle = None
    /\ syncState = None
    /\ syncInProgress = FALSE
    /\ sync = [s \in Slot |-> NoSync]
    /\ tab = [t \in Tab |-> ClosedTab]
    /\ serial = 0
    /\ overlapped = {}
    /\ missed = {}

--------------------------------------------------------------------------------
(* The publisher *)

Revoke(d) ==
    /\ revoked[d] = None
    /\ revoked' = [revoked EXCEPT ![d] = now]
    /\ overlapped' = IF publisher.pc = "stamp" THEN overlapped \cup {d} ELSE overlapped
    /\ UNCHANGED <<now, publisher, endpoint, serial, worker, stored, tab, missed>>

\* decpki bundle: the log is loaded, and with it the active records are fixed ...
LoadLog ==
    /\ publisher.pc = "idle"
    /\ serial < MaxBundles
    /\ publisher' = [publisher EXCEPT !.pc = "stamp",
                                      !.dids = {d \in Did : revoked[d] = None}]
    /\ UNCHANGED <<now, revoked, endpoint, serial, overlapped, worker, stored, tab,
                   missed>>

\* ... generate_bundle reads the clock ...
Stamp ==
    /\ publisher.pc = "stamp"
    /\ serial' = serial + 1
    /\ publisher' = [publisher EXCEPT
          !.pc = "open",
          !.bundle = [serial |-> serial + 1, issued_at |-> now, dids |-> publisher.dids]]
    /\ UNCHANGED <<now, revoked, endpoint, overlapped, worker, stored, tab, missed>>

\* ... and write_bytes truncates the file and writes it.
OpenFile ==
    /\ publisher.pc = "open"
    /\ endpoint' = Torn
    /\ publisher' = [publisher EXCEPT !.pc = "write"]
    /\ UNCHANGED <<now, revoked, serial, overlapped, worker, stored, tab, missed>>

WriteFile ==
    /\ publisher.pc = "write"
    /\ endpoint' = publisher.bundle
    /\ publisher' = NoRun
    /\ UNCHANGED <<now, revoked, serial, overlapped, worker, stored, tab, missed>>

KillPublisher ==
    /\ publisher.pc # "idle"
    /\ publisher' = NoRun
    /\ UNCHANGED <<now, revoked, endpoint, serial, overlapped, worker, stored, tab,
                   missed>>

Tick ==
    /\ now < MaxTime
    /\ now' = now + 1
    /\ UNCHANGED <<server, worker, stored, tab, missed>>

--------------------------------------------------------------------------------
(* The service worker *)

\* A SYNC_REQUEST or ONLINE message: loadSyncState, then doSync if an endpoint
\* is known.
Message(s) ==
    /\ sync[s].pc = "idle"
    /\ syncState # None
    /\ sync' = [sync EXCEPT ![s].pc = "start"]
    /\ UNCHANGED <<now, server, syncInProgress, stored, tab, missed>>

\* More than 0.8 of the validity window has elapsed.
Aged(b) == 5 * (now - b.issued_at) > 4 * Grace

\* maybeSyncOnActivate: no bundle yet, or an aged one.
Activate(s) ==
    /\ bundle # None => Aged(bundle)
    /\ Message(s)

\* Mutant of SyncStart: the flag is not looked at.
SyncStartAlways(s) ==
    /\ sync[s].pc = "start"
    /\ syncInProgress' = TRUE
    /\ sync' = [sync EXCEPT ![s].pc = "fetch"]
    /\ UNCHANGED <<now, server, stored, tab, missed>>

\* doSync returns at once while another sync is in progress.
SyncStart(s) ==
    /\ sync[s].pc = "start"
    /\ syncInProgress' = TRUE
    /\ sync' = [sync EXCEPT ![s].pc = IF syncInProgress THEN "idle" ELSE "fetch"]
    /\ UNCHANGED <<now, server, stored, tab, missed>>

\* Mutant of Fetch: response.ok is not looked at.
FetchAnyAnswer(s) ==
    /\ sync[s].pc = "fetch"
    /\ sync' = [sync EXCEPT ![s] = [pc |-> "validate", bundle |-> endpoint]]
    /\ UNCHANGED <<now, server, syncInProgress, stored, tab, missed>>

\* fetch and decodeBundle: the file as it is served now; or an error, the
\* network's or the server's, or that of a torn file.
Fetch(s) ==
    /\ sync[s].pc = "fetch"
    /\ \/ Readable(endpoint)
          /\ sync' = [sync EXCEPT ![s] = [pc |-> "validate", bundle |-> endpoint]]
       \/ sync' = [sync EXCEPT ![s].pc = "saveFailed"]
    /\ UNCHANGED <<now, server, syncInProgress, stored, tab, missed>>

\* validateBundle: a bundle that has expired is refused.
Validate(s) ==
    /\ sync[s].pc = "validate"
    /\ sync' = [sync EXCEPT ![s].pc =
                   IF Expires(sync[s].bundle) <= now THEN "saveFailed" ELSE "saveBundle"]
    /\ UNCHANGED <<now, server, syncInProgress, stored, tab, missed>>

\* The tabs that listen, or will.
OpenTabs == {t \in Tab : tab[t].pc \notin {"closed", "destroyed"}}

\* saveBundle, or the exception of a database that is full.
SaveBundle(s) ==
    /\ sync[s].pc = "saveBundle"
    /\ \/ /\ bundle' = sync[s].bundle
          /\ sync' = [sync EXCEPT ![s].pc = "saveState"]
       \/ /\ sync' = [sync EXCEPT ![s].pc = "saveFailed"]
          /\ UNCHANGED bundle
    /\ UNCHANGED <<now, server, syncInProgress, syncState, tab, missed>>

\* saveSyncState after the bundle; if it throws, the stored bundle stays but is
\* not announced.
SaveState(s) ==
    /\ sync[s].pc = "saveState"
    /\ \/ /\ syncState' = "idle"
          /\ sync' = [sync EXCEPT ![s].pc = "announce"]
          /\ UNCHANGED missed
       \/ /\ sync' = [sync EXCEPT ![s].pc = "saveFailed"]
          /\ missed' = missed \cup OpenTabs
          /\ UNCHANGED syncState
    /\ UNCHANGED <<now, server, syncInProgress, bundle, tab>>

\* BUNDLE_UPDATED on the BroadcastChannel reaches the tabs that listen, and the
\* finally block clears the flag.
Announce(s) ==
    /\ sync[s].pc = "announce"
    /\ tab' = [t \in Tab |-> IF tab[t].pc = "ready"
                             THEN [tab[t] EXCEPT !.inbox = TRUE]
                             ELSE tab[t]]
    /\ missed' = missed \cup {t \in OpenTabs : tab[t].pc # "ready"}
    /\ syncInProgress' = FALSE
    /\ sync' = [sync EXCEPT ![s] = NoSync]
    /\ UNCHANGED <<now, server, stored>>

\* The catch block: saveSyncState, which may throw in its turn ...
SaveFailed(s) ==
    /\ sync[s].pc = "saveFailed"
    /\ syncState' \in {"failed", syncState}
    /\ sync' = [sync EXCEPT ![s] = [pc |-> "finally", bundle |-> None]]
    /\ UNCHANGED <<now, server, syncInProgress, bundle, tab, missed>>

\* Mutant of Finally: the flag is cleared on success only.
FinallyKeepsFlag(s) ==
    /\ sync[s].pc = "finally"
    /\ sync' = [sync EXCEPT ![s] = NoSync]
    /\ UNCHANGED <<now, server, syncInProgress, stored, tab, missed>>

\* ... and the finally block.  No tab acts on SYNC_FAILED.
Finally(s) ==
    /\ sync[s].pc = "finally"
    /\ syncInProgress' = FALSE
    /\ sync' = [sync EXCEPT ![s] = NoSync]
    /\ UNCHANGED <<now, server, stored, tab, missed>>

\* The browser stops the worker: its handlers and its flag are gone.
KillWorker ==
    /\ \E s \in Slot : sync[s].pc # "idle"
    /\ sync' = [s \in Slot |-> NoSync]
    /\ syncInProgress' = FALSE
    /\ missed' = IF \E s \in Slot : sync[s].pc \in {"saveState", "announce"}
                 THEN missed \cup OpenTabs
                 ELSE missed
    /\ UNCHANGED <<now, server, stored, tab>>

--------------------------------------------------------------------------------
(* A tab: DecPKIClient *)

OpenTab(t) ==
    /\ tab[t].pc = "closed"
    /\ tab' = [tab EXCEPT ![t].pc = "loadBundle"]
    /\ missed' = missed \ {t}
    /\ UNCHANGED <<now, server, worker, stored>>

\* init: the stored bundle is loaded ...
LoadBundle(t) ==
    /\ tab[t].pc = "loadBundle"
    /\ tab' = [tab EXCEPT ![t].pc = "loadState", ![t].bundle = bundle]
    /\ missed' = missed \ {t}
    /\ UNCHANGED <<now, server, worker, stored>>

\* ... then the sync state, which is saved when it has no endpoint ...
LoadState(t) ==
    /\ tab[t].pc = "loadState"
    /\ tab' = [tab EXCEPT ![t].pc = IF syncState = None THEN "saveState" ELSE "listen"]
    /\ UNCHANGED <<now, server, worker, stored, missed>>

SaveEndpoint(t) ==
    /\ tab[t].pc = "saveState"
    /\ syncState' = "idle"
    /\ tab' = [tab EXCEPT ![t].pc = "listen"]
    /\ UNCHANGED <<now, server, worker, bundle, missed>>

\* ... and only then does the tab listen to the channel.
Listen(t) ==
    /\ tab[t].pc = "listen"
    /\ tab' = [tab EXCEPT ![t].pc = "ready"]
    /\ UNCHANGED <<now, server, worker, stored, missed>>

\* Mutant of Reload: a message replaces a missing bundle only.
ReloadIfMissing(t) ==
    /\ tab[t].inbox
    /\ tab' = [tab EXCEPT ![t].inbox = FALSE,
                          ![t].bundle = IF @ = None THEN bundle ELSE @]
    /\ missed' = missed \ {t}
    /\ UNCHANGED <<now, server, worker, stored>>

\* onmessage BUNDLE_UPDATED: the tab loads whatever bundle is stored now.
Reload(t) ==
    /\ tab[t].inbox
    /\ tab' = [tab EXCEPT ![t].inbox = FALSE,
                          ![t].bundle = IF bundle = None THEN @ ELSE bundle]
    /\ missed' = missed \ {t}
    /\ UNCHANGED <<now, server, worker, stored>>

\* destroy: the channel is closed, also to a message that waits (one whose bundle is
\* being loaded goes on), but verify still answers from the bundle in memory.
\* During init there is no channel to close yet.
Destroy(t) ==
    /\ tab[t].pc = "ready"
    /\ \E loading \in {FALSE, tab[t].inbox} :
          tab' = [tab EXCEPT ![t].pc = "destroyed", ![t].inbox = loading]
    /\ missed' = missed \ {t}
    /\ UNCHANGED <<now, server, worker, stored>>

\* The tab is closed, or a new client made.
CloseTab(t) ==
    /\ tab[t].pc # "closed"
    /\ tab' = [tab EXCEPT ![t] = ClosedTab]
    /\ missed' = missed \ {t}
    /\ UNCHANGED <<now, server, worker, stored>>

\* Mutant of Outcome: an expired bundle still answers.
OutcomeIgnoresExpiry(t, d) ==
    LET b == tab[t].bundle IN
    CASE b = None   -> "NO_BUNDLE"
      [] b # None   -> IF d \in b.dids THEN "VALID" ELSE "NOT_FOUND"

\* verify, with a bundle whose signatures and proofs hold.
Outcome(t, d) ==
    LET b == tab[t].bundle IN
    CASE b = None                    -> "NO_BUNDLE"
      [] b # None /\ now > Expires(b) -> "EXPIRED"
      [] OTHER                       -> IF d \in b.dids THEN "VALID" ELSE "NOT_FOUND"

--------------------------------------------------------------------------------
SyncStep(s) ==
    SyncStart(s) \/ Fetch(s) \/ Validate(s) \/ SaveBundle(s) \/ SaveState(s)
        \/ Announce(s) \/ SaveFailed(s) \/ Finally(s)

TabStep(t) ==
    OpenTab(t) \/ LoadBundle(t) \/ LoadState(t) \/ SaveEndpoint(t) \/ Listen(t)
        \/ Reload(t) \/ Destroy(t) \/ CloseTab(t)

Publish == LoadLog \/ Stamp \/ OpenFile \/ WriteFile \/ KillPublisher

Next ==
    \/ \E d \in Did : Revoke(d)
    \/ Publish
    \/ Tick
    \/ \E s \in Slot : Message(s) \/ Activate(s) \/ SyncStep(s)
    \/ KillWorker
    \/ \E t \in Tab : TabStep(t)

Spec == Init /\ [][Next]_vars

\* A handler that was started goes on: its promises settle (a fetch is answered
\* or fails).  Nothing is assumed of messages, of the publisher or of the tabs.
FairSpec == Spec /\ \A s \in Slot : WF_vars(SyncStep(s))

--------------------------------------------------------------------------------
(* Properties *)

\* Types; a handler that is past validation holds a bundle.
TypeOK ==
    /\ now \in 0 .. MaxTime
    /\ revoked \in [Did -> 0 .. MaxTime \cup {None}]
    /\ publisher \in [pc: {"idle", "stamp", "open", "write"}, dids: SUBSET Did,
                      bundle: BundleInfo \cup {None}]
    /\ endpoint \in BundleInfo \cup {None, Torn}
    /\ bundle \in BundleInfo \cup {None}
    /\ syncState \in SyncState \cup {None}
    /\ syncInProgress \in BOOLEAN
    /\ sync \in [Slot -> [pc: {"idle", "start", "fetch", "validate", "saveBundle",
                               "saveState", "announce", "saveFailed", "finally"},
                          bundle: BundleInfo \cup {None}]]
    /\ \A s \in Slot : sync[s].pc \in {"validate", "saveBundle", "saveState", "announce"}
                           => sync[s].bundle # None
    /\ tab \in [Tab -> [pc: {"closed", "loadBundle", "loadState", "saveState", "listen",
                             "ready", "destroyed"},
                        bundle: BundleInfo \cup {None}, inbox: BOOLEAN]]
    /\ serial \in 0 .. MaxBundles
    /\ overlapped \subseteq Did
    /\ missed \subseteq Tab

\* A revocation takes effect everywhere within one grace period, whatever the
\* tabs, the worker and the publisher do or fail to do: no tab answers VALID for
\* a DID more than Grace after its revocation, unless a run of decpki bundle had
\* loaded the log before the revocation and read the clock after it.
RevocationBounded ==
    \A t \in Tab, d \in Did :
        Outcome(t, d) = "VALID" /\ revoked[d] # None /\ d \notin overlapped
            => now <= revoked[d] + Grace

\* The stored bundle, and the one a tab holds while it stays open, is only ever
\* replaced by one generated later: syncs that overlap, die or fail never bring
\* an older snapshot back (doSync's flag, and the worker as the only writer).
Older(a, b) == a # None /\ b # None /\ a.serial < b.serial
NeverBackwards ==
    [][/\ ~Older(bundle', bundle)
       /\ \A t \in Tab : ~Older(tab'[t].bundle, tab[t].bundle)]_<<bundle, tab>>

\* A tab that listens and does not hold the stored bundle is about to be told:
\* a broadcast waits for it or the sync that stored the bundle is still to
\* announce it.  Only tabs in missed are without news.
TabsInformed ==
    \A t \in Tab \ missed :
        tab[t].pc = "ready" /\ tab[t].bundle # bundle =>
            tab[t].inbox \/ \E s \in Slot : sync[s].pc \in {"saveState", "announce"}

\* The flag is never left set: a sync that fails or whose saves fail, at any
\* step, does not stop every later one (doSync's finally block).
SyncEnds == syncInProgress ~> ~syncInProgress

--------------------------------------------------------------------------------
(* The inductive invariants behind RevocationBounded, NeverBackwards and   *)
(* TabsInformed.                                                           *)

\* Every copy of a bundle was stamped before a revocation of one of its DIDs, or
\* with the old log in hand; and it is no newer than the runs so far.
Stamped(b) ==
    b # None =>
        /\ b.issued_at <= now
        /\ b.serial <= serial
        /\ \A d \in b.dids : revoked[d] # None /\ d \notin overlapped =>
              b.issued_at <= revoked[d]
PublisherOK ==
    /\ publisher.pc = "stamp" =>
          /\ serial < MaxBundles
          /\ \A d \in publisher.dids : revoked[d] # None => d \in overlapped
    /\ publisher.pc \in {"open", "write"} =>
          publisher.bundle # None /\ publisher.bundle.serial = serial
CopiesOK ==
    /\ PublisherOK
    /\ Stamped(publisher.bundle)
    /\ endpoint # Torn => Stamped(endpoint)
    /\ Stamped(bundle)
    /\ \A s \in Slot : Stamped(sync[s].bundle)
    /\ \A t \in Tab : Stamped(tab[t].bundle)

\* Bundles are newest where they come from: at the endpoint, in the one handler that
\* is past the flag, in the database, in a tab.
AtMost(a, b) == a # None => b # None /\ a.serial <= b.serial
Syncing(s) == sync[s].pc \notin {"idle", "start"}
OrderOK ==
    /\ endpoint # Torn => /\ AtMost(bundle, endpoint)
                          /\ \A s \in Slot : AtMost(sync[s].bundle, endpoint)
    /\ \A s \in Slot : /\ Syncing(s) => syncInProgress
                       /\ sync[s].pc \in {"validate", "saveBundle"} =>
                             AtMost(bundle, sync[s].bundle)
    /\ \A r, s \in Slot : Syncing(r) /\ Syncing(s) => r = s
    /\ \A t \in Tab : AtMost(tab[t].bundle, bundle)

\* As TabsInformed, for the tabs that do not listen yet as well.
InformedOK ==
    \A t \in Tab \ missed :
        tab[t].pc \notin {"closed", "loadBundle", "destroyed"} /\ tab[t].bundle # bundle =>
            \/ tab[t].pc = "ready" /\ tab[t].inbox
            \/ \E s \in Slot : sync[s].pc \in {"saveState", "announce"}
================================================================================
