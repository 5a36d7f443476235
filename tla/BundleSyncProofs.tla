---------------------------- MODULE BundleSyncProofs ----------------------------
(* Proofs about BundleSync, for every value of its constants. *)
EXTENDS BundleSync, TLAPS

USE BundleSyncAssumption

LEMMA InitOK == Init => TypeOK /\ CopiesOK /\ OrderOK /\ InformedOK
  <1> SUFFICES ASSUME Init PROVE TypeOK /\ CopiesOK /\ OrderOK /\ InformedOK
    OBVIOUS
  <1> USE DEF Init, NoRun, NoSync, ClosedTab
  <1>1. TypeOK
    <2>1. publisher \in [pc: {"idle", "stamp", "open", "write"}, dids: SUBSET Did,
                         bundle: BundleInfo \cup {None}]
      OBVIOUS
    <2>2. /\ now \in 0 .. MaxTime /\ serial \in 0 .. MaxBundles
          /\ revoked \in [Did -> 0 .. MaxTime \cup {None}]
      OBVIOUS
    <2> QED
      BY <2>1, <2>2 DEF TypeOK
  <1>2. CopiesOK
    BY DEF CopiesOK, PublisherOK, Stamped
  <1>3. OrderOK
    BY DEF OrderOK, AtMost, Syncing
  <1>4. InformedOK
    BY DEF InformedOK
  <1> QED
    BY <1>1, <1>2, <1>3, <1>4

\* Every step keeps the type invariant.
LEMMA TypeStep == TypeOK /\ CopiesOK /\ [Next]_vars => TypeOK'
  <1> SUFFICES ASSUME TypeOK, CopiesOK, [Next]_vars PROVE TypeOK'
    OBVIOUS
  <1> USE DEF TypeOK, server, worker, stored
  <1>1. ASSUME NEW d \in Did, Revoke(d) PROVE TypeOK'
    BY <1>1 DEF Revoke
  <1>2. CASE LoadLog
    BY <1>2 DEF LoadLog
  <1>3. CASE Stamp
    <2>1. serial + 1 \in 1 .. MaxBundles
      BY <1>3 DEF Stamp, CopiesOK, PublisherOK
    <2>2. [serial |-> serial + 1, issued_at |-> now, dids |-> publisher.dids] \in BundleInfo
      BY <2>1 DEF BundleInfo
    <2> DEFINE b == [serial |-> serial + 1, issued_at |-> now, dids |-> publisher.dids]
    <2>3. publisher' = [publisher EXCEPT !.pc = "open", !.bundle = b]
      BY <1>3 DEF Stamp
    <2>4. b \in BundleInfo /\ serial' \in 0 .. MaxBundles
      BY <1>3, <2>1, <2>2 DEF Stamp
    <2> HIDE DEF b
    <2> QED
      BY <1>3, <2>3, <2>4 DEF Stamp
  <1>4. CASE OpenFile
    BY <1>4 DEF OpenFile
  <1>5. CASE WriteFile
    BY <1>5 DEF WriteFile, NoRun
  <1>6. CASE KillPublisher
    BY <1>6 DEF KillPublisher, NoRun
  <1>7. CASE Tick
    BY <1>7 DEF Tick
  <1>8. ASSUME NEW s \in Slot, Message(s) PROVE TypeOK'
    BY <1>8 DEF Message
  <1>9. ASSUME NEW s \in Slot, SyncStart(s) PROVE TypeOK'
    BY <1>9 DEF SyncStart
  <1>10. ASSUME NEW s \in Slot, Fetch(s) PROVE TypeOK'
    BY <1>10 DEF Fetch, Readable
  <1>11. ASSUME NEW s \in Slot, Validate(s) PROVE TypeOK'
    BY <1>11 DEF Validate
  <1>12. ASSUME NEW s \in Slot, SaveBundle(s) PROVE TypeOK'
    BY <1>12 DEF SaveBundle
  <1>13. ASSUME NEW s \in Slot, SaveState(s) PROVE TypeOK'
    <2>1. syncState' \in SyncState \cup {None} /\ missed' \subseteq Tab
      BY <1>13 DEF SaveState, OpenTabs, SyncState
    <2>2. \E pc \in {"announce", "saveFailed"} : sync' = [sync EXCEPT ![s].pc = pc]
      BY <1>13 DEF SaveState
    <2>3. sync[s].bundle # None
      BY <1>13 DEF SaveState
    <2> QED
      BY <1>13, <2>1, <2>2, <2>3 DEF SaveState
  <1>14. ASSUME NEW s \in Slot, Announce(s) PROVE TypeOK'
    BY <1>14 DEF Announce, OpenTabs, NoSync
  <1>15. ASSUME NEW s \in Slot, SaveFailed(s) PROVE TypeOK'
    BY <1>15 DEF SaveFailed, SyncState
  <1>16. ASSUME NEW s \in Slot, Finally(s) PROVE TypeOK'
    BY <1>16 DEF Finally, NoSync
  <1>17. CASE KillWorker
    BY <1>17 DEF KillWorker, NoSync, OpenTabs
  <1>18. ASSUME NEW t \in Tab, TabStep(t) PROVE TypeOK'
    <2>1. CASE OpenTab(t)
      BY <2>1 DEF OpenTab
    <2>2. CASE LoadBundle(t)
      <3>1. tab' = [tab EXCEPT ![t] = [tab[t] EXCEPT !.pc = "loadState",
                                                     !.bundle = bundle]]
        BY <2>2 DEF LoadBundle
      <3> QED
        BY <2>2, <3>1 DEF LoadBundle
    <2>3. CASE LoadState(t)
      BY <2>3 DEF LoadState
    <2>4. CASE SaveEndpoint(t)
      BY <2>4 DEF SaveEndpoint, SyncState
    <2>5. CASE Listen(t)
      BY <2>5 DEF Listen
    <2>6. CASE Reload(t)
      <3> DEFINE b == IF bundle = None THEN tab[t].bundle ELSE bundle
      <3>1. tab' = [tab EXCEPT ![t] = [tab[t] EXCEPT !.inbox = FALSE, !.bundle = b]]
        BY <2>6 DEF Reload
      <3>2. b \in BundleInfo \cup {None}
        OBVIOUS
      <3> DEFINE State == [pc: {"closed", "loadBundle", "loadState", "saveState", "listen",
                                "ready", "destroyed"},
                           bundle: BundleInfo \cup {None}, inbox: BOOLEAN]
      <3>3. tab \in [Tab -> State]
        OBVIOUS
      <3> HIDE DEF b
      <3>4. [tab[t] EXCEPT !.inbox = FALSE, !.bundle = b] \in State
        BY <3>2, <3>3
      <3> HIDE DEF State
      <3>5. tab' \in [Tab -> State]
        BY <3>1, <3>3, <3>4
      <3> USE DEF State
      <3> QED
        BY <2>6, <3>5 DEF Reload
    <2>7. CASE CloseTab(t)
      BY <2>7 DEF CloseTab, ClosedTab
    <2>8. CASE Destroy(t)
      <3>1. PICK loading \in BOOLEAN :
               tab' = [tab EXCEPT ![t] = [tab[t] EXCEPT !.pc = "destroyed", !.inbox = loading]]
        BY <2>8 DEF Destroy
      <3> DEFINE State == [pc: {"closed", "loadBundle", "loadState", "saveState", "listen",
                                "ready", "destroyed"},
                           bundle: BundleInfo \cup {None}, inbox: BOOLEAN]
      <3>2. tab[t] \in State /\ tab \in [Tab -> State]
        OBVIOUS
      <3>3. ASSUME NEW B, NEW C, NEW old \in [pc: C, bundle: B, inbox: BOOLEAN], "destroyed" \in C
            PROVE  [old EXCEPT !.pc = "destroyed", !.inbox = loading]
                      \in [pc: C, bundle: B, inbox: BOOLEAN]
        BY <3>3
      <3>4. [tab[t] EXCEPT !.pc = "destroyed", !.inbox = loading] \in State
        BY <3>2, <3>3
      <3> HIDE DEF State
      <3>5. tab' \in [Tab -> State]
        BY <3>1, <3>2, <3>4
      <3> USE DEF State
      <3> QED
        BY <2>8, <3>5 DEF Destroy
    <2> QED
      BY <1>18, <2>1, <2>2, <2>3, <2>4, <2>5, <2>6, <2>7, <2>8 DEF TabStep
  <1>19. CASE UNCHANGED vars
    BY <1>19 DEF vars
  <1> QED
    BY <1>1, <1>2, <1>3, <1>4, <1>5, <1>6, <1>7, <1>8, <1>9, <1>10, <1>11, <1>12, <1>13,
       <1>14, <1>15, <1>16, <1>17, <1>18, <1>19 DEF Next, Publish, SyncStep, Activate

--------------------------------------------------------------------------------
(* Copies of bundles *)

\* Time passes, runs are counted and DIDs are revoked now: a bundle stays stamped.
LEMMA StampedKept ==
  ASSUME TypeOK, TypeOK', now <= now', serial <= serial', overlapped \subseteq overlapped',
         \A d \in Did : revoked'[d] = revoked[d] \/ (revoked[d] = None /\ revoked'[d] = now),
         NEW b \in BundleInfo, Stamped(b)
  PROVE  Stamped(b)'
  <1>1. /\ b.issued_at \in Nat /\ b.serial \in Nat /\ b.dids \subseteq Did
        /\ now \in Nat /\ now' \in Nat /\ serial \in Nat /\ serial' \in Nat
    BY DEF BundleInfo, TypeOK
  <1> QED
    BY <1>1 DEF Stamped

\* A step after which every copy is one of the copies there were.
LEMMA CopiesFrom ==
  ASSUME TypeOK, TypeOK', CopiesOK, now <= now', serial <= serial',
         overlapped \subseteq overlapped',
         \A d \in Did : revoked'[d] = revoked[d] \/ (revoked[d] = None /\ revoked'[d] = now),
         publisher'.bundle \in {publisher.bundle, None},
         endpoint' \in {endpoint, Torn, publisher.bundle},
         bundle' \in {bundle} \cup {sync[s].bundle : s \in Slot},
         \A s \in Slot : sync'[s].bundle \in
            {sync[s].bundle, None} \cup {e \in {endpoint} : Readable(e)},
         \A t \in Tab : tab'[t].bundle \in {tab[t].bundle, bundle, None},
         PublisherOK'
  PROVE  CopiesOK'
  <1>1. \A b \in BundleInfo \cup {None} : Stamped(b) => Stamped(b)'
    BY StampedKept DEF Stamped
  <1>2. Stamped(publisher.bundle)'
    BY <1>1 DEF CopiesOK, TypeOK, Stamped
  <1>3. endpoint' # Torn => Stamped(endpoint)'
    BY <1>1 DEF CopiesOK, TypeOK
  <1>4. Stamped(bundle)'
    BY <1>1 DEF CopiesOK, TypeOK
  <1>5. \A s \in Slot : Stamped(sync[s].bundle)'
    BY <1>1 DEF CopiesOK, TypeOK, Stamped, Readable
  <1>6. \A t \in Tab : Stamped(tab[t].bundle)'
    BY <1>1 DEF CopiesOK, TypeOK, Stamped
  <1> QED
    BY <1>2, <1>3, <1>4, <1>5, <1>6 DEF CopiesOK

LEMMA CopiesStep == TypeOK /\ TypeOK' /\ CopiesOK /\ [Next]_vars => CopiesOK'
  <1> SUFFICES ASSUME TypeOK, TypeOK', CopiesOK, [Next]_vars PROVE CopiesOK'
    OBVIOUS
  <1> USE DEF server, worker, stored
  <1>0. now \in Nat /\ now <= now /\ serial \in Nat /\ serial <= serial
    BY DEF TypeOK
  <1>1. ASSUME NEW d \in Did, Revoke(d) PROVE CopiesOK'
    <2>1. PublisherOK'
      BY <1>1 DEF Revoke, CopiesOK, PublisherOK, TypeOK
    <2>2. \A e \in Did : revoked'[e] = revoked[e] \/ (revoked[e] = None /\ revoked'[e] = now)
      BY <1>1 DEF Revoke, TypeOK
    <2>3. /\ overlapped \subseteq overlapped'
          /\ UNCHANGED <<now, serial, publisher, endpoint, bundle, sync, tab>>
      BY <1>1 DEF Revoke
    <2> QED
      BY <1>0, <2>1, <2>2, <2>3, CopiesFrom
  <1>2. CASE LoadLog
    <2>1. PublisherOK' /\ publisher'.bundle = publisher.bundle
      BY <1>2 DEF LoadLog, CopiesOK, PublisherOK, TypeOK
    <2>2. UNCHANGED <<now, serial, revoked, overlapped, endpoint, bundle, sync, tab>>
      BY <1>2 DEF LoadLog
    <2> QED
      BY <1>0, <2>1, <2>2, CopiesFrom
  <1>3. CASE Stamp
    <2>1. serial + 1 \in 1 .. MaxBundles
      BY <1>3 DEF Stamp, CopiesOK, PublisherOK, TypeOK
    <2>A. PICK w : w = [serial |-> serial + 1, issued_at |-> now, dids |-> publisher.dids]
      OBVIOUS
    <2>B. w \in BundleInfo
      BY <2>1, <2>A DEF BundleInfo, TypeOK
    <2>C. publisher' = [publisher EXCEPT !.pc = "open", !.bundle = w]
      BY <1>3, <2>A DEF Stamp
    <2>2. PICK b \in BundleInfo :
             /\ publisher' = [publisher EXCEPT !.pc = "open", !.bundle = b]
             /\ b.serial = serial + 1 /\ b.issued_at = now /\ b.dids = publisher.dids
      BY <2>A, <2>B, <2>C
    <2>3. /\ serial' = serial + 1 /\ publisher.pc = "stamp"
          /\ UNCHANGED <<now, revoked, endpoint, overlapped, bundle, sync, tab>>
      BY <1>3 DEF Stamp
    <2>4. Stamped(b)'
      BY <1>0, <2>2, <2>3 DEF Stamped, CopiesOK, PublisherOK, TypeOK
    <2>5. publisher'.bundle = b /\ publisher'.pc = "open"
      BY <2>2 DEF TypeOK
    <2>6. \A c \in BundleInfo \cup {None} : Stamped(c) => Stamped(c)'
      BY <1>0, <2>3, StampedKept DEF Stamped
    <2>7. PublisherOK'
      BY <2>2, <2>3, <2>5 DEF PublisherOK
    <2>8. Stamped(publisher.bundle)'
      BY <2>4, <2>5 DEF Stamped
    <2>9. /\ endpoint' # Torn => Stamped(endpoint)'
          /\ Stamped(bundle)'
      BY <2>3, <2>6 DEF CopiesOK, TypeOK
    <2>10. \A s \in Slot : Stamped(sync[s].bundle)'
      BY <2>3, <2>6 DEF CopiesOK, TypeOK
    <2>11. \A t \in Tab : Stamped(tab[t].bundle)'
      BY <2>3, <2>6 DEF CopiesOK, TypeOK
    <2> QED
      BY <2>7, <2>8, <2>9, <2>10, <2>11 DEF CopiesOK
  <1>4. CASE OpenFile \/ WriteFile \/ KillPublisher
    <2>1. /\ publisher'.bundle \in {publisher.bundle, None}
          /\ endpoint' \in {endpoint, Torn, publisher.bundle}
          /\ UNCHANGED <<now, revoked, serial, overlapped, bundle, sync, tab>>
      BY <1>4 DEF OpenFile, WriteFile, KillPublisher, NoRun, TypeOK
    <2>2. PublisherOK'
      BY <1>4 DEF OpenFile, WriteFile, KillPublisher, NoRun, CopiesOK, PublisherOK, TypeOK
    <2> QED
      BY <1>0, <2>1, <2>2, CopiesFrom
  <1>5. CASE Tick
    <2>1. now <= now' /\ UNCHANGED <<server, bundle, sync, tab>>
      BY <1>0, <1>5 DEF Tick
    <2> QED
      BY <1>0, <2>1, CopiesFrom DEF CopiesOK, PublisherOK
  <1>6. ASSUME UNCHANGED <<now, server>>,
               bundle' \in {bundle} \cup {sync[s].bundle : s \in Slot},
               \A s \in Slot : sync'[s].bundle \in
                  {sync[s].bundle, None} \cup {e \in {endpoint} : Readable(e)},
               \A t \in Tab : tab'[t].bundle \in {tab[t].bundle, bundle, None}
        PROVE  CopiesOK'
    BY <1>0, <1>6, CopiesFrom DEF CopiesOK, PublisherOK
  <1>7. ASSUME NEW s \in Slot, Message(s) \/ SyncStep(s) PROVE CopiesOK'
    <2>1. \A r \in Slot : sync'[r].bundle \in
             {sync[r].bundle, None} \cup {e \in {endpoint} : Readable(e)}
      BY <1>7 DEF Message, SyncStep, SyncStart, Fetch, Validate, SaveBundle, SaveState,
         Announce, SaveFailed, Finally, NoSync, TypeOK
    <2>2. \A t \in Tab : tab'[t].bundle = tab[t].bundle
      BY <1>7 DEF Message, SyncStep, SyncStart, Fetch, Validate, SaveBundle, SaveState,
         Announce, SaveFailed, Finally, TypeOK
    <2>3. UNCHANGED <<now, server>> /\ bundle' \in {bundle, sync[s].bundle}
      BY <1>7 DEF Message, SyncStep, SyncStart, Fetch, Validate, SaveBundle, SaveState,
         Announce, SaveFailed, Finally
    <2> QED
      BY <1>6, <2>1, <2>2, <2>3
  <1>8. CASE KillWorker
    BY <1>6, <1>8 DEF KillWorker, NoSync
  <1>9. ASSUME NEW t \in Tab, TabStep(t) PROVE CopiesOK'
    <2>1. \A u \in Tab : tab'[u].bundle \in {tab[u].bundle, bundle, None}
      BY <1>9 DEF TabStep, OpenTab, LoadBundle, LoadState, SaveEndpoint, Listen, Reload,
         Destroy, CloseTab, ClosedTab, TypeOK
    <2>2. UNCHANGED <<now, server, bundle, sync>>
      BY <1>9 DEF TabStep, OpenTab, LoadBundle, LoadState, SaveEndpoint, Listen, Reload,
         Destroy, CloseTab
    <2> QED
      BY <1>6, <2>1, <2>2
  <1>10. CASE UNCHANGED vars
    BY <1>6, <1>10 DEF vars
  <1> QED
    BY <1>1, <1>2, <1>3, <1>4, <1>5, <1>7, <1>8, <1>9, <1>10 DEF Next, Publish, Activate

--------------------------------------------------------------------------------
(* Their order *)

LEMMA AtMostOrder ==
  ASSUME NEW a \in BundleInfo \cup {None}, NEW b \in BundleInfo \cup {None},
         NEW c \in BundleInfo \cup {None}
  PROVE  AtMost(a, a) /\ (AtMost(a, b) /\ AtMost(b, c) => AtMost(a, c))
  <1>1. \A x \in BundleInfo : x.serial \in Nat
    BY DEF BundleInfo
  <1> QED
    BY <1>1 DEF AtMost

LEMMA OrderStep ==
  TypeOK /\ TypeOK' /\ CopiesOK /\ OrderOK /\ [Next]_vars => OrderOK'
  <1> SUFFICES ASSUME TypeOK, TypeOK', CopiesOK, OrderOK, [Next]_vars PROVE OrderOK'
    OBVIOUS
  <1> USE DEF server, worker, stored
  <1>1. ASSUME UNCHANGED <<bundle, worker, tab>>, endpoint' \in {endpoint, Torn}
        PROVE  OrderOK'
    BY <1>1 DEF OrderOK, Syncing
  <1>2. ASSUME NEW d \in Did, Revoke(d) PROVE OrderOK'
    BY <1>1, <1>2 DEF Revoke
  <1>3. CASE LoadLog \/ Stamp \/ OpenFile \/ KillPublisher \/ Tick
    BY <1>1, <1>3 DEF LoadLog, Stamp, OpenFile, KillPublisher, Tick
  <1>4. CASE WriteFile
    <2>1. /\ endpoint' = publisher.bundle
          /\ UNCHANGED <<bundle, worker, tab>>
      BY <1>4 DEF WriteFile
    <2>2. \A b \in BundleInfo \cup {None} : Stamped(b) => AtMost(b, publisher.bundle)
      BY <1>4 DEF WriteFile, CopiesOK, PublisherOK, Stamped, AtMost
    <2>3. AtMost(bundle, publisher.bundle)
      BY <2>2 DEF CopiesOK, TypeOK
    <2>4. \A s \in Slot : AtMost(sync[s].bundle, publisher.bundle)
      BY <2>2 DEF CopiesOK, TypeOK
    <2> QED
      BY <2>1, <2>3, <2>4 DEF OrderOK, Syncing
  <1>5. ASSUME NEW s \in Slot, Message(s) PROVE OrderOK'
    BY <1>5 DEF Message, OrderOK, Syncing, TypeOK
  <1>6. ASSUME NEW s \in Slot, SyncStart(s) PROVE OrderOK'
    BY <1>6 DEF SyncStart, OrderOK, Syncing, TypeOK
  \* The handler that is past the flag goes on, with its bundle or without.
  <1>7. ASSUME NEW s \in Slot, Syncing(s),
               UNCHANGED <<endpoint, bundle, syncInProgress>>,
               \A r \in Slot \ {s} : sync'[r] = sync[r],
               sync'[s].bundle \in {sync[s].bundle, None},
               sync'[s].pc = "saveBundle" =>
                  sync[s].pc = "validate" /\ sync'[s].bundle = sync[s].bundle,
               sync'[s].pc # "validate",
               \A t \in Tab : tab'[t].bundle = tab[t].bundle
        PROVE  OrderOK'
    BY <1>7 DEF OrderOK, Syncing, AtMost
  <1>8. ASSUME NEW s \in Slot, Fetch(s) PROVE OrderOK'
    <2>1. CASE sync' = [sync EXCEPT ![s].pc = "saveFailed"]
      BY <1>7, <1>8, <2>1 DEF Fetch, Syncing, TypeOK
    <2>2. CASE /\ Readable(endpoint)
               /\ sync' = [sync EXCEPT ![s] = [pc |-> "validate", bundle |-> endpoint]]
      <3>1. endpoint \in BundleInfo /\ endpoint # Torn
        BY <2>2 DEF Readable, TypeOK
      <3>2. AtMost(endpoint, endpoint)
        BY <3>1, AtMostOrder
      <3>3. /\ sync'[s].bundle = endpoint /\ sync'[s].pc = "validate"
            /\ \A r \in Slot \ {s} : sync'[r] = sync[r]
            /\ sync[s].pc = "fetch"
            /\ UNCHANGED <<endpoint, bundle, syncInProgress, tab>>
        BY <1>8, <2>2 DEF Fetch, TypeOK
      <3> QED
        BY <3>1, <3>2, <3>3 DEF OrderOK, Syncing
    <2> QED
      BY <1>8, <2>1, <2>2 DEF Fetch
  <1>9. ASSUME NEW s \in Slot, Validate(s) PROVE OrderOK'
    <2>1. PICK pc \in {"saveFailed", "saveBundle"} : sync' = [sync EXCEPT ![s].pc = pc]
      BY <1>9 DEF Validate
    <2> QED
      BY <1>7, <1>9, <2>1 DEF Validate, Syncing, TypeOK
  <1>10. ASSUME NEW s \in Slot, SaveBundle(s) PROVE OrderOK'
    <2>1. CASE sync' = [sync EXCEPT ![s].pc = "saveFailed"] /\ UNCHANGED bundle
      BY <1>7, <1>10, <2>1 DEF SaveBundle, Syncing, TypeOK
    <2>2. CASE bundle' = sync[s].bundle /\ sync' = [sync EXCEPT ![s].pc = "saveState"]
      <3>1. /\ sync[s].pc = "saveBundle" /\ sync'[s].pc = "saveState"
            /\ sync'[s].bundle = sync[s].bundle
            /\ \A r \in Slot \ {s} : sync'[r] = sync[r]
            /\ UNCHANGED <<endpoint, syncInProgress, tab>>
        BY <1>10, <2>2 DEF SaveBundle, TypeOK
      <3>2. AtMost(bundle, bundle')
        BY <2>2, <3>1 DEF OrderOK
      <3>3. \A t \in Tab : AtMost(tab[t].bundle, bundle')
        <4>1. /\ bundle \in BundleInfo \cup {None} /\ bundle' \in BundleInfo \cup {None}
              /\ \A t \in Tab : tab[t].bundle \in BundleInfo \cup {None}
          BY DEF TypeOK
        <4>2. \A t \in Tab : AtMost(tab[t].bundle, bundle)
          BY DEF OrderOK
        <4> QED
          BY <3>2, <4>1, <4>2, AtMostOrder
      <3>4. endpoint # Torn => AtMost(bundle', endpoint)
        BY <2>2 DEF OrderOK
      <3>5. \A r \in Slot : /\ sync'[r].bundle = sync[r].bundle
                            /\ Syncing(r)' <=> Syncing(r)
        BY <3>1 DEF Syncing
      <3>6. \A r \in Slot : sync'[r].pc \notin {"validate", "saveBundle"}
        BY <3>1 DEF OrderOK, Syncing
      <3>7. \A q, r \in Slot : Syncing(q)' /\ Syncing(r)' => q = r
        BY <3>5 DEF OrderOK
      <3>8. \A r \in Slot : Syncing(r)' => syncInProgress'
        BY <3>1, <3>5 DEF OrderOK
      <3>9. endpoint' # Torn => \A r \in Slot : AtMost(sync[r].bundle, endpoint)'
        BY <3>1, <3>5 DEF OrderOK, AtMost
      <3>10. endpoint' # Torn => AtMost(bundle, endpoint)'
        BY <3>1, <3>4 DEF AtMost
      <3>11. \A t \in Tab : AtMost(tab[t].bundle, bundle)'
        BY <3>1, <3>3 DEF AtMost
      <3> QED
        BY <3>6, <3>7, <3>8, <3>9, <3>10, <3>11 DEF OrderOK
    <2> QED
      BY <1>10, <2>1, <2>2 DEF SaveBundle
  <1>11. ASSUME NEW s \in Slot, SaveState(s) PROVE OrderOK'
    <2>1. PICK pc \in {"saveFailed", "announce"} : sync' = [sync EXCEPT ![s].pc = pc]
      BY <1>11 DEF SaveState
    <2> QED
      BY <1>7, <1>11, <2>1 DEF SaveState, Syncing, TypeOK
  <1>12. ASSUME NEW s \in Slot, SaveFailed(s) PROVE OrderOK'
    BY <1>7, <1>12 DEF SaveFailed, Syncing, TypeOK
  <1>13. ASSUME NEW s \in Slot, Announce(s) \/ Finally(s) PROVE OrderOK'
    <2>1. /\ sync[s].pc \in {"announce", "finally"} /\ sync'[s] = NoSync
          /\ \A r \in Slot \ {s} : sync'[r] = sync[r]
          /\ UNCHANGED <<endpoint, bundle>> /\ syncInProgress' = FALSE
          /\ \A t \in Tab : tab'[t].bundle = tab[t].bundle
      <3>1. CASE Announce(s)
        <4>1. \A t \in Tab : tab'[t].bundle = tab[t].bundle
          BY <3>1 DEF Announce, TypeOK
        <4> QED
          BY <3>1, <4>1 DEF Announce, TypeOK
      <3>2. CASE Finally(s)
        BY <3>2 DEF Finally, TypeOK
      <3> QED
        BY <1>13, <3>1, <3>2
    <2>2. \A r \in Slot : ~Syncing(r)' /\ sync'[r].bundle \in {sync[r].bundle, None}
      BY <2>1 DEF OrderOK, Syncing, NoSync
    <2>3. \A r \in Slot : sync'[r].pc \notin {"validate", "saveBundle"}
      BY <2>2 DEF Syncing
    <2>4. endpoint' # Torn => /\ AtMost(bundle, endpoint)'
                              /\ \A r \in Slot : AtMost(sync[r].bundle, endpoint)'
      BY <2>1, <2>2 DEF OrderOK, AtMost
    <2>5. \A t \in Tab : AtMost(tab[t].bundle, bundle)'
      BY <2>1 DEF OrderOK, AtMost
    <2> QED
      BY <2>2, <2>3, <2>4, <2>5 DEF OrderOK
  <1>14. CASE KillWorker
    <2>1. /\ \A s \in Slot : sync'[s].pc = "idle" /\ sync'[s].bundle = None
          /\ UNCHANGED <<endpoint, bundle, tab>>
      BY <1>14 DEF KillWorker, NoSync
    <2> QED
      BY <2>1 DEF OrderOK, Syncing, AtMost
  <1>15. ASSUME NEW t \in Tab, TabStep(t) PROVE OrderOK'
    <2>1. \A u \in Tab : tab'[u].bundle \in {tab[u].bundle, bundle, None}
      BY <1>15 DEF TabStep, OpenTab, LoadBundle, LoadState, SaveEndpoint, Listen, Reload,
         Destroy, CloseTab, ClosedTab, TypeOK
    <2>2. UNCHANGED <<endpoint, bundle, worker>>
      BY <1>15 DEF TabStep, OpenTab, LoadBundle, LoadState, SaveEndpoint, Listen, Reload,
         Destroy, CloseTab
    <2>3. AtMost(bundle, bundle) /\ AtMost(None, bundle)
      BY AtMostOrder DEF TypeOK, AtMost
    <2> QED
      BY <2>1, <2>2, <2>3 DEF OrderOK, Syncing
  <1>16. CASE UNCHANGED vars
    BY <1>1, <1>16 DEF vars
  <1> QED
    BY <1>2, <1>3, <1>4, <1>5, <1>6, <1>8, <1>9, <1>10, <1>11, <1>12, <1>13, <1>14, <1>15,
       <1>16 DEF Next, Publish, SyncStep, Activate

\* The step that NeverBackwards allows: the stored bundle comes from a handler that
\* found it no newer, a tab's from the database.
LEMMA ForwardStep ==
  TypeOK /\ OrderOK /\ [Next]_vars =>
    [/\ ~Older(bundle', bundle)
     /\ \A t \in Tab : ~Older(tab'[t].bundle, tab[t].bundle)]_<<bundle, tab>>
  <1> SUFFICES ASSUME TypeOK, OrderOK, [Next]_vars
      PROVE /\ ~Older(bundle', bundle)
            /\ \A t \in Tab : ~Older(tab'[t].bundle, tab[t].bundle)
    OBVIOUS
  <1> USE DEF server, worker, stored
  <1>1. ASSUME NEW a \in BundleInfo \cup {None}, NEW b \in BundleInfo \cup {None},
               b \in {a, None} \/ AtMost(a, b)
        PROVE  ~Older(b, a)
    <2>1. \A x \in BundleInfo : x.serial \in Nat
      BY DEF BundleInfo
    <2> QED
      BY <1>1, <2>1 DEF AtMost, Older
  <1>2. bundle' = bundle \/ \E s \in Slot : sync[s].pc = "saveBundle" /\ bundle' = sync[s].bundle
    BY DEF Next, vars, Revoke, Publish, LoadLog, Stamp, OpenFile, WriteFile, KillPublisher,
       Tick, Message, Activate, SyncStep, SyncStart, Fetch, Validate, SaveBundle, SaveState,
       Announce, SaveFailed, Finally, KillWorker, TabStep, OpenTab, LoadBundle, LoadState,
       SaveEndpoint, Listen, Reload, Destroy, CloseTab
  <1>3. ~Older(bundle', bundle)
    BY <1>1, <1>2 DEF OrderOK, TypeOK
  <1>4. \A t \in Tab : tab'[t].bundle \in {tab[t].bundle, bundle, None}
    <2>1. ASSUME NEW s \in Slot, Announce(s)
          PROVE  \A t \in Tab : tab'[t].bundle = tab[t].bundle
      BY <2>1 DEF Announce, TypeOK
    <2>2. ASSUME NEW t \in Tab, TabStep(t)
          PROVE  \A u \in Tab : tab'[u].bundle \in {tab[u].bundle, bundle, None}
      BY <2>2 DEF TabStep, OpenTab, LoadBundle, LoadState, SaveEndpoint, Listen, Reload,
         Destroy, CloseTab, ClosedTab, TypeOK
    <2>3. \/ tab' = tab
          \/ \E s \in Slot : Announce(s)
          \/ \E t \in Tab : TabStep(t)
      BY DEF Next, vars, Revoke, Publish, LoadLog, Stamp, OpenFile, WriteFile,
         KillPublisher, Tick, Message, Activate, SyncStep, SyncStart, Fetch, Validate,
         SaveBundle, SaveState, SaveFailed, Finally, KillWorker
    <2> QED
      BY <2>1, <2>2, <2>3
  <1>5. ASSUME NEW t \in Tab PROVE ~Older(tab'[t].bundle, tab[t].bundle)
    <2>1. /\ tab[t].bundle \in BundleInfo \cup {None}
          /\ bundle \in BundleInfo \cup {None}
          /\ AtMost(tab[t].bundle, bundle)
      BY DEF TypeOK, OrderOK
    <2>2. tab'[t].bundle \in {tab[t].bundle, bundle, None}
      BY <1>4
    <2> QED
      BY <1>1, <2>1, <2>2
  <1> QED
    BY <1>3, <1>5

--------------------------------------------------------------------------------
(* News of them *)

LEMMA InformedStep ==
  TypeOK /\ OrderOK /\ InformedOK /\ [Next]_vars => InformedOK'
  <1> SUFFICES ASSUME TypeOK, OrderOK, InformedOK, [Next]_vars PROVE InformedOK'
    OBVIOUS
  <1> USE DEF server, worker, stored
  <1>1. ASSUME UNCHANGED <<bundle, tab, missed>>,
               \A s \in Slot : sync[s].pc \in {"saveState", "announce"} =>
                                  sync'[s].pc \in {"saveState", "announce"}
        PROVE  InformedOK'
    BY <1>1 DEF InformedOK
  <1>2. ASSUME NEW s \in Slot,
               \/ Message(s) \/ SyncStart(s) \/ Fetch(s) \/ Validate(s) \/ SaveFailed(s)
               \/ Finally(s)
        PROVE  InformedOK'
    BY <1>1, <1>2 DEF Message, SyncStart, Fetch, Validate, SaveFailed, Finally, TypeOK
  <1>3. ASSUME NEW s \in Slot, SaveBundle(s) PROVE InformedOK'
    <2>1. CASE sync' = [sync EXCEPT ![s].pc = "saveFailed"] /\ UNCHANGED bundle
      BY <1>1, <1>3, <2>1 DEF SaveBundle, TypeOK
    <2>2. CASE sync' = [sync EXCEPT ![s].pc = "saveState"]
      <3>1. sync'[s].pc = "saveState"
        BY <2>2 DEF TypeOK
      <3> QED
        BY <3>1 DEF InformedOK
    <2> QED
      BY <1>3, <2>1, <2>2 DEF SaveBundle
  <1>4. ASSUME NEW s \in Slot, SaveState(s) PROVE InformedOK'
    <2>1. CASE sync' = [sync EXCEPT ![s].pc = "announce"]
      <3>1. sync'[s].pc = "announce"
        BY <2>1 DEF TypeOK
      <3> QED
        BY <3>1 DEF InformedOK
    <2>2. CASE missed' = missed \cup OpenTabs
      BY <1>4, <2>2 DEF SaveState, OpenTabs, InformedOK
    <2> QED
      BY <1>4, <2>1, <2>2 DEF SaveState
  <1>5. ASSUME NEW s \in Slot, Announce(s) PROVE InformedOK'
    <2>1. ASSUME NEW t \in Tab, t \notin missed',
                 tab'[t].pc \notin {"closed", "loadBundle", "destroyed"}
          PROVE  tab'[t].pc = "ready" /\ tab'[t].inbox
      <3>1. tab[t].pc = "ready"
        BY <1>5, <2>1 DEF Announce, OpenTabs
      <3> QED
        BY <1>5, <3>1 DEF Announce, TypeOK
    <2> QED
      BY <2>1 DEF InformedOK
  <1>6. CASE KillWorker
    <2>1. CASE \E s \in Slot : sync[s].pc \in {"saveState", "announce"}
      BY <1>6, <2>1 DEF KillWorker, OpenTabs, InformedOK
    <2>2. CASE ~\E s \in Slot : sync[s].pc \in {"saveState", "announce"}
      BY <1>1, <1>6, <2>2 DEF KillWorker
    <2> QED
      BY <2>1, <2>2
  <1>7. ASSUME NEW t \in Tab, TabStep(t) PROVE InformedOK'
    <2>1. /\ UNCHANGED <<bundle, sync>> /\ missed \subseteq missed' \cup {t}
          /\ \A u \in Tab \ {t} : tab'[u] = tab[u]
      BY <1>7 DEF TabStep, OpenTab, LoadBundle, LoadState, SaveEndpoint, Listen, Reload,
         Destroy, CloseTab, TypeOK
    <2>2. \/ tab'[t].pc \in {"closed", "loadBundle", "destroyed"}
          \/ tab'[t].bundle = bundle
          \/ /\ missed' = missed
             /\ tab[t].pc \notin {"closed", "loadBundle", "destroyed", "ready"}
             /\ tab'[t].bundle = tab[t].bundle
      <3>1. CASE OpenTab(t) \/ CloseTab(t)
        BY <3>1 DEF OpenTab, CloseTab, ClosedTab, TypeOK
      <3>2. CASE LoadBundle(t)
        BY <3>2 DEF LoadBundle, TypeOK
      <3>3. CASE LoadState(t) \/ SaveEndpoint(t) \/ Listen(t)
        BY <3>3 DEF LoadState, SaveEndpoint, Listen, TypeOK
      <3>4. CASE Reload(t)
        <4>1. bundle = None => tab[t].bundle = None
          BY DEF OrderOK, AtMost
        <4> QED
          BY <3>4, <4>1 DEF Reload, TypeOK
      <3>5. CASE Destroy(t)
        BY <3>5 DEF Destroy, TypeOK
      <3> QED
        BY <1>7, <3>1, <3>2, <3>3, <3>4, <3>5 DEF TabStep
    <2> QED
      BY <2>1, <2>2 DEF InformedOK
  <1>8. ASSUME NEW d \in Did, Revoke(d) PROVE InformedOK'
    BY <1>1, <1>8 DEF Revoke
  <1>9. CASE Publish \/ Tick \/ UNCHANGED vars
    BY <1>1, <1>9 DEF Publish, LoadLog, Stamp, OpenFile, WriteFile, KillPublisher, Tick, vars
  <1> QED
    BY <1>2, <1>3, <1>4, <1>5, <1>6, <1>7, <1>8, <1>9 DEF Next, SyncStep, Activate

--------------------------------------------------------------------------------
(* Theorems *)

\* The types of every variable; and wherever a copy of a bundle is, at the publisher,
\* the endpoint, a handler, the database or a tab, it was stamped before its DIDs were
\* revoked, and it is no older than the copies made after it.
THEOREM TypeCorrect == Spec => [](TypeOK /\ CopiesOK /\ OrderOK /\ InformedOK)
  <1>1. TypeOK /\ CopiesOK /\ OrderOK /\ InformedOK /\ [Next]_vars
           => (TypeOK /\ CopiesOK /\ OrderOK /\ InformedOK)'
    BY TypeStep, CopiesStep, OrderStep, InformedStep
  <1> QED
    BY <1>1, InitOK, PTL DEF Spec

\* A revoked DID is VALID in no tab once the grace period has passed since its
\* revocation (generate_bundle's expires_at, validateBundle, verify).
THEOREM RevocationHeld == Spec => []RevocationBounded
  <1>1. TypeOK /\ CopiesOK => RevocationBounded
    <2> SUFFICES ASSUME TypeOK, CopiesOK, NEW t \in Tab, NEW d \in Did,
                        Outcome(t, d) = "VALID", revoked[d] # None, d \notin overlapped
                 PROVE  now <= revoked[d] + Grace
      BY DEF RevocationBounded
    <2> DEFINE b == tab[t].bundle
    <2>1. b # None /\ ~(now > Expires(b)) /\ d \in b.dids
      BY DEF Outcome
    <2>2. b.issued_at <= revoked[d]
      BY <2>1 DEF CopiesOK, Stamped
    <2>3. b.issued_at \in Nat /\ revoked[d] \in Nat /\ now \in Nat
      BY <2>1 DEF TypeOK, BundleInfo
    <2> QED
      BY <2>1, <2>2, <2>3 DEF Expires
  <1> QED
    BY <1>1, TypeCorrect, PTL

\* No step of the worker or of an open tab goes back to an older bundle (doSync,
\* saveBundle, init, onmessage).
THEOREM NeverBack == Spec => NeverBackwards
  BY TypeCorrect, ForwardStep, PTL DEF Spec, NeverBackwards

\* A listening tab that does not hold the stored bundle has a BUNDLE_UPDATED message
\* waiting, or coming.
THEOREM TabsAreInformed == Spec => []TabsInformed
  <1>1. InformedOK => TabsInformed
    BY DEF InformedOK, TabsInformed
  <1> QED
    BY <1>1, TypeCorrect, PTL
================================================================================
