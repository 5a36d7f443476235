------------------------------ MODULE TrustBundle ------------------------------
(***************************************************************************)
(* What a trust bundle says and who believes it: generate_bundle           *)
(* (src/decpki/bundle.py) over a log (models.py, quorum.py), the check of  *)
(* the command line (src/decpki/verify.py) and that of the browser         *)
(* (browser/src/bundle.js when it stores a bundle, index.js when it is     *)
(* asked).  The file may reach a client with one field altered.            *)
(*                                                                         *)
(* An ed25519 signature is valid exactly for what was signed: the payload  *)
(* the validators signed is kept in `signed'.  DIDs are numbers, ordered   *)
(* as their strings are.                                                   *)
(***************************************************************************)
EXTENDS Integers, Merkle, SequencesExt

CONSTANTS Did,        \* the DIDs that may be registered
          Validator,  \* the owners of the key files
          Signers,    \* the lists of key files --validator may be given
          Threshold,  \* --threshold of decpki bundle
          GraceArg,   \* the --grace values used, in seconds
          MaxRecords, \* bound on the log
          MaxBundles, \* bound on the runs of decpki bundle
          MaxTime,    \* bound on the clock
          MaxDamage,  \* bound on the alterations of a file
          None

ASSUME TrustBundleAssumption ==
    /\ Did \subseteq Nat
    /\ Signers \subseteq Seq(Validator)
    /\ Threshold \in Nat
    /\ GraceArg \subseteq Nat
    /\ {MaxRecords, MaxBundles, MaxTime, MaxDamage} \subseteq Nat
    /\ None \notin Nat

VARIABLES
    log,      \* the identity log
    now,      \* the clock
    file,     \* the bundle file, or None
    held,     \* the bundle the browser stored, with _validSigCount, or None
    signed,   \* history: the payload the file's signatures were made for
    records,  \* history: the active records when the file was generated
    bundles,  \* history: the bundles generated
    damage    \* history: the alterations of the file

vars == <<log, now, file, held, signed, records, bundles, damage>>

RangeOf(s) == {s[i] : i \in DOMAIN s}
NextBlock(l) == IF l = <<>> THEN 1000 ELSE Max({r.issued_at : r \in RangeOf(l)}) + 1

\* The records that are not revoked, in the order of the log.
ActiveRecords(l) ==
    LET active[n \in 0 .. Len(l)] ==
            IF n = 0 THEN <<>>
            ELSE IF l[n].revoked_at = None THEN Append(active[n - 1], l[n])
                                           ELSE active[n - 1]
    IN  active[Len(l)]

\* sorted(key=did), which leaves records of the same DID as they are: each record
\* comes after as many as belong before it.
Rank(rs, i) ==
    Cardinality({j \in DOMAIN rs : \/ rs[j].did < rs[i].did
                                   \/ rs[j].did = rs[i].did /\ j < i})
SortedByDid(rs) ==
    [k \in DOMAIN rs |-> rs[CHOOSE i \in DOMAIN rs : Rank(rs, i) = k - 1]]

Init ==
    /\ log = <<>>
    /\ now = 0
    /\ file = None
    /\ held = None
    /\ signed = None
    /\ records = <<>>
    /\ bundles = 0
    /\ damage = 0

--------------------------------------------------------------------------------
(* The identity log *)

\* register: a new DID, at the next block; valid_until is never compared.
Register(d) ==
    /\ Len(log) < MaxRecords
    /\ \A r \in RangeOf(log) : r.did # d
    /\ log' = Append(log, [did |-> d, issued_at |-> NextBlock(log),
                           revoked_at |-> None])
    /\ UNCHANGED <<now, file, held, signed, records, bundles, damage>>

\* enrol-revoke.
Revoke(d) ==
    /\ \E i \in DOMAIN log :
          /\ log[i].did = d
          /\ log[i].revoked_at = None
          /\ log' = [log EXCEPT ![i].revoked_at = NextBlock(log)]
    /\ UNCHANGED <<now, file, held, signed, records, bundles, damage>>

--------------------------------------------------------------------------------
(* generate_bundle *)

\* The records with their proofs.
IdentityEntries(active) ==
    [i \in DOMAIN active |-> [record   |-> active[i],
                              leaf     |-> LeafHash(active[i]),
                              siblings |-> GetProof(BuildTree(active), i - 1)]]

\* Mutant of Payload: the records are taken in the order of the log.
PayloadUnsorted(l, grace) ==
    LET active == ActiveRecords(l) IN
        [snap_block |-> NextBlock(l),
         snap_root  |-> GetRoot(BuildTree(active)),
         issued_at  |-> now,
         expires_at |-> now + grace,
         threshold  |-> Threshold,
         identities |-> IdentityEntries(active)]

\* What the validators sign: the bundle without its signatures.  Its identities
\* are the active records in the order of their DIDs, each with its proof.
Payload(l, grace) ==
    LET active == SortedByDid(ActiveRecords(l)) IN
        [snap_block |-> NextBlock(l),
         snap_root  |-> GetRoot(BuildTree(active)),
         issued_at  |-> now,
         expires_at |-> now + grace,
         threshold  |-> Threshold,
         identities |-> IdentityEntries(active)]

\* decpki bundle: as many key files as --threshold asks for, each of which signs.
Generate(validators, grace) ==
    LET payload == Payload(log, grace) IN
    /\ bundles < MaxBundles
    /\ bundles' = bundles + 1
    /\ Len(validators) >= Threshold
    /\ file' = [payload |-> payload,
                signatures |-> [i \in DOMAIN validators |->
                                   [validator |-> validators[i],
                                    intact    |-> TRUE, readable |-> TRUE]]]
    /\ signed' = payload
    /\ records' = ActiveRecords(log)
    /\ damage' = 0
    /\ UNCHANGED <<log, now, held>>

--------------------------------------------------------------------------------
(* The file on its way: one field comes out different.  A validator's key may come    *)
(* out so that it cannot be read as one.  The threshold stays positive: a file that  *)
(* asks for no signature needs none.                                                 *)

WithSignatures(sigs) == [file EXCEPT !.signatures = sigs]
AlteredSignatures ==
    {WithSignatures(RemoveAt(file.signatures, i)) : i \in DOMAIN file.signatures}
    \cup {[file EXCEPT !.signatures[i].intact = FALSE] : i \in DOMAIN file.signatures}
    \cup {[file EXCEPT !.signatures[i].intact = FALSE, !.signatures[i].readable = FALSE] :
             i \in DOMAIN file.signatures}

Entries == file.payload.identities
AlteredPayload ==
    {[file EXCEPT !.payload.expires_at = @ + 1],
     [file EXCEPT !.payload.snap_root = EmptyHash]}
    \cup {[file EXCEPT !.payload.threshold = t] :
             t \in {file.payload.threshold - 1, file.payload.threshold + 1} \cap (Nat \ {0})}
    \cup {[file EXCEPT !.payload.identities = RemoveAt(@, i)] : i \in DOMAIN Entries}
    \cup {[file EXCEPT !.payload.identities[i].record = r] :
             i \in DOMAIN Entries, r \in RangeOf(log)}
    \cup {[file EXCEPT !.payload.identities[i].leaf = EmptyHash] : i \in DOMAIN Entries}

Alter ==
    /\ file # None
    /\ damage < MaxDamage
    /\ file' \in AlteredSignatures \cup AlteredPayload
    /\ damage' = damage + 1
    /\ UNCHANGED <<log, now, held, signed, records, bundles>>

Tick ==
    /\ now < MaxTime
    /\ now' = now + 1
    /\ UNCHANGED <<log, file, held, signed, records, bundles, damage>>

--------------------------------------------------------------------------------
(* The command line: verify *)

Verifies(f, s) == s.intact /\ f.payload = signed

\* The first entry for a DID, if there is one.
Positions(f, d) ==
    {i \in DOMAIN f.payload.identities : f.payload.identities[i].record.did = d}
EntryOf(f, d) == f.payload.identities[Min(Positions(f, d))]

RecomputedRoot(f) ==
    GetRoot(BuildTree(SortedByDid([i \in DOMAIN f.payload.identities |->
                                      f.payload.identities[i].record])))

\* Mutant of Verify: the expiry is looked at before the signatures.
VerifyExpiryFirst(f, d) ==
    LET p == f.payload
        entry == EntryOf(f, d)
    IN  IF Len(f.signatures) < p.threshold THEN "QUORUM_FAILURE"
        ELSE IF p.expires_at <= now THEN "EXPIRED"
        ELSE IF \E i \in DOMAIN f.signatures : ~Verifies(f, f.signatures[i]) THEN "TAMPERED"
        ELSE IF RecomputedRoot(f) # p.snap_root THEN "INVALID"
        ELSE IF Positions(f, d) = {} THEN "NOT_FOUND"
        ELSE IF ~VerifyProof(entry.record, entry.siblings, p.snap_root) THEN "INVALID"
        ELSE "VALID"

\* The six steps of verify: the first that applies decides.
Verify(f, d) ==
    LET p == f.payload
        entry == EntryOf(f, d)
    IN  IF Len(f.signatures) < p.threshold THEN "QUORUM_FAILURE"
        ELSE IF \E i \in DOMAIN f.signatures : ~Verifies(f, f.signatures[i]) THEN "TAMPERED"
        ELSE IF p.expires_at <= now THEN "EXPIRED"
        ELSE IF RecomputedRoot(f) # p.snap_root THEN "INVALID"
        ELSE IF Positions(f, d) = {} THEN "NOT_FOUND"
        ELSE IF ~VerifyProof(entry.record, entry.siblings, p.snap_root) THEN "INVALID"
        ELSE "VALID"

--------------------------------------------------------------------------------
(* The browser: a bundle is checked when it is stored, a DID when it is asked *)

\* Mutant of ValidSigCount: the signatures are counted, whatever their check says.
AllSigCount(f) == Len(f.signatures)

ValidSigCount(f) == Cardinality({i \in DOMAIN f.signatures : Verifies(f, f.signatures[i])})

\* importKey, and noble's verify, throw on a key that is none, which ends validateBundle.
AllReadable(f) == \A i \in DOMAIN f.signatures : f.signatures[i].readable

\* Mutant of Sync: _validSigCount is not attached.
SyncWithoutCount ==
    /\ file # None
    /\ IF /\ file.payload.expires_at > now
          /\ AllReadable(file)
          /\ ValidSigCount(file) >= file.payload.threshold
       THEN held' = [file |-> file, validSigCount |-> None]
       ELSE UNCHANGED held
    /\ UNCHANGED <<log, now, file, signed, records, bundles, damage>>

\* validateBundle, then saveBundle; a bundle that is refused changes nothing.
Sync ==
    /\ file # None
    /\ IF /\ file.payload.expires_at > now
          /\ AllReadable(file)
          /\ ValidSigCount(file) >= file.payload.threshold
       THEN held' = [file |-> file, validSigCount |-> ValidSigCount(file)]
       ELSE UNCHANGED held
    /\ UNCHANGED <<log, now, file, signed, records, bundles, damage>>

\* DecPKIClient.verify, which takes the leaf hash from the proof.
ClientVerify(h, d) ==
    LET p == h.file.payload
        entry == EntryOf(h.file, d)
    IN  IF now > p.expires_at THEN "EXPIRED"
        ELSE IF h.validSigCount < p.threshold THEN "QUORUM_FAILURE"
        ELSE IF Positions(h.file, d) = {} THEN "NOT_FOUND"
        ELSE IF ~VerifyFromHash(entry.leaf, entry.siblings, p.snap_root)
             THEN "TAMPERED"
        ELSE "VALID"

--------------------------------------------------------------------------------
Next ==
    \/ \E d \in Did : Register(d) \/ Revoke(d)
    \/ \E validators \in Signers, grace \in GraceArg : Generate(validators, grace)
    \/ Alter
    \/ Tick
    \/ Sync

Spec == Init /\ [][Next]_vars

--------------------------------------------------------------------------------
(* Properties *)

Record == [did: Did, issued_at: Nat, revoked_at: Nat \cup {None}]
Signature == [validator: Validator, intact: BOOLEAN, readable: BOOLEAN]
BundleOK(f) == /\ f.signatures \in Seq(Signature)
               /\ f.payload.threshold \in Nat
               /\ f.payload.expires_at \in Nat
TypeOK ==
    /\ log \in Seq(Record)
    /\ records \in Seq(Record)
    /\ now \in 0 .. MaxTime
    /\ bundles \in 0 .. MaxBundles
    /\ damage \in 0 .. MaxDamage
    /\ file # None => BundleOK(file)
    /\ held # None => BundleOK(held.file) /\ held.validSigCount \in Nat

\* A bundle that arrives as it was generated answers, on both sides, as the log
\* did when it was generated: VALID for each identity that was active then,
\* NOT_FOUND for every other DID, for every number of identities, hence for every
\* shape of tree, odd layers included (build_tree and get_proof pad in step).
Listed(d) == \E r \in RangeOf(records) : r.did = d
Expected(d) == IF Listed(d) THEN "VALID" ELSE "NOT_FOUND"
SnapshotAnswered ==
    file # None /\ damage = 0 => \A d \in Did :
        /\ file.payload.expires_at > now => Verify(file, d) = Expected(d)
        /\ held # None /\ held.file = file /\ file.payload.expires_at >= now
               => ClientVerify(held, d) = Expected(d)

IntactSignatures(f) == {i \in DOMAIN f.signatures : f.signatures[i].intact}
AllIntact(f) == \A i \in DOMAIN f.signatures : f.signatures[i].intact

\* A file whose payload, or one of whose signatures, was altered after it was signed
\* is reported as such by verify, before and after its expiry: never as EXPIRED,
\* NOT_FOUND or VALID.  A signature that is missing altogether is noticed only if too
\* few are left, which is what the threshold is for.
TamperEvident ==
    file # None /\ (file.payload # signed \/ ~AllIntact(file)) =>
        \A d \in Did : Verify(file, d) \in {"TAMPERED", "QUORUM_FAILURE"}

\* The browser replaces the bundle it holds only by one that says what the validators
\* signed, with the signatures of as many of them as signing took: one that was altered
\* in any other way, an altered threshold included, leaves the last known good one.
OnlySignedStored ==
    [][held' # held => /\ held'.file.payload = signed
                       /\ Cardinality(IntactSignatures(held'.file)) >= Threshold]_vars

\* data-model.md:27 of 003, "All `signatures` must verify": the bundle the browser
\* holds has no signature that was modified.  The code does not have this property:
\* validateBundle counts the signatures that verify and passes over the others.
AllSignaturesVerify == held # None => AllIntact(held.file)

--------------------------------------------------------------------------------
(* The inductive invariants behind the properties.                         *)

DistinctDids(rs) == \A i, j \in DOMAIN rs : i # j => rs[i].did # rs[j].did

\* What was signed is the snapshot in records.
SignedOK == file # None =>
    LET active == SortedByDid(records) IN
    /\ signed.threshold = Threshold
    /\ signed.snap_root = GetRoot(BuildTree(active))
    /\ signed.identities = IdentityEntries(active)

FileOK == file # None =>
    /\ file.payload.threshold = Threshold \/ file.payload.threshold > 0
    /\ damage = 0 => /\ file.payload = signed
                     /\ Len(file.signatures) >= Threshold
                     /\ AllIntact(file) /\ AllReadable(file)

HeldOK == held # None =>
    /\ held.file.payload.threshold = Threshold
    /\ held.validSigCount >= Threshold
    /\ Cardinality(IntactSignatures(held.file)) >= Threshold

BundleInv == DistinctDids(log) /\ DistinctDids(records) /\ SignedOK /\ FileOK /\ HeldOK
================================================================================
