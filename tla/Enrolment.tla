------------------------------- MODULE Enrolment -------------------------------
(***************************************************************************)
(* From a browser's registration to a record of the identity log:          *)
(* the BFF's registration endpoints (bff/main.py, bff/enrolment.py:        *)
(* EnrolmentStore), the validators' commands enrol-sign, enrol-promote and *)
(* enrol-revoke (cli/enrol_sign.py), register (cli/decpki_cli.py) and the  *)
(* IdentityLog they share (src/decpki/models.py).                          *)
(*                                                                         *)
(* Everything lives in JSON files without a lock.  A command reads a file, *)
(* changes its copy and writes the copy back; write_text first truncates   *)
(* the file and then writes it, so that a reader, or a crash, may find it  *)
(* torn.  Each of these is an action; several commands, in processes of    *)
(* their own, and the BFF's threads interleave, and each may die at any    *)
(* step.                                                                   *)
(***************************************************************************)
EXTENDS Naturals, Sequences, FiniteSetsExt

CONSTANTS Did,          \* the DIDs that occur
          Drawn,        \* those the BFF draws with uuid4 (the rest: operators')
          Validator,    \* validators, by their DID
          Credential,   \* WebAuthn credential ids
          Challenge,    \* the 32-byte registration challenges
          Request,      \* the uuid4 ids of enrolment requests
          Handler,      \* the BFF's threads
          Process,      \* the processes running a CLI command
          Threshold,    \* --threshold of enrol-promote and enrol-revoke
          None,         \* nothing there
          Torn          \* a file that is truncated, or was when its writer died

RequestType == {"new", "add_credential"}
Ceremony    == [did: Did, type: RequestType]
RequestInfo == [did: Did, type: RequestType, credential: Credential,
                challenge: Challenge]
\* The parts of a request file that change.
Content == [status: {"pending", "promoted"}, signatures: Seq(Validator)]
\* A row of the identity log.  The public key is that of the enrolment.
Record == [did: Did, issued_at: Nat, issued_by: SUBSET Validator,
           enrolment: Request \cup {None}, revoked_at: Nat \cup {None}]

ASSUME EnrolmentAssumption ==
    /\ Drawn \subseteq Did
    /\ Threshold \in Nat
    /\ IsFiniteSet(Validator)
    /\ None \notin Challenge \cup Request \cup Nat \cup Ceremony \cup RequestInfo
    /\ {None, Torn} \cap (Content \cup Seq(Record)) = {}
    /\ None # Torn

RegisterThreshold == 2

VARIABLES
    challenges,   \* main._challenges: the challenge stored under each DID
    nonces,       \* main._nonces: the DIDs it has an entry for
    handler,      \* the submission each BFF thread is working on
    request,      \* what each request was created with
    pending,      \* the files in ENROLMENT_DIR
    promoted,     \* the files in ENROLMENT_DIR/promoted
    log,          \* identity_log.json; a missing file reads as an empty log
    proc,         \* each CLI process and its local variables
    expired,      \* the requests whose expires_at has passed
    \* History, which no program reads:
    ceremony,     \* what each challenge was drawn for
    signed,       \* the validators that have written a signature to a request
    revoked,      \* the DIDs that a revocation has been written for
    excused       \* credentials whose duplicate check met a half-done write

bff   == <<challenges, nonces, handler, ceremony, excused>>
files == <<request, pending, promoted, expired>>
ledger == <<log, revoked>>
vars  == <<bff, files, ledger, proc, signed>>

Free == [pc |-> "idle", challenge |-> None, credential |-> None, request |-> None]
Idle == [pc |-> "idle", op |-> None, request |-> None, req |-> None,
         log |-> None, did |-> None, valid |-> {}]

Readable(file) == file \notin {None, Torn}

--------------------------------------------------------------------------------
(* IdentityLog *)

DidsOf(l) == {l[i].did : i \in DOMAIN l}

\* Mutant of NextBlock: the last block is given again.
LastBlock(l) == IF l = <<>> THEN 1000 ELSE Max({l[i].issued_at : i \in DOMAIN l})

NextBlock(l) ==
    IF l = <<>> THEN 1000 ELSE Max({l[i].issued_at : i \in DOMAIN l}) + 1

NewRecord(l, d, by, r) ==
    [did |-> d, issued_at |-> NextBlock(l), issued_by |-> by, enrolment |-> r,
     revoked_at |-> None]

RevokedIn(l, d) == \E i \in DOMAIN l : l[i].did = d /\ l[i].revoked_at # None

--------------------------------------------------------------------------------
Init ==
    /\ challenges = [d \in Did |-> None]
    /\ nonces = {}
    /\ handler = [h \in Handler |-> Free]
    /\ request = [r \in Request |-> None]
    /\ pending = [r \in Request |-> None]
    /\ promoted = [r \in Request |-> None]
    /\ log = <<>>
    /\ proc = [p \in Process |-> Idle]
    /\ expired = {}
    /\ ceremony = [c \in Challenge |-> None]
    /\ signed = [r \in Request |-> {}]
    /\ revoked = {}
    /\ excused = {}

--------------------------------------------------------------------------------
(* The BFF *)

\* The requests whose key _find_promoted_enrolment may give /login/start to check
\* the DID's assertion with: the first readable file of promoted/ that names it.
LoginKeys(d) ==
    {r \in Request : request[r] # None /\ request[r].did = d /\ Readable(promoted[r])}

\* Whether /enrolment/start?did= finds a promoted request: by status in
\* ENROLMENT_DIR, any readable file in promoted/.
Promoted(d) ==
    \/ LoginKeys(d) # {}
    \/ \E r \in Request : /\ request[r] # None /\ request[r].did = d
                          /\ Readable(pending[r]) /\ pending[r].status = "promoted"

DrawChallenge(c, d, type) ==
    /\ ceremony[c] = None
    /\ ceremony' = [ceremony EXCEPT ![c] = [did |-> d, type |-> type]]

\* POST /enrolment/start: a new DID.
StartNew(d) ==
    /\ d \in Drawn
    /\ \A c \in Challenge : ceremony[c] # None => ceremony[c].did # d
    /\ \E c \in Challenge : /\ DrawChallenge(c, d, "new")
                           /\ challenges' = [challenges EXCEPT ![d] = c]
    /\ UNCHANGED <<nonces, handler, excused, files, ledger, proc, signed>>

\* POST /enrolment/start?did=d: the nonce of an earlier start for the same DID is
\* overwritten ...
StartAdd(h, d) ==
    /\ handler[h].pc = "idle"
    /\ Promoted(d)
    /\ \E c \in Challenge :
          /\ DrawChallenge(c, d, "add_credential")
          /\ handler' = [handler EXCEPT ![h] = [Free EXCEPT !.pc = "storeChallenge",
                                                          !.challenge = c]]
    /\ nonces' = nonces \cup {d}
    /\ UNCHANGED <<challenges, excused, files, ledger, proc, signed>>

\* ... and then its challenge.
StoreChallenge(h) ==
    LET c == handler[h].challenge IN
    /\ handler[h].pc = "storeChallenge"
    /\ challenges' = [challenges EXCEPT ![ceremony[c].did] = c]
    /\ handler' = [handler EXCEPT ![h] = Free]
    /\ UNCHANGED <<nonces, ceremony, excused, files, ledger, proc, signed>>

\* Where an accepted submission goes on: an added credential has its nonce
\* checked first.
AcceptSubmit(h, c, cred) ==
    handler' = [handler EXCEPT
                   ![h] = [pc |-> IF ceremony[c].type = "new" THEN "scanFirst"
                                                              ELSE "checkNonce",
                           challenge |-> c, credential |-> cred, request |-> None]]

\* Mutant of PopChallenge: get instead of pop.
GetChallenge(c) == challenges[ceremony[c].did] # None /\ UNCHANGED challenges

\* _challenges.pop(pending_did), whatever challenge is stored there now.
PopChallenge(c) ==
    /\ challenges[ceremony[c].did] # None
    /\ challenges' = [challenges EXCEPT ![ceremony[c].did] = None]

\* POST /enrolment/submit by the client that was given challenge c: 422 when
\* the stored challenge is another, or the attestation is not accepted.
Submit(h, c, cred) ==
    /\ handler[h].pc = "idle"
    /\ ceremony[c] # None
    /\ PopChallenge(c)
    /\ \/ challenges[ceremony[c].did] = c /\ AcceptSubmit(h, c, cred)
       \/ UNCHANGED handler
    /\ UNCHANGED <<nonces, ceremony, excused, files, ledger, proc, signed>>

HandlerDid(h) == ceremony[handler[h].challenge].did

\* _nonces.get and its 60 seconds: 422 when there is none or it is too old.
CheckNonce(h) ==
    /\ handler[h].pc = "checkNonce"
    /\ \/ /\ HandlerDid(h) \in nonces
          /\ handler' = [handler EXCEPT ![h].pc = "popNonce"]
       \/ handler' = [handler EXCEPT ![h] = Free]
    /\ UNCHANGED <<challenges, nonces, ceremony, excused, files, ledger, proc, signed>>

PopNonce(h) ==
    /\ handler[h].pc = "popNonce"
    /\ nonces' = nonces \ {HandlerDid(h)}
    /\ handler' = [handler EXCEPT ![h].pc = "scanFirst"]
    /\ UNCHANGED <<challenges, ceremony, excused, files, ledger, proc, signed>>

\* The requests with credential cred among the files of a directory.
WithCredential(dir, cred) ==
    {r \in Request : dir[r] # None /\ request[r].credential = cred}

\* Mutant of Directory: promoted/ is scanned first.
DirectoryPromotedFirst(pc) == IF pc = "scanFirst" THEN promoted ELSE pending

\* The directory a scan reads: ENROLMENT_DIR first, then promoted/ within it.
Directory(pc) == IF pc = "scanFirst" THEN pending ELSE promoted

\* _all_credential_ids, one directory at a time (a file it cannot parse is
\* skipped): 409 when the credential is there.  Within a directory the files
\* are read one by one; what a change meanwhile could hide, a file being
\* written or another create, is what excused notes.
Scan(h) ==
    LET pc == handler[h].pc
        cred == handler[h].credential
        dir == Directory(pc)
        holders == WithCredential(dir, cred)
        found == {r \in holders : dir[r] # Torn}
        creating == {g \in Handler \ {h} :
                        /\ handler[g].credential = cred
                        /\ handler[g].pc \in {"scanSecond", "createOpen", "createWrite"}}
    IN  /\ pc \in {"scanFirst", "scanSecond"}
        /\ handler' = [handler EXCEPT ![h] =
                IF found # {}
                THEN Free
                ELSE [@ EXCEPT !.pc = IF pc = "scanFirst" THEN "scanSecond"
                                                          ELSE "createOpen"]]
        /\ excused' = IF creating # {} \/ holders # found
                      THEN excused \cup {cred}
                      ELSE excused
        /\ UNCHANGED <<challenges, nonces, ceremony, files, ledger, proc, signed>>

\* The rest of EnrolmentStore.create: a file with a new name is created empty ...
CreateOpen(h) ==
    /\ handler[h].pc = "createOpen"
    /\ \E r \in Request :
          /\ request[r] = None
          /\ request' = [request EXCEPT
                ![r] = [did |-> HandlerDid(h),
                        type |-> ceremony[handler[h].challenge].type,
                        credential |-> handler[h].credential,
                        challenge |-> handler[h].challenge]]
          /\ pending' = [pending EXCEPT ![r] = Torn]
          /\ handler' = [handler EXCEPT ![h].pc = "createWrite", ![h].request = r]
    /\ UNCHANGED <<challenges, nonces, ceremony, excused, promoted, expired,
                   ledger, proc, signed>>

\* ... and then written.
CreateWrite(h) ==
    /\ handler[h].pc = "createWrite"
    /\ pending' = [pending EXCEPT
                      ![handler[h].request] = [status |-> "pending", signatures |-> <<>>]]
    /\ handler' = [handler EXCEPT ![h] = Free]
    /\ UNCHANGED <<challenges, nonces, ceremony, excused, request, promoted,
                   expired, ledger, proc, signed>>

\* The BFF dies and starts again: its dictionaries and its threads are gone.
RestartBff ==
    /\ challenges' = [d \in Did |-> None]
    /\ nonces' = {}
    /\ handler' = [h \in Handler |-> Free]
    /\ UNCHANGED <<ceremony, excused, files, ledger, proc, signed>>

\* The clock passes a request's expires_at.
Expire(r) ==
    /\ request[r] # None
    /\ expired' = expired \cup {r}
    /\ UNCHANGED <<bff, request, pending, promoted, ledger, proc, signed>>

--------------------------------------------------------------------------------
(* The commands *)

Start(p, local) == proc' = [proc EXCEPT ![p] = local]
Goto(p, pc)     == proc' = [proc EXCEPT ![p].pc = pc]
Exit(p)         == proc' = [proc EXCEPT ![p] = Idle]

\* What enrol-sign and enrol-promote require of the request file they read.
Signable(r) ==
    /\ Readable(pending[r])
    /\ pending[r].status = "pending"
    /\ r \notin expired

\* Mutant of SignRead: a validator may sign a second time.
SignReadAgain(p, r, v) ==
    /\ proc[p].pc = "idle"
    /\ Signable(r)
    /\ Len(pending[r].signatures) < Threshold
    /\ Start(p, [Idle EXCEPT
          !.pc = "openRequest", !.op = "sign", !.request = r, !.valid = {v},
          !.req = [pending[r] EXCEPT !.signatures = Append(@, v)]])
    /\ UNCHANGED <<bff, files, ledger, signed>>

\* enrol-sign up to the write: a validator that has not signed yet appends its
\* signature to its copy of the request.
SignRead(p, r, v) ==
    /\ proc[p].pc = "idle"
    /\ Signable(r)
    /\ \A i \in DOMAIN pending[r].signatures : pending[r].signatures[i] # v
    /\ Start(p, [Idle EXCEPT
          !.pc = "openRequest", !.op = "sign", !.request = r, !.valid = {v},
          !.req = [pending[r] EXCEPT !.signatures = Append(@, v)]])
    /\ UNCHANGED <<bff, files, ledger, signed>>

\* Mutant of PromoteRead: a status that EnrolmentRequest does not have.
PromoteReadActive(p, r, keys) ==
    LET sigs == pending[r].signatures
        valid == {i \in DOMAIN sigs : sigs[i] \in keys}
    IN  /\ proc[p].pc = "idle"
        /\ Signable(r)
        /\ Cardinality(valid) >= Threshold
        /\ Start(p, [Idle EXCEPT
              !.pc = "loadLog", !.op = "promote", !.request = r,
              !.req = [pending[r] EXCEPT !.status = "active"],
              !.valid = {sigs[i] : i \in valid}])
        /\ UNCHANGED <<bff, files, ledger, signed>>

\* enrol-promote up to the log: enough signatures are by validators whose key
\* file it is given or finds.
PromoteRead(p, r, keys) ==
    LET sigs == pending[r].signatures
        valid == {i \in DOMAIN sigs : sigs[i] \in keys}
    IN  /\ proc[p].pc = "idle"
        /\ Signable(r)
        /\ Cardinality(valid) >= Threshold
        /\ Start(p, [Idle EXCEPT
              !.pc = "loadLog", !.op = "promote", !.request = r,
              !.req = [pending[r] EXCEPT !.status = "promoted"],
              !.valid = {sigs[i] : i \in valid}])
        /\ UNCHANGED <<bff, files, ledger, signed>>

\* Mutants of PromoteLoad: the log is saved without the record; a record of the
\* DID that is already there is replaced.
PromoteLoadSavesFirst(p) ==
    /\ proc[p].pc = "loadLog"
    /\ log # Torn
    /\ Start(p, [proc[p] EXCEPT !.pc = "openLog", !.log = log])
    /\ UNCHANGED <<bff, files, ledger, signed>>
PromoteLoadReplaces(p) ==
    LET r == proc[p].request
        record == NewRecord(log, request[r].did, proc[p].valid, r)
    IN  /\ proc[p].pc = "loadLog"
        /\ log # Torn
        /\ Start(p, [proc[p] EXCEPT
              !.pc = "openLog",
              !.log = IF record.did \in DidsOf(log)
                      THEN [i \in DOMAIN log |->
                               IF log[i].did = record.did THEN record ELSE log[i]]
                      ELSE Append(log, record)])
        /\ UNCHANGED <<bff, files, ledger, signed>>

\* It loads the log and adds the record; DuplicateDIDError is swallowed.
PromoteLoad(p) ==
    LET r == proc[p].request
        record == NewRecord(log, request[r].did, proc[p].valid, r)
    IN  /\ proc[p].pc = "loadLog"
        /\ log # Torn
        /\ Start(p, [proc[p] EXCEPT
              !.pc = "openLog",
              !.log = IF record.did \in DidsOf(log) THEN log ELSE Append(log, record)])
        /\ UNCHANGED <<bff, files, ledger, signed>>

\* register: at least two key files (they may be the same one), a DID that is
\* not in the log.  A DID of the BFF's is known to operators once drawn.
Register(p, d, keys) ==
    /\ proc[p].pc = "idle"
    /\ log # Torn
    /\ d \in Drawn => \E c \in Challenge : ceremony[c] # None /\ ceremony[c].did = d
    /\ d \notin DidsOf(log)
    /\ Start(p, [Idle EXCEPT
          !.pc = "openLog", !.op = "register",
          !.log = Append(log, NewRecord(log, d, Range(keys), None))])
    /\ UNCHANGED <<bff, files, ledger, signed>>

\* enrol-revoke, given Threshold key files (which it does not read): the DID is
\* in the log and active.
Revoke(p, d) ==
    /\ proc[p].pc = "idle"
    /\ log # Torn
    /\ \E i \in DOMAIN log :
          /\ log[i].did = d
          /\ log[i].revoked_at = None
          /\ Start(p, [Idle EXCEPT
                !.pc = "openLog", !.op = "revoke", !.did = d,
                !.log = [log EXCEPT ![i].revoked_at = NextBlock(log)]])
    /\ UNCHANGED <<bff, files, ledger, signed>>

\* IdentityLog.save truncates the file ...
OpenLog(p) ==
    /\ proc[p].pc = "openLog"
    /\ log' = Torn
    /\ Goto(p, "writeLog")
    /\ UNCHANGED <<bff, files, revoked, signed>>

\* What a file holds when a copy is written to it from its start on: where another
\* process has written since the truncation, the end of a longer copy may be left.
Written(file, copy) == {copy} \cup (IF file = Torn THEN {} ELSE {Torn})

\* ... and writes the process's copy, whatever the file held meanwhile.
WriteLog(p) ==
    /\ proc[p].pc = "writeLog"
    /\ log' \in Written(log, proc[p].log)
    /\ revoked' = IF proc[p].op = "revoke" THEN revoked \cup {proc[p].did} ELSE revoked
    /\ IF proc[p].op = "promote" THEN Goto(p, "openRequest") ELSE Exit(p)
    /\ UNCHANGED <<bff, files, signed>>

\* enrol-sign and enrol-promote write the request file in the same way; one
\* that was moved away is created again.
OpenRequest(p) ==
    /\ proc[p].pc = "openRequest"
    /\ pending' = [pending EXCEPT ![proc[p].request] = Torn]
    /\ Goto(p, "writeRequest")
    /\ UNCHANGED <<bff, request, promoted, expired, ledger, signed>>

\* What is written goes to the file that was opened, also when it has been moved away
\* in between.
WriteRequest(p) ==
    LET r == proc[p].request IN
    /\ proc[p].pc = "writeRequest"
    /\ IF pending[r] = None
       THEN /\ \E f \in Written(promoted[r], proc[p].req) :
                  promoted' = [promoted EXCEPT ![r] = f]
            /\ UNCHANGED pending
       ELSE /\ \E f \in Written(pending[r], proc[p].req) :
                  pending' = [pending EXCEPT ![r] = f]
            /\ UNCHANGED promoted
    /\ signed' = IF proc[p].op = "sign"
                 THEN [signed EXCEPT ![r] = @ \cup proc[p].valid]
                 ELSE signed
    /\ IF proc[p].op = "promote" THEN Goto(p, "move") ELSE Exit(p)
    /\ UNCHANGED <<bff, request, expired, ledger>>

\* shutil.move puts whatever file is there now into promoted/, over a file of
\* that name; the command fails when the file is gone.
Move(p) ==
    LET r == proc[p].request IN
    /\ proc[p].pc = "move"
    /\ IF pending[r] = None
       THEN UNCHANGED <<pending, promoted>>
       ELSE /\ promoted' = [promoted EXCEPT ![r] = pending[r]]
            /\ pending' = [pending EXCEPT ![r] = None]
    /\ Exit(p)
    /\ UNCHANGED <<bff, request, expired, ledger, signed>>

\* A process dies: killed at any step, or by the exception that a torn or
\* missing file raises.
Crash(p) ==
    /\ proc[p].pc # "idle"
    /\ Exit(p)
    /\ UNCHANGED <<bff, files, ledger, signed>>

--------------------------------------------------------------------------------
BffStep(h) ==
    \/ \E d \in Did : StartAdd(h, d)
    \/ StoreChallenge(h)
    \/ \E c \in Challenge, cred \in Credential : Submit(h, c, cred)
    \/ CheckNonce(h)
    \/ PopNonce(h)
    \/ Scan(h)
    \/ CreateOpen(h)
    \/ CreateWrite(h)

CommandStep(p) ==
    \/ \E r \in Request, v \in Validator : SignRead(p, r, v)
    \/ \E r \in Request, keys \in SUBSET Validator : PromoteRead(p, r, keys)
    \/ PromoteLoad(p)
    \/ \E d \in Did, keys \in [1 .. RegisterThreshold -> Validator] : Register(p, d, keys)
    \/ \E d \in Did : Revoke(p, d)
    \/ OpenLog(p)
    \/ WriteLog(p)
    \/ OpenRequest(p)
    \/ WriteRequest(p)
    \/ Move(p)
    \/ Crash(p)

Next ==
    \/ \E d \in Did : StartNew(d)
    \/ \E h \in Handler : BffStep(h)
    \/ \E p \in Process : CommandStep(p)
    \/ \E r \in Request : Expire(r)
    \/ RestartBff

Spec == Init /\ [][Next]_vars

--------------------------------------------------------------------------------
(* Properties *)

File == Content \cup {None, Torn}
Log  == Seq(Record)

HandlerState ==
    [pc: {"idle", "storeChallenge", "checkNonce", "popNonce", "scanFirst", "scanSecond",
          "createOpen", "createWrite"},
     challenge: Challenge \cup {None},
     credential: Credential \cup {None},
     request: Request \cup {None}]
ProcState ==
    [pc: {"idle", "openRequest", "writeRequest", "loadLog", "openLog", "writeLog", "move"},
     op: {"sign", "promote", "register", "revoke", None},
     request: Request \cup {None},
     req: Content \cup {None},
     log: Log \cup {None},
     did: Did \cup {None},
     valid: SUBSET Validator]

\* Types; only created requests have files.
TypeOK ==
    /\ challenges \in [Did -> Challenge \cup {None}]
    /\ nonces \subseteq Did
    /\ handler \in [Handler -> HandlerState]
    /\ request \in [Request -> RequestInfo \cup {None}]
    /\ pending \in [Request -> File]
    /\ promoted \in [Request -> File]
    /\ \A r \in Request : request[r] = None => pending[r] = None /\ promoted[r] = None
    /\ log \in Log \cup {Torn}
    /\ proc \in [Process -> ProcState]
    /\ expired \subseteq Request
    /\ ceremony \in [Challenge -> Ceremony \cup {None}]
    /\ signed \in [Request -> SUBSET Validator]
    /\ revoked \subseteq Did
    /\ excused \subseteq Credential

\* Every record a promotion put into the log names at least Threshold validators,
\* all of which signed that very request, however the signatures were collected:
\* overlapping enrol-sign runs that overwrite each other, crashes between
\* truncation and write, files that come back (enrol_sign's `in existing' check
\* on its copy, enrol_promote's count of valid_sigs).
QuorumBacked ==
    log # Torn => \A i \in DOMAIN log : log[i].enrolment # None =>
        /\ Cardinality(log[i].issued_by) >= Threshold
        /\ log[i].issued_by \subseteq signed[log[i].enrolment]

\* Whichever of a DID's promoted requests the directory order lets a login use, its
\* key is one that Threshold validators signed for: also when promotions overlap
\* with late signatures, die, are repeated, or move the file another command wrote.
LoginKeyApproved ==
    \A d \in Did : \A r \in LoginKeys(d) : Cardinality(signed[r]) >= Threshold

\* "did MUST be unique in the identity log", blocks grow along the log, and a
\* revocation is dated after the record it revokes: also when a command has saved
\* the copy of a log that others have changed since.
WellFormed(l) ==
    /\ \A i, j \in DOMAIN l : i < j => /\ l[i].did # l[j].did
                                       /\ l[i].issued_at < l[j].issued_at
    /\ \A i \in DOMAIN l : l[i].revoked_at # None => l[i].issued_at < l[i].revoked_at
LedgerWellFormed == log # Torn => WellFormed(log)

\* A registration ceremony yields at most one request, for its own DID, however
\* many submissions present its challenge at once, and whatever later starts for
\* that DID overwrite (main._challenges.pop).
OneRequestPerCeremony ==
    \A r, s \in Request : request[r] # None =>
        /\ request[r].did = ceremony[request[r].challenge].did
        /\ r # s /\ request[s] # None => request[r].challenge # request[s].challenge

\* Two requests share a credential only if the duplicate check of the later one
\* met another create of it or a half-written file: a request that is promoted,
\* and moved to the other directory, while the check runs is not missed
\* (_all_credential_ids scans the directory files leave before the one they
\* arrive in).
SharesCredential(r, s) ==
    /\ r # s
    /\ request[r] # None /\ request[s] # None
    /\ request[r].credential = request[s].credential
DuplicateRefused ==
    \A r, s \in Request : SharesCredential(r, s) => request[r].credential \in excused

\* A request whose file has been moved to promoted/ has its DID in the log:
\* enrol_promote saves the log before it touches the request, and a promotion
\* that died in between is done again.
PromotedInLedger ==
    log # Torn => \A r \in Request : promoted[r] # None => request[r].did \in DidsOf(log)

\* "A revoked credential is excluded from trust bundles generated after the
\* revocation record is written to the ledger": no later command, in particular
\* no promotion of a request for the revoked DID, makes it active again.
RevocationFinal ==
    log # Torn => \A d \in revoked : RevokedIn(log, d)

--------------------------------------------------------------------------------
(* The inductive invariants behind QuorumBacked, LoginKeyApproved,         *)
(* LedgerWellFormed and OneRequestPerCeremony.                             *)

\* Signatures of different validators that have been written to a request by now.
SignaturesOK(s, by) ==
    /\ \A i, j \in DOMAIN s : i # j => s[i] # s[j]
    /\ \A i \in DOMAIN s : s[i] \in by

\* A log and its copies.
Backed(l) ==
    \A i \in DOMAIN l : l[i].enrolment # None =>
        /\ Cardinality(l[i].issued_by) >= Threshold
        /\ l[i].issued_by \subseteq signed[l[i].enrolment]
LogOK(l) == WellFormed(l) /\ Backed(l)

\* A request has a file; one that has been moved has its signatures.
FileOK(r) ==
    /\ request[r] # None => pending[r] # None \/ promoted[r] # None
    /\ Readable(pending[r]) => SignaturesOK(pending[r].signatures, signed[r])
    /\ promoted[r] # None => Cardinality(signed[r]) >= Threshold

\* What the local variables of a command hold.
ProcOK(p) ==
    LET r == proc[p].request IN
    proc[p].pc # "idle" =>
        /\ proc[p].pc \in {"openRequest", "writeRequest"} =>
              proc[p].op \in {"sign", "promote"}
        /\ proc[p].pc \in {"loadLog", "move"} => proc[p].op = "promote"
        /\ proc[p].pc \in {"openLog", "writeLog"} =>
              /\ proc[p].op \in {"promote", "register", "revoke"}
              /\ proc[p].log # None /\ LogOK(proc[p].log)
        /\ proc[p].op \in {"sign", "promote"} =>
              /\ r # None /\ request[r] # None
              /\ proc[p].req # None
              /\ SignaturesOK(proc[p].req.signatures,
                              IF proc[p].op = "sign" THEN signed[r] \cup proc[p].valid
                                                     ELSE signed[r])
        /\ proc[p].op = "promote" => /\ Cardinality(proc[p].valid) >= Threshold
                                     /\ proc[p].valid \subseteq signed[r]
        /\ proc[p].op = "revoke" => proc[p].did \in Did

FilesOK == /\ log # Torn => LogOK(log)
           /\ \A r \in Request : FileOK(r)
           /\ \A p \in Process : ProcOK(p)

\* A challenge is stored, or in the hands of one thread, or in one request.
Working(h) == handler[h].pc # "idle"
HandlerOK(h) == Working(h) =>
    /\ handler[h].challenge # None /\ ceremony[handler[h].challenge] # None
    /\ handler[h].pc # "storeChallenge" => handler[h].credential \in Credential
    /\ IF handler[h].pc = "createWrite"
       THEN handler[h].request # None /\ request[handler[h].request] # None
       ELSE \A r \in Request : request[r] # None =>
               request[r].challenge # handler[h].challenge
    /\ \A g \in Handler \ {h} : Working(g) => handler[g].challenge # handler[h].challenge
StoredOK(d) == challenges[d] # None =>
    /\ ceremony[challenges[d]] # None /\ ceremony[challenges[d]].did = d
    /\ \A h \in Handler : Working(h) => handler[h].challenge # challenges[d]
    /\ \A r \in Request : request[r] # None => request[r].challenge # challenges[d]
RequestOK(r) == request[r] # None => ceremony[request[r].challenge] # None

CeremonyOK == /\ \A h \in Handler : HandlerOK(h)
              /\ \A d \in Did : StoredOK(d)
              /\ \A r \in Request : RequestOK(r)

--------------------------------------------------------------------------------
(* The inductive invariants behind DuplicateRefused, PromotedInLedger and  *)
(* RevocationFinal.                                                        *)

\* A thread whose check has passed ENROLMENT_DIR is alone with its credential, and
\* the requests that have it have been moved to where it looks next.
Checked(h) == handler[h].pc \in {"scanSecond", "createOpen", "createWrite"}
Holders(cred) == {r \in Request : request[r] # None /\ request[r].credential = cred}
CheckOK(h) ==
    LET cred == handler[h].credential IN
    Checked(h) /\ cred \notin excused =>
        /\ \A g \in Handler \ {h} : Checked(g) => handler[g].credential # cred
        /\ handler[h].pc = "scanSecond" => \A r \in Holders(cred) : promoted[r] # None
        /\ handler[h].pc = "createOpen" => Holders(cred) = {}
DuplicateOK == \A h \in Handler : CheckOK(h)

\* Commands that change the log one after the other, as with a lock held from its
\* load to its save; what they do to request files may overlap.
Saving(p) == proc[p].pc \in {"openLog", "writeLog"}
OneSaver  == \A p, q \in Process : Saving(p) /\ Saving(q) => p = q

\* What a log and a command's copy of it have in common: the DID of every request
\* that is or will be promoted, and every revocation.
Filed(p) == proc[p].op = "promote" /\ proc[p].pc \in {"openRequest", "writeRequest", "move"}
Settled == {r \in Request : promoted[r] # None \/ \E p \in Process : Filed(p) /\ proc[p].request = r}
Complete(l) == /\ \A r \in Settled : request[r].did \in DidsOf(l)
               /\ \A d \in revoked : RevokedIn(l, d)
CopyOK(p) == Saving(p) =>
    /\ Complete(proc[p].log)
    /\ proc[p].op = "promote" => request[proc[p].request].did \in DidsOf(proc[p].log)
    /\ proc[p].op = "revoke" => RevokedIn(proc[p].log, proc[p].did)
LogComplete == /\ log # Torn => Complete(log)
               /\ \A p \in Process : CopyOK(p)
================================================================================
