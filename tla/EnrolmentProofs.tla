---------------------------- MODULE EnrolmentProofs ----------------------------
(* Proofs about Enrolment, for every value of its constants. *)
EXTENDS Enrolment, FiniteSetTheorems, FunctionTheorems, SequenceTheorems,
        TLAPS

USE EnrolmentAssumption

\* The elements of a sequence without repetition at some of its indices are as many
\* as the indices.
LEMMA DistinctElements ==
  ASSUME NEW s \in Seq(Validator), \A i, j \in DOMAIN s : i # j => s[i] # s[j],
         NEW I \in SUBSET DOMAIN s
  PROVE  Cardinality({s[i] : i \in I}) = Cardinality(I)
  <1> DEFINE T == {s[i] : i \in I}
             f == [i \in I |-> s[i]]
  <1>1. IsFiniteSet(T)
    <2>1. T \in SUBSET Validator
      OBVIOUS
    <2> QED
      BY <2>1, FS_Subset
  <1>2. f \in Bijection(I, T)
    BY DEF Bijection, Injection, Surjection, IsInjective
  <1>3. ExistsBijection(I, T)
    BY <1>2 DEF ExistsBijection
  <1>4. ExistsBijection(T, I)
    BY <1>3, Fun_ExistsBijSymmetric
  <1> QED
    BY <1>1, <1>4, FS_Bijection

\* A set of validators does not shrink when validators join it.
LEMMA MoreValidators ==
  ASSUME NEW S \in SUBSET Validator, NEW T \in SUBSET S
  PROVE  /\ Cardinality(S) \in Nat /\ Cardinality(T) \in Nat
         /\ Cardinality(T) <= Cardinality(S)
  BY FS_Subset, FS_CardinalityType

\* next_block is a block after every other of a well-formed log.
LEMMA NextBlockIsNext ==
  ASSUME NEW l \in Seq(Record), WellFormed(l)
  PROVE  NextBlock(l) \in Nat /\ \A i \in DOMAIN l : l[i].issued_at < NextBlock(l)
  <1>1. CASE l = <<>>
    BY <1>1 DEF NextBlock
  <1>2. CASE l # <<>>
    <2> DEFINE B == {l[i].issued_at : i \in DOMAIN l}
               n == Len(l)
    <2>1. n \in DOMAIN l /\ DOMAIN l = 1 .. n /\ \A i \in DOMAIN l : l[i].issued_at \in Nat
      <3>1. n \in Nat /\ n # 0 /\ DOMAIN l = 1 .. n
        BY <1>2, EmptySeq, LenProperties
      <3>2. \A i \in DOMAIN l : l[i] \in Record
        BY <3>1, ElementOfSeq
      <3> QED
        BY <3>1, <3>2 DEF Record
    <2>2. \A i \in DOMAIN l : l[i].issued_at <= l[n].issued_at
      BY <2>1 DEF WellFormed
    <2>3. Max(B) \in B /\ \A b \in B : Max(B) >= b
      <3>1. \E x \in B : \A y \in B : x >= y
        BY <2>1, <2>2
      <3> HIDE DEF B
      <3> QED
        BY <3>1 DEF Max
    <2>4. NextBlock(l) = Max(B) + 1
      BY <1>2 DEF NextBlock
    <2>5. Max(B) \in Nat /\ \A i \in DOMAIN l : Max(B) >= l[i].issued_at
      BY <2>1, <2>3
    <2> HIDE DEF B, n
    <2>6. \A i \in DOMAIN l : l[i].issued_at < Max(B) + 1
      BY <2>1, <2>5
    <2> QED
      BY <2>4, <2>5, <2>6
  <1> QED
    BY <1>1, <1>2

\* Adding the record of a DID that is not there, and revoking one that is.
LEMMA AppendRecord ==
  ASSUME TypeOK, NEW l \in Seq(Record), LogOK(l), NEW d \in Did, d \notin DidsOf(l),
         NEW by \in SUBSET Validator, NEW r \in Request \cup {None},
         r # None => Cardinality(by) >= Threshold /\ by \subseteq signed[r]
  PROVE  LET m == Append(l, NewRecord(l, d, by, r)) IN m \in Seq(Record) /\ LogOK(m)
  <1> DEFINE record == NewRecord(l, d, by, r)
             m == Append(l, record)
  <1>1. record \in Record /\ \A i \in DOMAIN l : l[i].issued_at < record.issued_at
    BY NextBlockIsNext DEF NewRecord, Record, LogOK
  <1>2. /\ m \in Seq(Record) /\ DOMAIN m = 1 .. Len(l) + 1 /\ DOMAIN l = 1 .. Len(l)
        /\ Len(l) \in Nat
        /\ m[Len(l) + 1] = record /\ \A i \in DOMAIN l : m[i] = l[i]
    BY <1>1
  <1>3. /\ record.did = d /\ record.issued_by = by /\ record.enrolment = r
        /\ record.revoked_at = None
    BY DEF NewRecord
  <1>4. \A i \in DOMAIN l : l[i].did # d
    BY DEF DidsOf
  <1> HIDE DEF m, record
  <1>5. WellFormed(m)
    BY <1>1, <1>2, <1>3, <1>4 DEF LogOK, WellFormed
  <1>6. Backed(m)
    BY <1>2, <1>3 DEF LogOK, Backed
  <1> QED
    BY <1>2, <1>5, <1>6 DEF LogOK, m, record

LEMMA RevokeRecord ==
  ASSUME NEW l \in Seq(Record), LogOK(l), NEW n \in DOMAIN l
  PROVE  LET m == [l EXCEPT ![n].revoked_at = NextBlock(l)] IN m \in Seq(Record) /\ LogOK(m)
  <1> DEFINE record == [l[n] EXCEPT !.revoked_at = NextBlock(l)]
             m == [l EXCEPT ![n] = record]
  <1>1. NextBlock(l) \in Nat /\ \A i \in DOMAIN l : l[i].issued_at < NextBlock(l)
    BY NextBlockIsNext DEF LogOK
  <1>2. l[n] \in Record
    OBVIOUS
  <1>3. /\ record \in Record /\ record.did = l[n].did /\ record.issued_at = l[n].issued_at
        /\ record.issued_by = l[n].issued_by /\ record.enrolment = l[n].enrolment
        /\ record.revoked_at = NextBlock(l)
    BY <1>1, <1>2 DEF Record
  <1>4. /\ m \in Seq(Record) /\ DOMAIN m = DOMAIN l /\ m[n] = record
        /\ \A i \in DOMAIN l \ {n} : m[i] = l[i]
    BY <1>3
  <1> HIDE DEF m, record
  <1>5. WellFormed(m)
    BY <1>1, <1>3, <1>4 DEF LogOK, WellFormed
  <1>6. Backed(m)
    BY <1>3, <1>4 DEF LogOK, Backed
  <1>7. m = [l EXCEPT ![n].revoked_at = NextBlock(l)]
    BY DEF m, record
  <1> QED
    BY <1>4, <1>5, <1>6, <1>7 DEF LogOK

--------------------------------------------------------------------------------
(* Types *)

LEMMA InitOK == Init => TypeOK /\ FilesOK /\ CeremonyOK
  <1> SUFFICES ASSUME Init PROVE TypeOK /\ FilesOK /\ CeremonyOK
    OBVIOUS
  <1>1. TypeOK
    BY DEF Init, TypeOK, Free, HandlerState, Idle, ProcState, File, Log
  <1>2. FilesOK
    BY DEF Init, FilesOK, FileOK, ProcOK, LogOK, WellFormed, Backed, Readable, Idle
  <1>3. CeremonyOK
    BY DEF Init, CeremonyOK, HandlerOK, StoredOK, RequestOK, Working, Free
  <1> QED
    BY <1>1, <1>2, <1>3

\* A process that starts or goes on with well-typed local variables.
LEMMA ProcType ==
  ASSUME TypeOK, NEW p \in Process, NEW local \in ProcState, Start(p, local)
  PROVE  proc' \in [Process -> ProcState]
  BY DEF TypeOK, Start

LEMMA IdleType == Idle \in ProcState /\ Free \in HandlerState
  BY DEF Idle, ProcState, Free, HandlerState

\* The copies of a request file that the BFF and the commands write.
LEMMA NewContent == [status |-> "pending", signatures |-> <<>>] \in Content
  BY EmptySeq DEF Content

LEMMA ChangedContent ==
  ASSUME NEW c \in Content, NEW v \in Validator
  PROVE  /\ [c EXCEPT !.signatures = Append(@, v)] \in Content
         /\ [c EXCEPT !.status = "promoted"] \in Content
  <1>1. Append(c.signatures, v) \in Seq(Validator)
    <2>1. c.signatures \in Seq(Validator)
      BY DEF Content
    <2> QED
      BY <2>1
  <1> QED
    BY <1>1 DEF Content

\* The steps of the BFF keep the types.
LEMMA BffType ==
  ASSUME TypeOK, CeremonyOK, NEW h \in Handler, BffStep(h)
  PROVE  TypeOK'
  <1> USE DEF TypeOK, files, ledger
  <1>1. ASSUME NEW c \in Challenge, NEW cred \in Credential, Submit(h, c, cred)
        PROVE  TypeOK'
    <2>1. challenges' \in [Did -> Challenge \cup {None}]
      BY <1>1 DEF Submit, PopChallenge
    <2>2. handler' \in [Handler -> HandlerState]
      BY <1>1 DEF Submit, AcceptSubmit, HandlerState
    <2> QED
      BY <1>1, <2>1, <2>2 DEF Submit
  <1>2. CASE CheckNonce(h)
    <2>1. handler' \in [Handler -> HandlerState]
      <3>1. [handler[h] EXCEPT !.pc = "popNonce"] \in HandlerState
        BY DEF HandlerState
      <3> QED
        BY <1>2, <3>1, IdleType DEF CheckNonce
    <2> QED
      BY <1>2, <2>1 DEF CheckNonce
  <1>3. CASE PopNonce(h)
    BY <1>3 DEF PopNonce, HandlerState
  <1>4. CASE Scan(h)
    <2>1. handler[h].credential \in Credential
      BY <1>4 DEF Scan, CeremonyOK, HandlerOK, Working
    <2>2. excused' \subseteq Credential
      BY <1>4, <2>1 DEF Scan
    <2>3. handler' \in [Handler -> HandlerState]
      BY <1>4, IdleType DEF Scan, HandlerState
    <2> QED
      BY <1>4, <2>2, <2>3 DEF Scan
  <1>5. CASE CreateOpen(h)
    <2>1. /\ ceremony[handler[h].challenge] \in Ceremony
          /\ handler[h].challenge \in Challenge /\ handler[h].credential \in Credential
      BY <1>5 DEF CreateOpen, CeremonyOK, HandlerOK, Working, HandlerState
    <2>2. PICK r \in Request :
             /\ request[r] = None
             /\ request' = [request EXCEPT
                   ![r] = [did |-> HandlerDid(h),
                           type |-> ceremony[handler[h].challenge].type,
                           credential |-> handler[h].credential,
                           challenge |-> handler[h].challenge]]
             /\ pending' = [pending EXCEPT ![r] = Torn]
             /\ handler' = [handler EXCEPT ![h].pc = "createWrite", ![h].request = r]
      BY <1>5 DEF CreateOpen
    <2>3. request'[r] \in RequestInfo
      BY <2>1, <2>2 DEF HandlerDid, Ceremony, RequestInfo
    <2>4. request' \in [Request -> RequestInfo \cup {None}] /\ request'[r] # None
      BY <2>2, <2>3
    <2>5. pending' \in [Request -> File]
      BY <2>2 DEF File
    <2>6. handler' \in [Handler -> HandlerState]
      <3>1. handler' = [handler EXCEPT ![h] = [handler[h] EXCEPT !.pc = "createWrite",
                                                                 !.request = r]]
        BY <2>2
      <3>2. [handler[h] EXCEPT !.pc = "createWrite", !.request = r] \in HandlerState
        <4>1. handler[h] \in HandlerState
          OBVIOUS
        <4> QED
          BY <4>1 DEF HandlerState
      <3> QED
        BY <3>1, <3>2
    <2> QED
      BY <1>5, <2>2, <2>4, <2>5, <2>6 DEF CreateOpen
  <1>6. CASE CreateWrite(h)
    <2>1. handler[h].request \in Request /\ request[handler[h].request] # None
      BY <1>6 DEF CreateWrite, CeremonyOK, HandlerOK, Working, HandlerState
    <2>2. pending' \in [Request -> File]
      BY <1>6, <2>1, NewContent DEF CreateWrite, File
    <2>3. handler' \in [Handler -> HandlerState]
      BY <1>6, IdleType DEF CreateWrite
    <2> QED
      BY <1>6, <2>1, <2>2, <2>3 DEF CreateWrite
  <1>7. ASSUME NEW d \in Did, StartAdd(h, d) PROVE TypeOK'
    <2>1. PICK c \in Challenge :
             /\ ceremony' = [ceremony EXCEPT ![c] = [did |-> d, type |-> "add_credential"]]
             /\ handler' = [handler EXCEPT ![h] = [Free EXCEPT !.pc = "storeChallenge",
                                                             !.challenge = c]]
      BY <1>7 DEF StartAdd, DrawChallenge
    <2>2. ceremony' \in [Challenge -> Ceremony \cup {None}]
      BY <2>1 DEF Ceremony, RequestType
    <2>3. handler' \in [Handler -> HandlerState]
      BY <2>1 DEF Free, HandlerState
    <2> QED
      BY <1>7, <2>2, <2>3 DEF StartAdd
  <1>8. CASE StoreChallenge(h)
    <2>1. handler[h].challenge \in Challenge /\ ceremony[handler[h].challenge].did \in Did
      BY <1>8 DEF StoreChallenge, CeremonyOK, HandlerOK, Working, HandlerState, Ceremony
    <2> QED
      BY <1>8, <2>1, IdleType DEF StoreChallenge
  <1> QED
    BY <1>1, <1>2, <1>3, <1>4, <1>5, <1>6, <1>7, <1>8 DEF BffStep

\* The steps of the commands keep the types.
LEMMA CommandType ==
  ASSUME TypeOK, FilesOK, NEW p \in Process, CommandStep(p)
  PROVE  TypeOK'
  <1> USE DEF TypeOK, bff, files, ledger
  <1> DEFINE local == proc[p]
             q == proc[p].request
  <1>0. local \in ProcState /\ ProcOK(p)
    BY DEF FilesOK
  <1>1. ASSUME NEW r \in Request, NEW v \in Validator, SignRead(p, r, v)
        PROVE  TypeOK'
    <2>1. pending[r] \in Content
      BY <1>1 DEF SignRead, Signable, Readable, File
    <2>2. [pending[r] EXCEPT !.signatures = Append(@, v)] \in Content
      BY <2>1, ChangedContent
    <2>3. proc' \in [Process -> ProcState]
      BY <1>1, <2>2 DEF SignRead, Start, Idle, ProcState
    <2> QED
      BY <1>1, <2>3 DEF SignRead
  <1>2. ASSUME NEW r \in Request, NEW keys \in SUBSET Validator, PromoteRead(p, r, keys)
        PROVE  TypeOK'
    <2>1. pending[r] \in Content
      BY <1>2 DEF PromoteRead, Signable, Readable, File
    <2>2. [pending[r] EXCEPT !.status = "promoted"] \in Content
      BY <2>1 DEF Content
    <2> DEFINE valid == {i \in DOMAIN pending[r].signatures :
                            pending[r].signatures[i] \in keys}
               by == {pending[r].signatures[i] : i \in valid}
    <2>3. by \in SUBSET Validator
      OBVIOUS
    <2>4. proc' = [proc EXCEPT ![p] =
             [Idle EXCEPT !.pc = "loadLog", !.op = "promote", !.request = r,
                          !.req = [pending[r] EXCEPT !.status = "promoted"],
                          !.valid = by]]
      BY <1>2 DEF PromoteRead, Start
    <2> HIDE DEF by, valid
    <2>5. proc' \in [Process -> ProcState]
      BY <2>2, <2>3, <2>4 DEF Idle, ProcState
    <2> QED
      BY <1>2, <2>5 DEF PromoteRead
  <1>3. CASE PromoteLoad(p)
    <2> DEFINE record == NewRecord(log, request[q].did, local.valid, q)
    <2>1. log \in Log /\ LogOK(log)
      BY <1>3 DEF PromoteLoad, FilesOK
    <2>2. /\ q \in Request /\ request[q].did \in Did /\ local.valid \in SUBSET Validator
          /\ Cardinality(local.valid) >= Threshold /\ local.valid \subseteq signed[q]
      BY <1>0, <1>3 DEF PromoteLoad, ProcOK, ProcState, RequestInfo
    <2>3. request[q].did \notin DidsOf(log) => Append(log, record) \in Log
      BY <2>1, <2>2, AppendRecord DEF Log
    <2>4. record.did = request[q].did
      BY DEF NewRecord
    <2> HIDE DEF record
    <2>5. proc' \in [Process -> ProcState]
      BY <1>0, <1>3, <2>1, <2>3, <2>4 DEF PromoteLoad, Start, ProcState, record
    <2> QED
      BY <1>3, <2>5 DEF PromoteLoad
  <1>4. ASSUME NEW d \in Did, NEW keys \in [1 .. RegisterThreshold -> Validator],
               Register(p, d, keys)
        PROVE  TypeOK'
    <2>1. log \in Log /\ LogOK(log) /\ d \notin DidsOf(log)
      BY <1>4 DEF Register, FilesOK
    <2>2. Range(keys) \in SUBSET Validator
      BY DEF Range
    <2>3. Append(log, NewRecord(log, d, Range(keys), None)) \in Log
      BY <2>1, <2>2, AppendRecord DEF Log
    <2>4. proc' \in [Process -> ProcState]
      BY <1>4, <2>3 DEF Register, Start, Idle, ProcState
    <2> QED
      BY <1>4, <2>4 DEF Register
  <1>5. ASSUME NEW d \in Did, Revoke(p, d) PROVE TypeOK'
    <2>1. log \in Log /\ LogOK(log)
      BY <1>5 DEF Revoke, FilesOK
    <2>2. PICK i \in DOMAIN log :
             Start(p, [Idle EXCEPT
                !.pc = "openLog", !.op = "revoke", !.did = d,
                !.log = [log EXCEPT ![i].revoked_at = NextBlock(log)]])
      BY <1>5 DEF Revoke
    <2>3. [log EXCEPT ![i].revoked_at = NextBlock(log)] \in Log
      BY <2>1, RevokeRecord DEF Log
    <2>4. proc' \in [Process -> ProcState]
      BY <2>2, <2>3 DEF Start, Idle, ProcState
    <2> QED
      BY <1>5, <2>4 DEF Revoke
  <1>6. CASE OpenLog(p)
    BY <1>6 DEF OpenLog, Goto, ProcState
  <1>7. CASE WriteLog(p)
    <2>1. local.log \in Log /\ (local.op = "revoke" => local.did \in Did)
      BY <1>0, <1>7 DEF WriteLog, ProcOK, ProcState
    <2>2. proc' \in [Process -> ProcState]
      <3>1. [local EXCEPT !.pc = "openRequest"] \in ProcState
        BY <1>0 DEF ProcState
      <3> QED
        BY <1>0, <1>7, <3>1, IdleType DEF WriteLog, Goto, Exit
    <2>3. log' \in {local.log, Torn}
      BY <1>7 DEF WriteLog, Written
    <2> QED
      BY <1>7, <2>1, <2>2, <2>3 DEF WriteLog
  <1>8. CASE OpenRequest(p)
    <2>1. q \in Request /\ request[q] # None
      BY <1>0, <1>8 DEF OpenRequest, ProcOK, ProcState
    <2>2. pending' \in [Request -> File] /\ proc' \in [Process -> ProcState]
      BY <1>0, <1>8 DEF OpenRequest, Goto, ProcState, File
    <2> QED
      BY <1>8, <2>1, <2>2 DEF OpenRequest
  <1>9. CASE WriteRequest(p)
    <2>1. q \in Request /\ request[q] # None /\ local.req \in Content
          /\ local.valid \subseteq Validator
      BY <1>0, <1>9 DEF WriteRequest, ProcOK, ProcState
    <2>2. /\ pending' \in [Request -> File] /\ promoted' \in [Request -> File]
          /\ \A r \in Request \ {q} : pending'[r] = pending[r] /\ promoted'[r] = promoted[r]
          /\ signed' \in [Request -> SUBSET Validator]
      BY <1>9, <2>1 DEF WriteRequest, Written, File
    <2>3. proc' \in [Process -> ProcState]
      BY <1>0, <1>9, IdleType DEF WriteRequest, Goto, Exit, ProcState
    <2> QED
      BY <1>9, <2>1, <2>2, <2>3 DEF WriteRequest
  <1>10. CASE Move(p)
    <2>1. q \in Request /\ request[q] # None
      BY <1>0, <1>10 DEF Move, ProcOK, ProcState
    <2>2. pending' \in [Request -> File] /\ promoted' \in [Request -> File]
      BY <1>10, <2>1 DEF Move, File
    <2>3. proc' \in [Process -> ProcState]
      BY <1>10, IdleType DEF Move, Exit
    <2> QED
      BY <1>10, <2>1, <2>2, <2>3 DEF Move
  <1>11. CASE Crash(p)
    BY <1>11, IdleType DEF Crash, Exit
  <1> QED
    BY <1>1, <1>2, <1>3, <1>4, <1>5, <1>6, <1>7, <1>8, <1>9, <1>10, <1>11 DEF CommandStep

LEMMA TypeStep == TypeOK /\ FilesOK /\ CeremonyOK /\ [Next]_vars => TypeOK'
  <1> SUFFICES ASSUME TypeOK, FilesOK, CeremonyOK, [Next]_vars PROVE TypeOK'
    OBVIOUS
  <1>1. ASSUME NEW d \in Did, StartNew(d) PROVE TypeOK'
    BY <1>1 DEF StartNew, DrawChallenge, TypeOK, files, ledger, Ceremony, RequestType
  <1>2. ASSUME NEW r \in Request, Expire(r) PROVE TypeOK'
    BY <1>2 DEF Expire, TypeOK, bff, ledger
  <1>3. CASE RestartBff
    BY <1>3, IdleType DEF RestartBff, TypeOK, files, ledger
  <1>4. CASE UNCHANGED vars
    BY <1>4 DEF vars, bff, files, ledger, TypeOK
  <1> QED
    BY <1>1, <1>2, <1>3, <1>4, BffType, CommandType DEF Next

--------------------------------------------------------------------------------
(* Files and their copies *)

\* What is said of a log, a copy of a request or a command stays true while
\* signatures are added and requests are created.
LEMMA LogKept ==
  ASSUME TypeOK, TypeOK', \A r \in Request : signed[r] \subseteq signed'[r],
         NEW l \in Log, LogOK(l)
  PROVE  LogOK(l)'
  <1>1. \A i \in DOMAIN l : l[i].enrolment # None => l[i].enrolment \in Request
    <2>1. \A i \in DOMAIN l : l[i] \in Record
      BY DEF Log
    <2> QED
      BY <2>1 DEF Record
  <1> QED
    BY <1>1 DEF LogOK, WellFormed, Backed

LEMMA ProcKept ==
  ASSUME TypeOK, TypeOK', NEW g \in Process, ProcOK(g), proc'[g] = proc[g],
         \A r \in Request : signed[r] \subseteq signed'[r],
         \A r \in Request : request[r] # None => request'[r] # None
  PROVE  ProcOK(g)'
  <1> DEFINE local == proc[g]
             q == proc[g].request
  <1>1. local \in ProcState
    BY DEF TypeOK
  <1> SUFFICES ASSUME local.pc # "idle" PROVE ProcOK(g)'
    BY DEF ProcOK
  <1>2. local.pc \in {"openLog", "writeLog"} => LogOK(local.log)'
    <2> HAVE local.pc \in {"openLog", "writeLog"}
    <2>1. local.log \in Log /\ LogOK(local.log)
      BY <1>1 DEF ProcOK, ProcState
    <2> QED
      BY <2>1, LogKept
  <1>3. local.op \in {"sign", "promote"} =>
           /\ q \in Request /\ signed[q] \subseteq signed'[q] /\ request'[q] # None
    BY <1>1 DEF ProcOK, ProcState
  <1> QED
    BY <1>2, <1>3 DEF ProcOK, SignaturesOK

LEMMA FileKept ==
  ASSUME TypeOK, TypeOK', NEW r \in Request, FileOK(r), signed[r] \subseteq signed'[r]
  PROVE  /\ request'[r] = request[r] /\ pending'[r] = pending[r] /\ promoted'[r] = promoted[r]
               => FileOK(r)'
         /\ Cardinality(signed[r]) >= Threshold => Cardinality(signed'[r]) >= Threshold
  <1>1. Cardinality(signed[r]) >= Threshold => Cardinality(signed'[r]) >= Threshold
    BY MoreValidators DEF TypeOK
  <1> QED
    BY <1>1 DEF FileOK, Readable, SignaturesOK

\* The steps of the BFF.
LEMMA BffFiles ==
  ASSUME TypeOK, TypeOK', FilesOK, CeremonyOK, NEW h \in Handler, BffStep(h)
  PROVE  FilesOK'
  <1> USE DEF files, ledger
  <1>1. /\ UNCHANGED <<log, promoted, proc, signed>>
        /\ \A r \in Request : request[r] # None => request'[r] # None
        /\ \A r \in Request : \/ pending'[r] = pending[r]
                              \/ pending'[r] = Torn
                              \/ pending'[r] = [status |-> "pending", signatures |-> <<>>]
          \* No file goes, and a request that is created gets one.
        /\ \A r \in Request : request'[r] # request[r] \/ pending'[r] # pending[r]
                                  => pending'[r] # None
    <2>1. CASE CreateOpen(h)
      BY <2>1 DEF CreateOpen, TypeOK
    <2>2. CASE CreateWrite(h)
      BY <2>2, NewContent DEF CreateWrite, TypeOK
    <2>3. CASE ~CreateOpen(h) /\ ~CreateWrite(h)
      BY <2>3 DEF BffStep, StartAdd, StoreChallenge, Submit, CheckNonce, PopNonce, Scan
    <2> QED
      BY <2>1, <2>2, <2>3
  <1>2. \A p \in Process : ProcOK(p)'
    BY <1>1, ProcKept DEF FilesOK
  <1>3. \A r \in Request : FileOK(r)'
    BY <1>1 DEF FilesOK, FileOK, Readable, SignaturesOK
  <1>4. log' # Torn => LogOK(log)'
    BY <1>1 DEF FilesOK, LogOK, Backed
  <1> QED
    BY <1>2, <1>3, <1>4 DEF FilesOK

\* Commands that change no file.
LEMMA CommandStarts ==
  ASSUME TypeOK, TypeOK', FilesOK, NEW p \in Process,
         UNCHANGED <<files, ledger, signed>>,
         \A g \in Process \ {p} : proc'[g] = proc[g],
         ProcOK(p)'
  PROVE  FilesOK'
  <1> USE DEF files, ledger
  <1>1. \A g \in Process \ {p} : ProcOK(g)'
    BY ProcKept DEF FilesOK
  <1>2. \A r \in Request : FileOK(r)'
    BY FileKept DEF FilesOK
  <1>3. log' # Torn => LogOK(log)'
    BY DEF FilesOK, LogOK, Backed
  <1> QED
    BY <1>1, <1>2, <1>3 DEF FilesOK

\* The steps of the commands.
LEMMA CommandFiles ==
  ASSUME TypeOK, TypeOK', FilesOK, NEW p \in Process, CommandStep(p)
  PROVE  FilesOK'
  <1> USE DEF files, ledger
  <1> DEFINE local == proc[p]
             q == proc[p].request
  <1>0. local \in ProcState /\ ProcOK(p)
    BY DEF FilesOK, TypeOK
  <1>1. ASSUME NEW r \in Request, NEW v \in Validator, SignRead(p, r, v)
        PROVE  FilesOK'
    <2> DEFINE s == pending[r].signatures
    <2>1. pending[r] \in Content /\ request[r] # None
      BY <1>1 DEF SignRead, Signable, Readable, File, TypeOK
    <2>2. s \in Seq(Validator) /\ SignaturesOK(s, signed[r]) /\ \A i \in DOMAIN s : s[i] # v
      BY <1>1, <2>1 DEF Content, FilesOK, FileOK, SignRead, Signable
    <2>3. SignaturesOK(Append(s, v), signed[r] \cup {v})
      <3>1. /\ DOMAIN Append(s, v) = 1 .. Len(s) + 1 /\ DOMAIN s = 1 .. Len(s)
            /\ Len(s) \in Nat
            /\ Append(s, v)[Len(s) + 1] = v /\ \A i \in DOMAIN s : Append(s, v)[i] = s[i]
        BY <2>2
      <3> HIDE DEF s
      <3> QED
        BY <2>2, <3>1 DEF SignaturesOK
    <2>4. proc' = [proc EXCEPT ![p] =
             [Idle EXCEPT !.pc = "openRequest", !.op = "sign", !.request = r,
                          !.valid = {v},
                          !.req = [pending[r] EXCEPT !.signatures = Append(s, v)]]]
      BY <1>1 DEF SignRead, Start
    <2>5. /\ proc'[p].pc = "openRequest" /\ proc'[p].op = "sign" /\ proc'[p].request = r
          /\ proc'[p].valid = {v}
          /\ proc'[p].req = [pending[r] EXCEPT !.signatures = Append(s, v)]
          /\ \A g \in Process \ {p} : proc'[g] = proc[g]
      BY <2>4 DEF TypeOK, Idle
    <2>6. proc'[p].req.signatures = Append(s, v) /\ proc'[p].req # None
      BY <2>1, <2>5, ChangedContent DEF Content
    <2>7. UNCHANGED <<files, ledger, signed>>
      BY <1>1 DEF SignRead
    <2>8. ProcOK(p)'
      BY <2>1, <2>3, <2>5, <2>6, <2>7 DEF ProcOK
    <2> QED
      BY <2>5, <2>7, <2>8, CommandStarts
  <1>2. ASSUME NEW r \in Request, NEW keys \in SUBSET Validator, PromoteRead(p, r, keys)
        PROVE  FilesOK'
    <2> DEFINE s == pending[r].signatures
               valid == {i \in DOMAIN s : s[i] \in keys}
               by == {s[i] : i \in valid}
    <2>1. pending[r] \in Content /\ request[r] # None
      BY <1>2 DEF PromoteRead, Signable, Readable, File, TypeOK
    <2>2. s \in Seq(Validator) /\ SignaturesOK(s, signed[r])
      BY <1>2, <2>1 DEF Content, FilesOK, FileOK, PromoteRead, Signable
    <2>3. Cardinality(by) >= Threshold /\ by \subseteq signed[r]
      <3>1. Cardinality(valid) >= Threshold /\ valid \in SUBSET DOMAIN s
        BY <1>2 DEF PromoteRead
      <3>2. Cardinality(by) = Cardinality(valid)
        BY <2>2, <3>1, DistinctElements DEF SignaturesOK
      <3> QED
        BY <2>2, <3>1, <3>2 DEF SignaturesOK
    <2>4. proc' = [proc EXCEPT ![p] =
             [Idle EXCEPT !.pc = "loadLog", !.op = "promote", !.request = r,
                          !.req = [pending[r] EXCEPT !.status = "promoted"],
                          !.valid = by]]
      BY <1>2 DEF PromoteRead, Start
    <2> HIDE DEF by, valid
    <2>5. /\ proc'[p].pc = "loadLog" /\ proc'[p].op = "promote" /\ proc'[p].request = r
          /\ proc'[p].valid = by /\ proc'[p].req = [pending[r] EXCEPT !.status = "promoted"]
          /\ \A g \in Process \ {p} : proc'[g] = proc[g]
      BY <2>4 DEF TypeOK, Idle
    <2>6. proc'[p].req.signatures = s /\ proc'[p].req # None
      BY <2>1, <2>5 DEF Content
    <2>7. UNCHANGED <<files, ledger, signed>>
      BY <1>2 DEF PromoteRead
    <2>8. ProcOK(p)'
      BY <2>1, <2>2, <2>3, <2>5, <2>6, <2>7 DEF ProcOK
    <2> QED
      BY <2>5, <2>7, <2>8, CommandStarts
  <1>3. CASE PromoteLoad(p)
    <2> DEFINE record == NewRecord(log, request[q].did, local.valid, q)
               copy == IF record.did \in DidsOf(log) THEN log ELSE Append(log, record)
    <2>1. log \in Log /\ LogOK(log)
      BY <1>3 DEF PromoteLoad, FilesOK, TypeOK
    <2>2. /\ q \in Request /\ request[q].did \in Did /\ local.valid \in SUBSET Validator
          /\ Cardinality(local.valid) >= Threshold /\ local.valid \subseteq signed[q]
      BY <1>0, <1>3 DEF PromoteLoad, ProcOK, ProcState, RequestInfo, TypeOK
    <2>3. request[q].did \notin DidsOf(log) =>
             Append(log, record) \in Log /\ LogOK(Append(log, record))
      BY <2>1, <2>2, AppendRecord DEF Log
    <2>4. record.did = request[q].did
      BY DEF NewRecord
    <2>5. copy \in Log /\ LogOK(copy)
      BY <2>1, <2>3, <2>4
    <2>6. proc' = [proc EXCEPT ![p] = [local EXCEPT !.pc = "openLog", !.log = copy]]
      BY <1>3 DEF PromoteLoad, Start
    <2> HIDE DEF copy, record
    <2>7. /\ proc'[p] = [local EXCEPT !.pc = "openLog", !.log = copy]
          /\ \A g \in Process \ {p} : proc'[g] = proc[g]
      BY <2>6 DEF TypeOK
    <2>8. /\ proc'[p].pc = "openLog" /\ proc'[p].log = copy
          /\ proc'[p].op = local.op /\ proc'[p].request = q /\ proc'[p].req = local.req
          /\ proc'[p].valid = local.valid /\ local.op = "promote" /\ local.pc # "idle"
      BY <1>0, <1>3, <2>7 DEF ProcState, PromoteLoad, ProcOK
    <2>9. UNCHANGED <<files, ledger, signed>>
      BY <1>3 DEF PromoteLoad
    <2>10. LogOK(proc[p].log)' /\ proc'[p].log # None
      BY <2>5, <2>8, <2>9 DEF LogOK, Backed, Log
    <2>11. ProcOK(p)'
      BY <1>0, <2>8, <2>9, <2>10 DEF ProcOK
    <2> QED
      BY <2>7, <2>9, <2>11, CommandStarts
  <1>4. ASSUME NEW d \in Did, NEW keys \in [1 .. RegisterThreshold -> Validator],
               Register(p, d, keys)
        PROVE  FilesOK'
    <2> DEFINE copy == Append(log, NewRecord(log, d, Range(keys), None))
    <2>1. log \in Log /\ LogOK(log) /\ d \notin DidsOf(log)
      BY <1>4 DEF Register, FilesOK, TypeOK
    <2>2. Range(keys) \in SUBSET Validator
      BY DEF Range
    <2>3. copy \in Log /\ LogOK(copy)
      BY <2>1, <2>2, AppendRecord DEF Log
    <2>4. proc' = [proc EXCEPT ![p] =
                     [Idle EXCEPT !.pc = "openLog", !.op = "register", !.log = copy]]
      BY <1>4 DEF Register, Start
    <2> HIDE DEF copy
    <2>5. /\ proc'[p].pc = "openLog" /\ proc'[p].op = "register" /\ proc'[p].log = copy
          /\ \A g \in Process \ {p} : proc'[g] = proc[g]
      BY <2>4 DEF TypeOK, Idle
    <2>6. UNCHANGED <<files, ledger, signed>>
      BY <1>4 DEF Register
    <2>7. LogOK(proc[p].log)' /\ proc'[p].log # None
      BY <2>3, <2>5, <2>6 DEF LogOK, Backed, Log
    <2>8. ProcOK(p)'
      BY <2>5, <2>7 DEF ProcOK
    <2> QED
      BY <2>5, <2>6, <2>8, CommandStarts
  <1>5. ASSUME NEW d \in Did, Revoke(p, d) PROVE FilesOK'
    <2>1. log \in Log /\ LogOK(log)
      BY <1>5 DEF Revoke, FilesOK, TypeOK
    <2>2. PICK i \in DOMAIN log :
             Start(p, [Idle EXCEPT
                !.pc = "openLog", !.op = "revoke", !.did = d,
                !.log = [log EXCEPT ![i].revoked_at = NextBlock(log)]])
      BY <1>5 DEF Revoke
    <2> DEFINE copy == [log EXCEPT ![i].revoked_at = NextBlock(log)]
    <2>3. copy \in Log /\ LogOK(copy)
      BY <2>1, RevokeRecord DEF Log
    <2> HIDE DEF copy
    <2>4. /\ proc'[p].pc = "openLog" /\ proc'[p].op = "revoke" /\ proc'[p].did = d
          /\ proc'[p].log = copy
          /\ \A g \in Process \ {p} : proc'[g] = proc[g]
      BY <2>2 DEF Start, TypeOK, Idle, copy
    <2>5. UNCHANGED <<files, ledger, signed>>
      BY <1>5 DEF Revoke
    <2>6. LogOK(proc[p].log)' /\ proc'[p].log # None
      BY <2>3, <2>4, <2>5 DEF LogOK, Backed, Log
    <2>7. ProcOK(p)'
      BY <2>4, <2>6 DEF ProcOK
    <2> QED
      BY <2>4, <2>5, <2>7, CommandStarts
  <1>6. CASE OpenLog(p)
    <2>1. /\ proc'[p] = [local EXCEPT !.pc = "writeLog"] /\ local.pc = "openLog"
          /\ \A g \in Process \ {p} : proc'[g] = proc[g]
          /\ UNCHANGED <<files, signed>> /\ log' = Torn
      BY <1>6 DEF OpenLog, Goto, TypeOK
    <2>2. LogOK(local.log)'
      BY <1>0, <2>1 DEF ProcOK, LogOK, Backed
    <2>3. ProcOK(p)'
      BY <1>0, <2>1, <2>2 DEF ProcOK, ProcState
    <2>4. \A g \in Process \ {p} : ProcOK(g)'
      BY <2>1, ProcKept DEF FilesOK
    <2>5. \A r \in Request : FileOK(r)'
      BY <2>1, FileKept DEF FilesOK
    <2> QED
      BY <2>1, <2>3, <2>4, <2>5 DEF FilesOK
  <1>7. CASE WriteLog(p)
    <2>1. /\ local.pc = "writeLog" /\ log' \in {local.log, Torn}
          /\ \/ proc'[p] = Idle
             \/ proc'[p] = [local EXCEPT !.pc = "openRequest"] /\ local.op = "promote"
          /\ \A g \in Process \ {p} : proc'[g] = proc[g]
          /\ UNCHANGED <<files, signed>>
      BY <1>7 DEF WriteLog, Written, Goto, Exit, TypeOK
    <2>2. log' # Torn => LogOK(log)'
      BY <1>0, <2>1 DEF ProcOK, LogOK, Backed
    <2>3. ProcOK(p)'
      BY <1>0, <2>1 DEF ProcOK, ProcState, Idle
    <2>4. \A g \in Process \ {p} : ProcOK(g)'
      BY <2>1, ProcKept DEF FilesOK
    <2>5. \A r \in Request : FileOK(r)'
      BY <2>1, FileKept DEF FilesOK
    <2> QED
      BY <2>2, <2>3, <2>4, <2>5 DEF FilesOK
  <1>8. CASE OpenRequest(p)
    <2>1. /\ proc'[p] = [local EXCEPT !.pc = "writeRequest"] /\ local.pc = "openRequest"
          /\ \A g \in Process \ {p} : proc'[g] = proc[g]
          /\ UNCHANGED <<request, promoted, log, signed>>
          /\ \A r \in Request : pending'[r] \in {pending[r], Torn}
      BY <1>8 DEF OpenRequest, Goto, TypeOK
    <2>2. ProcOK(p)'
      BY <1>0, <2>1 DEF ProcOK, ProcState
    <2>3. \A g \in Process \ {p} : ProcOK(g)'
      BY <2>1, ProcKept DEF FilesOK
    <2>4. \A r \in Request : FileOK(r)'
      BY <2>1 DEF FilesOK, FileOK, Readable
    <2>5. log' # Torn => LogOK(log)'
      BY <2>1 DEF FilesOK, LogOK, Backed
    <2> QED
      BY <2>2, <2>3, <2>4, <2>5 DEF FilesOK
  <1>9. CASE WriteRequest(p)
    <2>1. /\ local.pc = "writeRequest" /\ local.op \in {"sign", "promote"}
          /\ q \in Request /\ local.req \in Content
      BY <1>0, <1>9 DEF WriteRequest, ProcOK, ProcState
    <2>2. /\ \/ proc'[p] = Idle
             \/ proc'[p] = [local EXCEPT !.pc = "move"] /\ local.op = "promote"
          /\ \A g \in Process \ {p} : proc'[g] = proc[g]
          /\ UNCHANGED <<request, log>>
          /\ \/ pending[q] = None /\ pending'[q] = None /\ promoted'[q] \in {local.req, Torn}
             \/ /\ pending[q] # None /\ pending'[q] \in {local.req, Torn}
                /\ promoted'[q] = promoted[q]
          /\ \A r \in Request \ {q} : pending'[r] = pending[r] /\ promoted'[r] = promoted[r]
      BY <1>9, <2>1 DEF WriteRequest, Written, Goto, Exit, TypeOK
    <2>3. /\ \A r \in Request : signed[r] \subseteq signed'[r]
          /\ local.op = "sign" => signed'[q] = signed[q] \cup local.valid
          /\ local.op = "promote" => signed' = signed
      BY <1>9, <2>1 DEF WriteRequest, TypeOK
    <2>4. ProcOK(p)'
      BY <1>0, <2>1, <2>2, <2>3 DEF ProcOK, ProcState, Idle
    <2>5. \A g \in Process \ {p} : ProcOK(g)'
      BY <2>2, <2>3, ProcKept DEF FilesOK
    <2>6. \A r \in Request \ {q} : FileOK(r)'
      BY <2>2, <2>3, FileKept DEF FilesOK
    <2>7. \A r \in Request : r = q => FileOK(r)'
      \* What has been moved was in promoted/ already.
      <3>1. pending[q] = None => promoted[q] # None
        BY <1>0, <2>1 DEF FilesOK, FileOK, ProcOK
      <3>2. promoted'[q] # None => Cardinality(signed'[q]) >= Threshold
        BY <2>1, <2>2, <2>3, <3>1, FileKept DEF FilesOK, FileOK
      <3>3. SignaturesOK(local.req.signatures, signed'[q])
        BY <1>0, <2>1, <2>3 DEF ProcOK
      <3>4. local.req # None
        BY <1>0, <2>1 DEF ProcOK
      <3> QED
        BY <2>2, <3>2, <3>3, <3>4 DEF FileOK, Readable
    <2>8. log' # Torn => LogOK(log)'
      BY <2>2, <2>3, LogKept DEF FilesOK, TypeOK
    <2> QED
      BY <2>4, <2>5, <2>6, <2>7, <2>8 DEF FilesOK
  <1>10. CASE Move(p)
    <2>1. /\ q \in Request /\ Cardinality(local.valid) >= Threshold
          /\ local.valid \subseteq signed[q]
      BY <1>0, <1>10 DEF Move, ProcOK, ProcState
    <2>2. Cardinality(signed[q]) >= Threshold
      BY <2>1, MoreValidators DEF TypeOK
    <2>3. /\ proc'[p] = Idle
          /\ \A g \in Process \ {p} : proc'[g] = proc[g]
          /\ UNCHANGED <<request, log, signed>>
          /\ \A r \in Request \ {q} : pending'[r] = pending[r] /\ promoted'[r] = promoted[r]
          /\ pending'[q] = None /\ (pending[q] # None => promoted'[q] # None)
          /\ (pending[q] = None => promoted'[q] = promoted[q])
      BY <1>10, <2>1 DEF Move, Exit, TypeOK
    <2>4. ProcOK(p)'
      BY <2>3 DEF ProcOK, Idle
    <2>5. \A g \in Process \ {p} : ProcOK(g)'
      BY <2>3, ProcKept DEF FilesOK
    <2>6. \A r \in Request : FileOK(r)'
      BY <2>2, <2>3 DEF FilesOK, FileOK, Readable
    <2>7. log' # Torn => LogOK(log)'
      BY <2>3 DEF FilesOK, LogOK, Backed
    <2> QED
      BY <2>4, <2>5, <2>6, <2>7 DEF FilesOK
  <1>11. CASE Crash(p)
    <2>1. /\ proc'[p] = Idle /\ \A g \in Process \ {p} : proc'[g] = proc[g]
          /\ UNCHANGED <<files, ledger, signed>>
      BY <1>11 DEF Crash, Exit, TypeOK
    <2>2. ProcOK(p)'
      BY <2>1 DEF ProcOK, Idle
    <2> QED
      BY <2>1, <2>2, CommandStarts
  <1> QED
    BY <1>1, <1>2, <1>3, <1>4, <1>5, <1>6, <1>7, <1>8, <1>9, <1>10, <1>11 DEF CommandStep

LEMMA FilesStep ==
  TypeOK /\ TypeOK' /\ FilesOK /\ CeremonyOK /\ [Next]_vars => FilesOK'
  <1> SUFFICES ASSUME TypeOK, TypeOK', FilesOK, CeremonyOK, [Next]_vars PROVE FilesOK'
    OBVIOUS
  <1>1. ASSUME UNCHANGED <<request, pending, promoted, log, proc, signed>> PROVE FilesOK'
    BY <1>1 DEF FilesOK, FileOK, ProcOK, LogOK, Backed, Readable
  <1> QED
    BY <1>1, BffFiles, CommandFiles DEF Next, StartNew, Expire, RestartBff, vars,
       bff, files, ledger

--------------------------------------------------------------------------------
(* Ceremonies *)

\* A challenge passes from the dictionary to one thread, and from there to a request.
LEMMA CeremonyStep ==
  /\ TypeOK /\ CeremonyOK /\ OneRequestPerCeremony /\ [Next]_vars
  => CeremonyOK' /\ OneRequestPerCeremony'
  <1> SUFFICES ASSUME TypeOK, CeremonyOK, OneRequestPerCeremony, [Next]_vars
               PROVE  CeremonyOK' /\ OneRequestPerCeremony'
    OBVIOUS
  <1> DEFINE Kept == CeremonyOK' /\ OneRequestPerCeremony'
  <1> USE DEF files, ledger
  <1>1. \A r \in Request : request[r] # None => request[r].challenge \in Challenge
    BY DEF TypeOK, RequestInfo
  <1>2. \A h \in Handler : Working(h) => handler[h].challenge \in Challenge
    BY DEF CeremonyOK, HandlerOK, TypeOK, HandlerState
  <1>3. ASSUME NEW d \in Did, StartNew(d) PROVE Kept
    <2>1. PICK c \in Challenge : /\ DrawChallenge(c, d, "new")
                                 /\ challenges' = [challenges EXCEPT ![d] = c]
      BY <1>3 DEF StartNew
    <2>2. UNCHANGED <<handler, request>>
      BY <1>3 DEF StartNew
    <2>3. /\ ceremony[c] = None /\ ceremony'[c] # None /\ ceremony'[c].did = d
          /\ \A b \in Challenge \ {c} : ceremony'[b] = ceremony[b]
          /\ challenges'[d] = c /\ \A e \in Did \ {d} : challenges'[e] = challenges[e]
      <3>1. [did |-> d, type |-> "new"] \in Ceremony
        BY DEF Ceremony, RequestType
      <3> QED
        BY <2>1, <3>1 DEF DrawChallenge, TypeOK
    <2>4. /\ \A h \in Handler : Working(h) => handler[h].challenge # c
          /\ \A r \in Request : request[r] # None => request[r].challenge # c
          /\ \A e \in Did : challenges[e] # c
      BY <2>3 DEF CeremonyOK, HandlerOK, RequestOK, StoredOK
    <2>5. \A h \in Handler : HandlerOK(h)'
      BY <1>2, <2>2, <2>3, <2>4 DEF CeremonyOK, HandlerOK, Working
    <2>6. \A e \in Did : StoredOK(e)'
      BY <2>2, <2>3, <2>4 DEF CeremonyOK, StoredOK, Working, TypeOK
    <2>7. \A r \in Request : RequestOK(r)'
      BY <1>1, <2>2, <2>3, <2>4 DEF CeremonyOK, RequestOK
    <2>8. OneRequestPerCeremony'
      BY <1>1, <2>2, <2>3, <2>4 DEF OneRequestPerCeremony
    <2> QED
      BY <2>5, <2>6, <2>7, <2>8 DEF CeremonyOK
  <1>4. ASSUME NEW h \in Handler, NEW c \in Challenge, NEW cred \in Credential,
               Submit(h, c, cred)
        PROVE  Kept
    <2> DEFINE d == ceremony[c].did
    <2>1. d \in Did /\ challenges[d] # None /\ ceremony[c] # None
      BY <1>4 DEF Submit, PopChallenge, TypeOK, Ceremony
    <2>2. /\ challenges' = [challenges EXCEPT ![d] = None]
          /\ UNCHANGED <<ceremony, request>>
      BY <1>4 DEF Submit, PopChallenge
    <2>3. challenges'[d] = None /\ \A e \in Did \ {d} : challenges'[e] = challenges[e]
      BY <2>1, <2>2 DEF TypeOK
    <2>4. CASE UNCHANGED handler
      BY <2>2, <2>3, <2>4 DEF CeremonyOK, HandlerOK, StoredOK, RequestOK, Working,
         OneRequestPerCeremony
    <2>5. CASE challenges[d] = c /\ AcceptSubmit(h, c, cred)
      <3>1. /\ handler'[h].pc \in {"scanFirst", "checkNonce"}
            /\ handler'[h].challenge = c /\ handler'[h].credential = cred
            /\ \A g \in Handler \ {h} : handler'[g] = handler[g]
        BY <2>5 DEF AcceptSubmit, TypeOK
      <3>2. /\ \A g \in Handler : Working(g) => handler[g].challenge # c
            /\ \A r \in Request : request[r] # None => request[r].challenge # c
            /\ \A e \in Did \ {d} : challenges[e] # c
        BY <2>1, <2>5 DEF CeremonyOK, StoredOK
      <3>3. \A g \in Handler : HandlerOK(g)'
        BY <1>4, <2>1, <2>2, <3>1, <3>2 DEF CeremonyOK, HandlerOK, Working
      <3>4. \A e \in Did : StoredOK(e)'
        BY <2>2, <2>3, <3>1, <3>2 DEF CeremonyOK, StoredOK, Working
      <3> QED
        BY <2>2, <3>3, <3>4 DEF CeremonyOK, RequestOK, OneRequestPerCeremony
    <2> QED
      BY <1>4, <2>4, <2>5 DEF Submit
  <1>5. ASSUME NEW h \in Handler,
               \A g \in Handler \ {h} : handler'[g] = handler[g],
               \/ handler'[h].pc = "idle"
               \/ /\ Working(h) /\ handler[h].pc \notin {"storeChallenge", "createWrite"}
                  /\ handler'[h].pc # "createWrite"
                  /\ handler'[h].challenge = handler[h].challenge
                  /\ handler'[h].credential = handler[h].credential,
               UNCHANGED <<challenges, ceremony, request>>
        PROVE  Kept
    <2>1. \A g \in Handler : HandlerOK(g)'
      BY <1>5 DEF CeremonyOK, HandlerOK, Working
    <2>2. \A d \in Did : StoredOK(d)'
      BY <1>5 DEF CeremonyOK, StoredOK, Working
    <2> QED
      BY <1>5, <2>1, <2>2 DEF CeremonyOK, RequestOK, OneRequestPerCeremony
  <1>6. ASSUME NEW h \in Handler, CheckNonce(h) \/ PopNonce(h) \/ Scan(h) \/ CreateWrite(h)
        PROVE  Kept
    <2>1. /\ handler' \in [Handler -> HandlerState]
          /\ \A g \in Handler \ {h} : handler'[g] = handler[g]
          /\ UNCHANGED <<challenges, ceremony, request>>
      <3>1. CASE CheckNonce(h)
        BY <3>1, IdleType DEF CheckNonce, TypeOK, HandlerState
      <3>2. CASE PopNonce(h)
        BY <3>2 DEF PopNonce, TypeOK, HandlerState
      <3>3. CASE Scan(h)
        BY <3>3, IdleType DEF Scan, TypeOK, HandlerState
      <3>4. CASE CreateWrite(h)
        BY <3>4, IdleType DEF CreateWrite, TypeOK
      <3> QED
        BY <1>6, <3>1, <3>2, <3>3, <3>4
    <2>2. \/ handler'[h].pc = "idle"
          \/ /\ Working(h) /\ handler[h].pc \notin {"storeChallenge", "createWrite"}
             /\ handler'[h].pc # "createWrite"
             /\ handler'[h].challenge = handler[h].challenge
             /\ handler'[h].credential = handler[h].credential
      BY <1>6 DEF CheckNonce, PopNonce, Scan, CreateWrite, Working, Free, TypeOK, HandlerState
    <2> QED
      BY <1>5, <2>1, <2>2
  <1>7. ASSUME NEW h \in Handler, CreateOpen(h) PROVE Kept
    <2> DEFINE c == handler[h].challenge
               info == [did |-> HandlerDid(h), type |-> ceremony[c].type,
                        credential |-> handler[h].credential, challenge |-> c]
    <2>1. PICK r \in Request :
             /\ request[r] = None
             /\ request' = [request EXCEPT ![r] = info]
             /\ handler' = [handler EXCEPT ![h].pc = "createWrite", ![h].request = r]
      BY <1>7 DEF CreateOpen
    <2>2. /\ Working(h) /\ c \in Challenge /\ ceremony[c] # None
          /\ handler[h].credential \in Credential
          /\ \A s \in Request : request[s] # None => request[s].challenge # c
          /\ \A g \in Handler \ {h} : Working(g) => handler[g].challenge # c
      BY <1>7 DEF CreateOpen, CeremonyOK, HandlerOK, Working, TypeOK, HandlerState
    <2>3. info \in RequestInfo
      BY <2>2 DEF HandlerDid, RequestInfo, Ceremony, TypeOK
    <2>4. /\ request'[r] # None /\ request'[r].challenge = c
          /\ request'[r].did = ceremony[c].did
          /\ \A s \in Request \ {r} : request'[s] = request[s]
          /\ UNCHANGED <<challenges, ceremony>>
      BY <1>7, <2>1, <2>3 DEF HandlerDid, CreateOpen, TypeOK
    <2>5. /\ handler'[h].pc = "createWrite" /\ handler'[h].request = r
          /\ handler'[h].challenge = c /\ handler'[h].credential = handler[h].credential
          /\ \A g \in Handler \ {h} : handler'[g] = handler[g]
      <3>1. handler' = [handler EXCEPT ![h] = [handler[h] EXCEPT !.pc = "createWrite",
                                                                 !.request = r]]
        BY <2>1
      <3>2. handler[h] \in HandlerState
        BY DEF TypeOK
      <3> QED
        BY <3>1, <3>2 DEF HandlerState, TypeOK
    <2> HIDE DEF info
    <2>6. \A g \in Handler \ {h} : Working(g) /\ handler[g].pc = "createWrite" =>
             handler[g].request \in Request /\ request[handler[g].request] # None
                /\ handler[g].request # r
      BY <2>1 DEF CeremonyOK, HandlerOK, TypeOK, HandlerState
    <2>7. HandlerOK(h)'
      BY <2>1, <2>2, <2>4, <2>5 DEF HandlerOK, Working
    <2>8. \A g \in Handler \ {h} : HandlerOK(g)'
      BY <2>2, <2>4, <2>5, <2>6 DEF CeremonyOK, HandlerOK, Working
    <2>9. \A d \in Did : StoredOK(d)'
      BY <2>2, <2>4, <2>5 DEF CeremonyOK, StoredOK, Working
    <2>10. \A s \in Request : RequestOK(s)'
      BY <2>2, <2>4 DEF CeremonyOK, RequestOK
    <2>11. OneRequestPerCeremony'
      BY <2>2, <2>4 DEF OneRequestPerCeremony
    <2> QED
      BY <2>7, <2>8, <2>9, <2>10, <2>11 DEF CeremonyOK
  <1>8. CASE RestartBff
    <2>1. /\ \A d \in Did : challenges'[d] = None
          /\ \A h \in Handler : handler'[h].pc = "idle"
          /\ UNCHANGED <<ceremony, request>>
      BY <1>8 DEF RestartBff, Free
    <2> QED
      BY <2>1 DEF CeremonyOK, HandlerOK, StoredOK, RequestOK, Working, OneRequestPerCeremony
  <1>9. CASE UNCHANGED <<challenges, handler, ceremony, request>>
    BY <1>9 DEF CeremonyOK, HandlerOK, StoredOK, RequestOK, Working, OneRequestPerCeremony
  <1>10. ASSUME NEW h \in Handler, NEW d \in Did, StartAdd(h, d) PROVE Kept
    <2>1. PICK c \in Challenge :
             /\ DrawChallenge(c, d, "add_credential")
             /\ handler' = [handler EXCEPT ![h] = [Free EXCEPT !.pc = "storeChallenge",
                                                             !.challenge = c]]
      BY <1>10 DEF StartAdd
    <2>2. UNCHANGED <<challenges, request>> /\ ~Working(h)
      BY <1>10 DEF StartAdd, Working
    <2>3. /\ ceremony[c] = None /\ ceremony'[c] # None
          /\ \A b \in Challenge \ {c} : ceremony'[b] = ceremony[b]
      <3>1. [did |-> d, type |-> "add_credential"] \in Ceremony
        BY DEF Ceremony, RequestType
      <3> QED
        BY <2>1, <3>1 DEF DrawChallenge, TypeOK
    <2>4. /\ handler'[h].pc = "storeChallenge" /\ handler'[h].challenge = c
          /\ \A g \in Handler \ {h} : handler'[g] = handler[g]
      BY <2>1 DEF Free, TypeOK
    <2>5. /\ \A g \in Handler : Working(g) => handler[g].challenge # c
          /\ \A r \in Request : request[r] # None => request[r].challenge # c
          /\ \A e \in Did : challenges[e] # None => challenges[e] # c
      BY <2>3 DEF CeremonyOK, HandlerOK, RequestOK, StoredOK
    <2>6. HandlerOK(h)'
      BY <1>2, <2>2, <2>3, <2>4, <2>5 DEF HandlerOK, Working
    <2>7. \A g \in Handler \ {h} : HandlerOK(g)'
      BY <1>2, <2>2, <2>3, <2>4, <2>5 DEF CeremonyOK, HandlerOK, Working
    <2>8. \A e \in Did : StoredOK(e)'
      <3>1. \A e \in Did : challenges[e] # None => challenges[e] \in Challenge
        BY DEF TypeOK
      <3> QED
        BY <2>2, <2>3, <2>4, <2>5, <3>1 DEF CeremonyOK, StoredOK, Working
    <2>9. \A r \in Request : RequestOK(r)'
      BY <1>1, <2>2, <2>3, <2>5 DEF CeremonyOK, RequestOK
    <2>10. OneRequestPerCeremony'
      BY <1>1, <2>2, <2>3, <2>5 DEF OneRequestPerCeremony
    <2> QED
      BY <2>6, <2>7, <2>8, <2>9, <2>10 DEF CeremonyOK
  <1>11. ASSUME NEW h \in Handler, StoreChallenge(h) PROVE Kept
    <2> DEFINE c == handler[h].challenge
               d == ceremony[c].did
    <2>1. /\ Working(h) /\ c \in Challenge /\ ceremony[c] # None /\ d \in Did
          /\ \A r \in Request : request[r] # None => request[r].challenge # c
          /\ \A g \in Handler \ {h} : Working(g) => handler[g].challenge # c
      BY <1>11 DEF StoreChallenge, CeremonyOK, HandlerOK, Working, TypeOK, HandlerState, Ceremony
    <2>2. /\ challenges'[d] = c /\ \A e \in Did \ {d} : challenges'[e] = challenges[e]
          /\ handler'[h].pc = "idle" /\ \A g \in Handler \ {h} : handler'[g] = handler[g]
          /\ UNCHANGED <<ceremony, request>>
      BY <1>11, <2>1 DEF StoreChallenge, Free, TypeOK
    <2> HIDE DEF c
    <2>3. \A g \in Handler : HandlerOK(g)'
      BY <2>2 DEF CeremonyOK, HandlerOK, Working
    <2>4. \A e \in Did : StoredOK(e)'
      BY <2>1, <2>2 DEF CeremonyOK, StoredOK, Working
    <2> QED
      BY <2>2, <2>3, <2>4 DEF CeremonyOK, RequestOK, OneRequestPerCeremony
  <1> QED
    BY <1>3, <1>4, <1>6, <1>7, <1>8, <1>9, <1>10, <1>11 DEF Next, BffStep, CommandStep, SignRead,
       PromoteRead, PromoteLoad, Register, Revoke, OpenLog, WriteLog, OpenRequest,
       WriteRequest, Move, Crash, Expire, vars, bff

--------------------------------------------------------------------------------
\* Types, and what every command, file and thread holds.
THEOREM TypeCorrect ==
  Spec => [](TypeOK /\ FilesOK /\ CeremonyOK /\ OneRequestPerCeremony)
  <1>1. Init => OneRequestPerCeremony
    BY DEF Init, OneRequestPerCeremony
  <1>2. TypeOK /\ FilesOK /\ CeremonyOK /\ OneRequestPerCeremony /\ [Next]_vars =>
           (TypeOK /\ FilesOK /\ CeremonyOK /\ OneRequestPerCeremony)'
    BY TypeStep, FilesStep, CeremonyStep
  <1> QED
    BY InitOK, <1>1, <1>2, PTL DEF Spec

\* One request per registration ceremony, for any number of threads and restarts.
THEOREM OneRequest == Spec => []OneRequestPerCeremony
  BY TypeCorrect, PTL

\* Every promoted record in the log was signed for by a quorum, whatever commands
\* overlap and wherever they die.
THEOREM LogIsQuorumBacked == Spec => []QuorumBacked
  <1>1. FilesOK => QuorumBacked
    BY DEF FilesOK, LogOK, Backed, QuorumBacked
  <1> QED
    BY <1>1, TypeCorrect, PTL

\* The log has one record of a DID, in the order of blocks, whoever saved it last.
THEOREM LogIsWellFormed == Spec => []LedgerWellFormed
  <1>1. FilesOK => LedgerWellFormed
    BY DEF FilesOK, LogOK, LedgerWellFormed
  <1> QED
    BY <1>1, TypeCorrect, PTL

\* The key a login is checked with is one a quorum signed for.
THEOREM LoginKeysAreApproved == Spec => []LoginKeyApproved
  <1>1. FilesOK => LoginKeyApproved
    BY DEF FilesOK, FileOK, LoginKeys, LoginKeyApproved, Readable
  <1> QED
    BY <1>1, TypeCorrect, PTL

--------------------------------------------------------------------------------
(* Duplicates *)

\* A step of the commands or of the clock, and one of the BFF that creates nothing and
\* lets no thread's check go on.
LEMMA ChecksKept ==
  ASSUME TypeOK, TypeOK', DuplicateOK, DuplicateRefused, excused \subseteq excused',
         UNCHANGED request,
         \A r \in Request : promoted[r] # None => promoted'[r] # None,
         \A h \in Handler : handler'[h] = handler[h] \/ ~Checked(h)'
  PROVE  DuplicateOK' /\ DuplicateRefused'
  <1>1. \A cred \in Credential : Holders(cred)' = Holders(cred)
    BY DEF Holders
  <1>2. ASSUME NEW h \in Handler PROVE CheckOK(h)'
    BY <1>2 DEF CheckOK, Checked, DuplicateOK, Holders
  <1>3. DuplicateRefused'
    BY DEF DuplicateRefused, SharesCredential
  <1> QED
    BY <1>2, <1>3 DEF DuplicateOK

LEMMA ScanStep ==
  ASSUME TypeOK, TypeOK', FilesOK, CeremonyOK, DuplicateOK, DuplicateRefused, NEW h \in Handler,
         Scan(h)
  PROVE  DuplicateOK' /\ DuplicateRefused'
  <1> DEFINE pc == handler[h].pc
             cred == handler[h].credential
             dir == Directory(pc)
             holders == WithCredential(dir, cred)
             found == {r \in holders : dir[r] # Torn}
             creating == {g \in Handler \ {h} :
                             /\ handler[g].credential = cred
                             /\ handler[g].pc \in {"scanSecond", "createOpen", "createWrite"}}
  <1>1. /\ pc \in {"scanFirst", "scanSecond"}
        /\ handler' = [handler EXCEPT ![h] =
                IF found # {}
                THEN Free
                ELSE [@ EXCEPT !.pc = IF pc = "scanFirst" THEN "scanSecond"
                                                          ELSE "createOpen"]]
        /\ excused' = IF creating # {} \/ holders # found
                      THEN excused \cup {cred}
                      ELSE excused
        /\ UNCHANGED <<request, pending, promoted>>
    BY DEF Scan, files
  <1>2. excused \subseteq excused' /\ \A g \in Handler \ {h} : handler'[g] = handler[g]
    BY <1>1 DEF TypeOK
  <1>3. CASE found # {}
    <2>1. ~Checked(h)'
      BY <1>1, <1>3 DEF Free, Checked, TypeOK
    <2> QED
      BY <1>1, <1>2, <2>1, ChecksKept DEF DuplicateOK
  <1>4. CASE found = {}
    <2>1. /\ handler'[h].credential = cred
          /\ handler'[h].pc = IF pc = "scanFirst" THEN "scanSecond" ELSE "createOpen"
      BY <1>1, <1>4 DEF TypeOK, HandlerState
    <2>2. cred \notin excused' => creating = {} /\ holders = {}
      BY <1>1, <1>4
    <2>3. \A c : Holders(c)' = Holders(c)
      BY <1>1 DEF Holders
    <2>4. CheckOK(h)'
      <3> SUFFICES ASSUME cred \notin excused' PROVE CheckOK(h)'
        BY <2>1 DEF CheckOK
      <3>1. \A g \in Handler \ {h} : Checked(g)' => handler'[g].credential # cred
        BY <1>2, <2>2 DEF Checked
      <3>2. CASE pc = "scanFirst"
        <4>1. \A r \in Holders(cred) : pending[r] = None
          BY <2>2, <3>2 DEF Holders, WithCredential, Directory
        <4>2. \A r \in Holders(cred) : promoted'[r] # None
          BY <1>1, <4>1 DEF FilesOK, FileOK, Holders
        <4> QED
          BY <2>1, <2>3, <3>1, <3>2, <4>2 DEF CheckOK
      <3>3. CASE pc = "scanSecond"
        <4>1. \A r \in Holders(cred) : promoted[r] # None
          BY <1>2, <3>3 DEF DuplicateOK, CheckOK, Checked
        <4>2. Holders(cred) = {}
          BY <2>2, <3>3, <4>1 DEF Holders, WithCredential, Directory
        <4> QED
          BY <2>1, <2>3, <3>1, <3>3, <4>2 DEF CheckOK
      <3> QED
        BY <1>1, <3>2, <3>3
    <2>5. ASSUME NEW g \in Handler \ {h} PROVE CheckOK(g)'
      <3> SUFFICES ASSUME Checked(g)', handler'[g].credential \notin excused' PROVE CheckOK(g)'
        BY DEF CheckOK
      <3>1. handler[g].credential # cred
        <4>1. handler[g].credential = cred => g \in creating
          BY <1>2 DEF Checked
        <4> QED
          BY <1>2, <2>2, <4>1
      <3>2. /\ Checked(g) /\ handler[g].credential \notin excused
            /\ handler'[g] = handler[g] /\ CheckOK(g)
        BY <1>2 DEF Checked, DuplicateOK
      <3>3. \A f \in Handler \ {g} : Checked(f)' => handler'[f].credential # handler[g].credential
        BY <1>2, <2>1, <3>1, <3>2 DEF CheckOK, Checked
      <3> QED
        BY <1>1, <2>3, <3>2, <3>3 DEF CheckOK
    <2>6. DuplicateRefused'
      BY <1>1, <1>2 DEF DuplicateRefused, SharesCredential
    <2> QED
      BY <1>1, <2>4, <2>5, <2>6 DEF DuplicateOK
  <1> QED
    BY <1>3, <1>4

LEMMA CreateStep ==
  ASSUME TypeOK, TypeOK', CeremonyOK, DuplicateOK, DuplicateRefused, NEW h \in Handler,
         CreateOpen(h)
  PROVE  DuplicateOK' /\ DuplicateRefused'
  <1> DEFINE cred == handler[h].credential
  <1>1. PICK r \in Request :
           /\ request[r] = None /\ pending' = [pending EXCEPT ![r] = Torn]
           /\ request' = [request EXCEPT
                ![r] = [did |-> HandlerDid(h),
                        type |-> ceremony[handler[h].challenge].type,
                        credential |-> handler[h].credential,
                        challenge |-> handler[h].challenge]]
           /\ handler' = [handler EXCEPT ![h].pc = "createWrite", ![h].request = r]
    BY DEF CreateOpen
  <1>2. handler[h].pc = "createOpen" /\ UNCHANGED <<excused, promoted>>
    BY DEF CreateOpen
  <1>3. /\ request'[r].credential = cred
        /\ \A s \in Request \ {r} : request'[s] = request[s]
    BY <1>1 DEF TypeOK
  <1>4. /\ handler'[h].credential = cred /\ handler'[h].pc = "createWrite"
        /\ \A g \in Handler \ {h} : handler'[g] = handler[g]
    <2>1. handler' = [handler EXCEPT ![h] = [handler[h] EXCEPT !.pc = "createWrite",
                                                               !.request = r]]
      BY <1>1
    <2> QED
      BY <2>1 DEF TypeOK, HandlerState
  <1>5. \A c : c # cred => Holders(c)' = Holders(c)
    BY <1>1, <1>3 DEF Holders
  <1>6. cred \notin excused =>
           Holders(cred) = {} /\ \A g \in Handler \ {h} : Checked(g) => handler[g].credential # cred
    BY <1>2 DEF DuplicateOK, CheckOK, Checked
  <1>7. ASSUME NEW g \in Handler PROVE CheckOK(g)'
    <2>1. CASE g = h
      BY <1>2, <1>4, <1>6, <2>1 DEF CheckOK, Checked
    <2>2. CASE g # h /\ handler[g].credential = cred
      BY <1>2, <1>4, <1>6, <2>2 DEF CheckOK, Checked
    <2>3. CASE g # h /\ handler[g].credential # cred
      <3>1. CheckOK(g) /\ handler'[g] = handler[g]
        BY <1>4, <2>3 DEF DuplicateOK
      <3> QED
        BY <1>2, <1>4, <1>5, <2>3, <3>1 DEF CheckOK, Checked
    <2> QED
      BY <2>1, <2>2, <2>3
  <1>8. DuplicateRefused'
    <2>1. ASSUME NEW s \in Request \ {r}, cred \notin excused, request[s] # None
          PROVE  request[s].credential # cred
      BY <1>6, <2>1 DEF Holders
    <2> QED
      BY <1>2, <1>3, <2>1 DEF DuplicateRefused, SharesCredential
  <1> QED
    BY <1>7, <1>8 DEF DuplicateOK

LEMMA DuplicateStep ==
  TypeOK /\ TypeOK' /\ FilesOK /\ CeremonyOK /\ DuplicateOK /\ DuplicateRefused /\ [Next]_vars
     => DuplicateOK' /\ DuplicateRefused'
  <1> SUFFICES ASSUME TypeOK, TypeOK', FilesOK, CeremonyOK, DuplicateOK, DuplicateRefused,
                      [Next]_vars
               PROVE  DuplicateOK' /\ DuplicateRefused'
    OBVIOUS
  <1> USE DEF bff, files, ledger
  <1>1. ASSUME NEW d \in Did, StartNew(d)
        PROVE  DuplicateOK' /\ DuplicateRefused'
    BY <1>1, ChecksKept DEF StartNew
  <1>2. ASSUME NEW h \in Handler, NEW c \in Challenge, NEW cred \in Credential,
               Submit(h, c, cred)
        PROVE  DuplicateOK' /\ DuplicateRefused'
    <2>1. \A g \in Handler : handler'[g] = handler[g] \/ ~Checked(g)'
      BY <1>2 DEF Submit, AcceptSubmit, Checked, TypeOK
    <2> QED
      BY <1>2, <2>1, ChecksKept DEF Submit
  <1>3. ASSUME NEW h \in Handler, CheckNonce(h) \/ PopNonce(h)
        PROVE  DuplicateOK' /\ DuplicateRefused'
    <2>1. \A g \in Handler : handler'[g] = handler[g] \/ ~Checked(g)'
      BY <1>3 DEF CheckNonce, PopNonce, Free, Checked, TypeOK, HandlerState
    <2> QED
      BY <1>3, <2>1, ChecksKept DEF CheckNonce, PopNonce
  <1>4. ASSUME NEW h \in Handler, CreateWrite(h)
        PROVE  DuplicateOK' /\ DuplicateRefused'
    <2>1. \A g \in Handler : handler'[g] = handler[g] \/ ~Checked(g)'
      BY <1>4 DEF CreateWrite, Free, Checked, TypeOK
    <2> QED
      BY <1>4, <2>1, ChecksKept DEF CreateWrite
  <1>5. CASE RestartBff
    <2>1. \A g \in Handler : ~Checked(g)'
      BY <1>5 DEF RestartBff, Free, Checked
    <2> QED
      BY <1>5, <2>1, ChecksKept DEF RestartBff
  <1>6. ASSUME NEW p \in Process, CommandStep(p)
        PROVE  DuplicateOK' /\ DuplicateRefused'
    <2>1. UNCHANGED <<request, handler, excused>>
      BY <1>6 DEF CommandStep, SignRead, PromoteRead, PromoteLoad, Register, Revoke,
         OpenLog, WriteLog, OpenRequest, WriteRequest, Move, Crash
    <2>2. CASE WriteRequest(p)
      <3>1. proc[p].req # None
        BY <2>2 DEF FilesOK, ProcOK, WriteRequest
      <3> QED
        BY <2>1, <2>2, <3>1, ChecksKept DEF WriteRequest, Written, TypeOK
    <2>3. CASE Move(p)
      BY <2>1, <2>3, ChecksKept DEF Move, TypeOK
    <2>4. CASE UNCHANGED promoted
      BY <2>1, <2>4, ChecksKept
    <2> QED
      BY <1>6, <2>2, <2>3, <2>4 DEF CommandStep, SignRead, PromoteRead, PromoteLoad, Register,
         Revoke, OpenLog, WriteLog, OpenRequest, Crash
  <1>7. CASE (\E r \in Request : Expire(r)) \/ UNCHANGED vars
    BY <1>7, ChecksKept DEF Expire, vars
  <1>8. ASSUME NEW h \in Handler, (\E d \in Did : StartAdd(h, d)) \/ StoreChallenge(h)
        PROVE  DuplicateOK' /\ DuplicateRefused'
    <2>1. \A g \in Handler : handler'[g] = handler[g] \/ ~Checked(g)'
      <3>1. PICK state : handler' = [handler EXCEPT ![h] = state] /\ state.pc \in {"idle", "storeChallenge"}
        BY <1>8 DEF StartAdd, StoreChallenge, Free
      <3> QED
        BY <3>1 DEF Checked, TypeOK
    <2> QED
      BY <1>8, <2>1, ChecksKept DEF StartAdd, StoreChallenge
  <1> QED
    BY <1>1, <1>2, <1>3, <1>4, <1>5, <1>6, <1>7, <1>8, ScanStep, CreateStep DEF Next, BffStep

\* Two requests share a credential only after a check that met a half-done write,
\* for any number of threads, commands, restarts and moves of files.
THEOREM DuplicatesAreRefused == Spec => [](DuplicateOK /\ DuplicateRefused)
  <1>1. Init => DuplicateOK /\ DuplicateRefused
    BY DEF Init, DuplicateOK, CheckOK, Checked, Free, DuplicateRefused, SharesCredential
  <1>2. TypeOK /\ FilesOK /\ CeremonyOK /\ OneRequestPerCeremony
        /\ (TypeOK /\ FilesOK /\ CeremonyOK /\ OneRequestPerCeremony)'
        /\ DuplicateOK /\ DuplicateRefused /\ [Next]_vars
           => (DuplicateOK /\ DuplicateRefused)'
    BY DuplicateStep
  <1> QED
    BY <1>1, <1>2, TypeCorrect, PTL DEF Spec

--------------------------------------------------------------------------------
(* What a log has recorded, under OneSaver *)

\* A record that is added, or revoked, loses no DID and no revocation.
LEMMA AppendKeeps ==
  ASSUME NEW l \in Seq(Record), NEW record \in Record
  PROVE  LET m == Append(l, record) IN
         /\ DidsOf(l) \subseteq DidsOf(m) /\ record.did \in DidsOf(m)
         /\ \A d \in Did : RevokedIn(l, d) => RevokedIn(m, d)
  <1> DEFINE m == Append(l, record)
  <1>1. DOMAIN l \subseteq DOMAIN m /\ Len(l) + 1 \in DOMAIN m
    OBVIOUS
  <1>2. m[Len(l) + 1] = record /\ \A i \in DOMAIN l : m[i] = l[i]
    OBVIOUS
  <1> HIDE DEF m
  <1>3. DidsOf(l) \subseteq DidsOf(m) /\ record.did \in DidsOf(m)
    BY <1>1, <1>2 DEF DidsOf
  <1>4. \A d \in Did : RevokedIn(l, d) => RevokedIn(m, d)
    BY <1>1, <1>2 DEF RevokedIn
  <1> QED
    BY <1>3, <1>4 DEF m

LEMMA RevokeKeeps ==
  ASSUME NEW l \in Seq(Record), LogOK(l), NEW n \in DOMAIN l
  PROVE  LET m == [l EXCEPT ![n].revoked_at = NextBlock(l)] IN
         /\ DidsOf(l) = DidsOf(m) /\ RevokedIn(m, l[n].did)
         /\ \A d \in Did : RevokedIn(l, d) => RevokedIn(m, d)
  <1> DEFINE record == [l[n] EXCEPT !.revoked_at = NextBlock(l)]
             m == [l EXCEPT ![n] = record]
  <1>1. NextBlock(l) \in Nat
    BY NextBlockIsNext DEF LogOK
  <1>2. l[n] \in Record
    OBVIOUS
  <1>3. record.did = l[n].did /\ record.revoked_at # None
    BY <1>1, <1>2 DEF Record
  <1>4. DOMAIN m = DOMAIN l /\ m[n] = record /\ \A i \in DOMAIN l \ {n} : m[i] = l[i]
    OBVIOUS
  <1>5. m = [l EXCEPT ![n].revoked_at = NextBlock(l)]
    OBVIOUS
  <1> HIDE DEF m, record
  <1>6. DidsOf(l) = DidsOf(m)
    <2>1. \A i \in DOMAIN l : m[i].did = l[i].did
      BY <1>3, <1>4
    <2> QED
      BY <1>4, <2>1 DEF DidsOf
  <1>7. RevokedIn(m, l[n].did)
    BY <1>3, <1>4 DEF RevokedIn
  <1>8. \A d \in Did : RevokedIn(l, d) => RevokedIn(m, d)
    BY <1>3, <1>4 DEF RevokedIn
  <1> QED
    BY <1>5, <1>6, <1>7, <1>8

\* A log stays complete while no request settles, no revocation is written and created
\* requests stay as they are.
LEMMA CompleteKept ==
  ASSUME TypeOK, FilesOK, UNCHANGED revoked, Settled' \subseteq Settled,
         \A r \in Request : request[r] # None => request'[r] = request[r],
         NEW l, Complete(l)
  PROVE  Complete(l)'
  <1>1. \A r \in Settled : request[r] # None
    <2>1. \A p \in Process : Filed(p) => request[proc[p].request] # None
      BY DEF FilesOK, ProcOK, Filed
    <2>2. \A r \in Request : promoted[r] # None => request[r] # None
      BY DEF TypeOK
    <2> QED
      BY <2>1, <2>2 DEF Settled
  <1>2. Settled \subseteq Request
    BY DEF Settled
  <1>3. \A r \in Settled' : r \in Settled /\ request'[r] = request[r]
    BY <1>1, <1>2
  <1>4. \A r \in Settled' : request'[r].did \in DidsOf(l)
    BY <1>3 DEF Complete
  <1> QED
    BY <1>4 DEF Complete, DidsOf, RevokedIn

\* The steps of others than the writer of the log.
LEMMA CopyKept ==
  ASSUME TypeOK, FilesOK, LogComplete, UNCHANGED revoked, Settled' \subseteq Settled,
         \A r \in Request : request[r] # None => request'[r] = request[r],
         NEW q \in Process, proc'[q] = proc[q] \/ ~Saving(q)'
  PROVE  CopyOK(q)'
  <1> SUFFICES ASSUME proc'[q] = proc[q], Saving(q) PROVE CopyOK(q)'
    BY DEF CopyOK, Saving
  <1>1. CopyOK(q)
    BY DEF LogComplete
  <1>2. PICK l : l = proc[q].log
    OBVIOUS
  <1>3. Complete(l) /\ Complete(l)'
    BY <1>1, <1>2, CompleteKept DEF CopyOK
  <1>4. Complete(proc[q].log)'
    BY <1>2, <1>3
  <1>5. proc[q].op = "promote" => request'[proc[q].request] = request[proc[q].request]
    BY DEF FilesOK, ProcOK, Saving, TypeOK, ProcState
  <1> QED
    BY <1>1, <1>4, <1>5 DEF CopyOK, Saving

LEMMA LogStays ==
  ASSUME TypeOK, FilesOK, LogComplete, UNCHANGED <<log, revoked>>, Settled' \subseteq Settled,
         \A r \in Request : request[r] # None => request'[r] = request[r],
         \A q \in Process : proc'[q] = proc[q] \/ ~Saving(q)'
  PROVE  LogComplete'
  <1>1. \A q \in Process : CopyOK(q)'
    BY CopyKept
  <1>2. log # Torn => Complete(log)'
    <2>1. PICK l : l = log
      OBVIOUS
    <2>2. log # Torn => Complete(l)'
      BY <2>1, CompleteKept DEF LogComplete
    <2> QED
      BY <2>1, <2>2
  <1> QED
    BY <1>1, <1>2 DEF LogComplete

\* The steps of one command: the others' copies are as complete as they were.
LEMMA CommandLog ==
  ASSUME TypeOK, TypeOK', FilesOK, LogComplete, OneSaver, NEW p \in Process, CommandStep(p)
  PROVE  LogComplete'
  <1> USE DEF bff, files, ledger
  <1>1. /\ UNCHANGED request
        /\ \A q \in Process \ {p} : proc'[q] = proc[q]
    BY DEF CommandStep, SignRead, PromoteRead, PromoteLoad, Register, Revoke, OpenLog, WriteLog,
       OpenRequest, WriteRequest, Move, Crash, Start, Goto, Exit, TypeOK
  <1>2. ASSUME UNCHANGED <<log, revoked>>, ~Saving(p)', Filed(p)' => Filed(p),
               \A r \in Request : promoted'[r] # None => promoted[r] # None,
               Filed(p)' => proc'[p].request = proc[p].request
        PROVE  LogComplete'
    <2>1. Settled' \subseteq Settled
      BY <1>1, <1>2 DEF Settled, Filed
    <2> QED
      BY <1>1, <1>2, <2>1, LogStays
  <1>3. ASSUME NEW r \in Request, NEW v \in Validator, SignRead(p, r, v)
        PROVE  LogComplete'
    <2>1. proc'[p].pc = "openRequest" /\ proc'[p].op = "sign"
      BY <1>3 DEF SignRead, Start, Idle, TypeOK
    <2> QED
      BY <1>2, <1>3, <2>1 DEF SignRead, Saving, Filed
  <1>4. ASSUME NEW r \in Request, NEW keys \in SUBSET Validator, PromoteRead(p, r, keys)
        PROVE  LogComplete'
    <2>1. proc'[p].pc = "loadLog"
      BY <1>4 DEF PromoteRead, Start, Idle, TypeOK
    <2> QED
      BY <1>2, <1>4, <2>1 DEF PromoteRead, Saving, Filed
  <1>5. CASE Crash(p)
    <2>1. proc'[p].pc = "idle"
      BY <1>5 DEF Crash, Exit, Idle, TypeOK
    <2> QED
      BY <1>2, <1>5, <2>1 DEF Crash, Saving, Filed
  <1>6. CASE OpenRequest(p)
    <2>1. proc'[p] = [proc[p] EXCEPT !.pc = "writeRequest"] /\ proc[p] \in ProcState
      BY <1>6 DEF OpenRequest, Goto, TypeOK
    <2> QED
      BY <1>2, <1>6, <2>1 DEF OpenRequest, Saving, Filed, ProcState
  <1>7. CASE WriteRequest(p)
    <2>1. \/ proc'[p].pc = "idle"
          \/ proc'[p] = [proc[p] EXCEPT !.pc = "move"] /\ proc[p] \in ProcState
      BY <1>7 DEF WriteRequest, Goto, Exit, Idle, TypeOK
    <2>2. \A r \in Request : promoted'[r] # None => promoted[r] # None
      <3>1. proc[p].request \in Request /\ request[proc[p].request] # None
        BY <1>7 DEF WriteRequest, FilesOK, ProcOK, TypeOK, ProcState
      <3>2. pending[proc[p].request] = None => promoted[proc[p].request] # None
        BY <3>1 DEF FilesOK, FileOK
      <3> QED
        BY <1>7, <3>2 DEF WriteRequest, TypeOK
    <2> QED
      BY <1>2, <1>7, <2>1, <2>2 DEF WriteRequest, Saving, Filed, ProcState
  <1>8. CASE Move(p)
    <2>1. proc'[p].pc = "idle" /\ UNCHANGED <<log, revoked>>
      BY <1>8 DEF Move, Exit, Idle, TypeOK
    <2>2. proc[p].request \in Settled
      BY <1>8 DEF Move, FilesOK, ProcOK, Settled, Filed, TypeOK, ProcState
    <2>3. \A r \in Request : promoted'[r] = promoted[r] \/ r = proc[p].request
      BY <1>8 DEF Move, TypeOK
    <2>4. Settled' \subseteq Settled
      BY <1>1, <2>1, <2>2, <2>3 DEF Settled, Filed
    <2> QED
      BY <1>1, <2>1, <2>4, LogStays DEF Saving
  \* A command that starts, or goes on, to save a copy of the log it has read.
  <1>9. ASSUME UNCHANGED <<promoted, log, revoked>>, CopyOK(p)', ~Filed(p)'
        PROVE  LogComplete'
    <2>1. Settled' \subseteq Settled
      BY <1>1, <1>9 DEF Settled, Filed
    <2>2. \A q \in Process \ {p} : CopyOK(q)'
      BY <1>1, <1>9, <2>1, CopyKept
    <2>3. PICK l : l = log
      OBVIOUS
    <2>4. log # Torn => Complete(l)'
      BY <1>1, <1>9, <2>1, <2>3, CompleteKept DEF LogComplete
    <2>5. log' # Torn => Complete(log)'
      BY <1>9, <2>3, <2>4
    <2> QED
      BY <1>9, <2>2, <2>5 DEF LogComplete
  <1>10. ASSUME NEW m \in Seq(Record), log # Torn, DidsOf(log) \subseteq DidsOf(m),
                \A d \in Did : RevokedIn(log, d) => RevokedIn(m, d),
                UNCHANGED <<promoted, revoked>>, ~Filed(p)'
         PROVE  Complete(m)'
    <2>1. Complete(m)
      BY <1>10 DEF LogComplete, Complete, TypeOK
    <2>2. Settled' \subseteq Settled
      BY <1>1, <1>10 DEF Settled, Filed
    <2> QED
      BY <1>1, <1>10, <2>1, <2>2, CompleteKept
  <1>11. CASE PromoteLoad(p)
    <2> DEFINE r == proc[p].request
               record == NewRecord(log, request[r].did, proc[p].valid, r)
    <2>1. PICK m : m = IF record.did \in DidsOf(log) THEN log ELSE Append(log, record)
      OBVIOUS
    <2>2. log \in Seq(Record) /\ log # Torn /\ proc[p].op = "promote" /\ r \in Request
          /\ record \in Record /\ record.did = request[r].did
      <3>1. /\ log \in Seq(Record) /\ log # Torn /\ proc[p].op = "promote" /\ r \in Request
            /\ request[r].did \in Did /\ proc[p].valid \in SUBSET Validator
        <4>1. proc[p].pc = "loadLog" /\ log # Torn /\ proc[p] \in ProcState /\ ProcOK(p)
          BY <1>11 DEF PromoteLoad, FilesOK, TypeOK
        <4>2. proc[p].op = "promote" /\ r # None /\ request[r] # None
          BY <4>1 DEF ProcOK
        <4>3. r \in Request /\ request[r] \in RequestInfo /\ proc[p].valid \in SUBSET Validator
          BY <4>1, <4>2 DEF ProcState, TypeOK
        <4> QED
          BY <4>1, <4>2, <4>3 DEF TypeOK, Log, RequestInfo
      <3>2. NextBlock(log) \in Nat
        BY <3>1, NextBlockIsNext DEF FilesOK, LogOK
      <3> QED
        BY <3>1, <3>2 DEF NewRecord, Record
    <2>3. /\ m \in Seq(Record) /\ DidsOf(log) \subseteq DidsOf(m) /\ record.did \in DidsOf(m)
          /\ \A d \in Did : RevokedIn(log, d) => RevokedIn(m, d)
      <3> HIDE DEF r, record
      <3> QED
        BY <2>1, <2>2, AppendKeeps
    <2>4. /\ proc'[p].pc = "openLog" /\ proc'[p].op = "promote" /\ proc'[p].request = r
          /\ proc'[p].log = m
      <3>1. proc'[p] = [proc[p] EXCEPT !.pc = "openLog", !.log = m]
        BY <1>11, <2>1 DEF PromoteLoad, Start, TypeOK
      <3> QED
        BY <2>2, <3>1 DEF TypeOK, ProcState
    <2>5. UNCHANGED <<promoted, log, revoked>> /\ ~Filed(p)'
      BY <1>11, <2>4 DEF PromoteLoad, Filed
    <2>6. Complete(m)'
      BY <1>10, <2>2, <2>3, <2>5
    <2>7. (request[proc[p].request].did)' \in DidsOf(m)
      BY <1>1, <2>2, <2>3, <2>4
    <2>8. Complete(proc[p].log)' /\ (DidsOf(proc[p].log))' = DidsOf(m)
      BY <2>4, <2>6 DEF DidsOf
    <2> QED
      BY <1>9, <2>4, <2>5, <2>7, <2>8 DEF CopyOK
  <1>12. ASSUME NEW d \in Did, NEW keys \in [1 .. RegisterThreshold -> Validator],
                Register(p, d, keys)
         PROVE  LogComplete'
    <2> DEFINE record == NewRecord(log, d, Range(keys), None)
    <2>1. PICK m : m = Append(log, record)
      OBVIOUS
    <2>2. log \in Seq(Record) /\ log # Torn /\ record \in Record
      <3>1. log \in Seq(Record) /\ log # Torn
        BY <1>12 DEF Register, TypeOK, Log
      <3>2. NextBlock(log) \in Nat
        BY <3>1, NextBlockIsNext DEF FilesOK, LogOK
      <3>3. Range(keys) \in SUBSET Validator
        BY DEF Range
      <3> QED
        BY <3>1, <3>2, <3>3 DEF NewRecord, Record
    <2>3. /\ m \in Seq(Record) /\ DidsOf(log) \subseteq DidsOf(m)
          /\ \A e \in Did : RevokedIn(log, e) => RevokedIn(m, e)
      <3> HIDE DEF record
      <3> QED
        BY <2>1, <2>2, AppendKeeps
    <2>4. proc'[p].pc = "openLog" /\ proc'[p].op = "register" /\ proc'[p].log = m
      <3> HIDE DEF record
      <3>1. proc'[p] = [Idle EXCEPT !.pc = "openLog", !.op = "register", !.log = m]
        BY <1>12, <2>1 DEF Register, Start, TypeOK, record
      <3> QED
        BY <3>1 DEF Idle
    <2>5. UNCHANGED <<promoted, log, revoked>> /\ ~Filed(p)'
      BY <1>12, <2>4 DEF Register, Filed
    <2>6. Complete(m)'
      BY <1>10, <2>2, <2>3, <2>5
    <2>7. Complete(proc[p].log)'
      BY <2>4, <2>6
    <2> QED
      BY <1>9, <2>4, <2>5, <2>7 DEF CopyOK
  <1>13. ASSUME NEW d \in Did, Revoke(p, d)
         PROVE  LogComplete'
    <2>1. PICK i \in DOMAIN log :
             /\ log[i].did = d
             /\ Start(p, [Idle EXCEPT
                   !.pc = "openLog", !.op = "revoke", !.did = d,
                   !.log = [log EXCEPT ![i].revoked_at = NextBlock(log)]])
      BY <1>13 DEF Revoke
    <2>2. PICK m : m = [log EXCEPT ![i].revoked_at = NextBlock(log)]
      OBVIOUS
    <2>3. log \in Seq(Record) /\ log # Torn /\ LogOK(log)
      BY <1>13 DEF Revoke, TypeOK, Log, FilesOK
    <2>4. /\ m \in Seq(Record) /\ DidsOf(log) \subseteq DidsOf(m) /\ RevokedIn(m, d)
          /\ \A e \in Did : RevokedIn(log, e) => RevokedIn(m, e)
      BY <2>1, <2>2, <2>3, RevokeRecord, RevokeKeeps
    <2>5. /\ proc'[p].pc = "openLog" /\ proc'[p].op = "revoke" /\ proc'[p].did = d
          /\ proc'[p].log = m
      <3>1. proc'[p] = [Idle EXCEPT !.pc = "openLog", !.op = "revoke", !.did = d, !.log = m]
        BY <2>1, <2>2 DEF Start, TypeOK
      <3> QED
        BY <3>1 DEF Idle
    <2>6. UNCHANGED <<promoted, log, revoked>> /\ ~Filed(p)'
      BY <1>13, <2>5 DEF Revoke, Filed
    <2>7. Complete(m)'
      BY <1>10, <2>3, <2>4, <2>6
    <2>8. Complete(proc[p].log)' /\ RevokedIn(proc[p].log, proc[p].did)'
      BY <2>4, <2>5, <2>7 DEF RevokedIn
    <2> QED
      BY <1>9, <2>5, <2>6, <2>8 DEF CopyOK
  <1>14. CASE OpenLog(p)
    <2>1. UNCHANGED <<promoted, revoked>> /\ log' = Torn
      BY <1>14 DEF OpenLog
    <2>2. /\ Saving(p) /\ proc'[p].log = proc[p].log /\ proc'[p].op = proc[p].op
          /\ proc'[p].request = proc[p].request /\ proc'[p].did = proc[p].did
          /\ proc'[p].pc = "writeLog"
      <3>1. proc'[p] = [proc[p] EXCEPT !.pc = "writeLog"] /\ proc[p] \in ProcState
        BY <1>14 DEF OpenLog, Goto, TypeOK
      <3> QED
        BY <1>14, <3>1 DEF OpenLog, Saving, ProcState
    <2>3. Settled' \subseteq Settled
      BY <1>1, <2>1, <2>2 DEF Settled, Filed
    <2>4. \A q \in Process \ {p} : CopyOK(q)'
      BY <1>1, <2>1, <2>3, CopyKept
    <2>5. PICK l : l = proc[p].log
      OBVIOUS
    <2>6. Complete(l)'
      BY <1>1, <2>1, <2>2, <2>3, <2>5, CompleteKept DEF LogComplete, CopyOK
    <2>7. Complete(proc[p].log)'
      BY <2>2, <2>5, <2>6
    <2>8. CopyOK(p)'
      BY <1>1, <2>2, <2>7 DEF CopyOK, LogComplete, DidsOf, RevokedIn
    <2> QED
      BY <2>1, <2>4, <2>8 DEF LogComplete
  \* Its own request is filed, its own revocation written: both are in the copy.
  <1>15. CASE WriteLog(p)
    <2>1. PICK l : l = proc[p].log
      OBVIOUS
    <2>2. Saving(p) /\ CopyOK(p) /\ UNCHANGED promoted /\ log' \in {l, Torn}
      BY <1>15, <2>1 DEF WriteLog, Written, Saving, LogComplete
    <2>3. /\ ~Saving(p)'
          /\ Filed(p)' => proc[p].op = "promote"
          /\ Filed(p)' => proc'[p].request = proc[p].request
      <3>1. \/ proc'[p] = Idle
            \/ /\ proc'[p] = [proc[p] EXCEPT !.pc = "openRequest"] /\ proc[p] \in ProcState
               /\ proc[p].op = "promote"
        BY <1>15 DEF WriteLog, Goto, Exit, TypeOK
      <3> QED
        BY <3>1 DEF Saving, Filed, Idle, ProcState
    <2>4. \A q \in Process : CopyOK(q)'
      BY <1>1, <2>2, <2>3 DEF OneSaver, Saving, CopyOK
    <2>5. \A r \in Settled' : r \in Settled \/ (proc[p].op = "promote" /\ r = proc[p].request)
      BY <1>1, <2>2, <2>3 DEF Settled, Filed
    <2>6. \A r \in Settled' : request'[r].did \in DidsOf(l)
      BY <1>1, <2>1, <2>2, <2>5 DEF CopyOK, Complete
    <2>7. \A d \in revoked' : RevokedIn(l, d)
      BY <1>15, <2>1, <2>2 DEF WriteLog, CopyOK, Complete
    <2>8. log' # Torn => Complete(log)'
      BY <2>2, <2>6, <2>7 DEF Complete, DidsOf, RevokedIn
    <2> QED
      BY <2>4, <2>8 DEF LogComplete
  <1> QED
    BY <1>3, <1>4, <1>5, <1>6, <1>7, <1>8, <1>11, <1>12, <1>13, <1>14, <1>15 DEF CommandStep

LEMMA LogStep ==
  TypeOK /\ TypeOK' /\ FilesOK /\ OneSaver /\ LogComplete /\ [Next]_vars => LogComplete'
  <1> SUFFICES ASSUME TypeOK, TypeOK', FilesOK, OneSaver, LogComplete, [Next]_vars
               PROVE  LogComplete'
    OBVIOUS
  <1> USE DEF bff, files, ledger
  <1>1. ASSUME UNCHANGED <<promoted, log, revoked, proc>>,
               \A r \in Request : request[r] # None => request'[r] = request[r]
        PROVE  LogComplete'
    <2>1. Settled' \subseteq Settled
      BY <1>1 DEF Settled, Filed
    <2> QED
      BY <1>1, <2>1, LogStays
  <1>2. ASSUME NEW h \in Handler, BffStep(h) PROVE LogComplete'
    BY <1>1, <1>2 DEF BffStep, StartAdd, StoreChallenge, Submit, CheckNonce, PopNonce, Scan,
       CreateOpen, CreateWrite, TypeOK
  <1>3. CASE (\E d \in Did : StartNew(d)) \/ (\E r \in Request : Expire(r))
             \/ RestartBff \/ UNCHANGED vars
    BY <1>1, <1>3 DEF StartNew, Expire, RestartBff, vars
  <1> QED
    BY <1>2, <1>3, CommandLog DEF Next

\* A log is complete as long as commands save it one after the other.
THEOREM LogIsComplete == Spec /\ []OneSaver => []LogComplete
  <1>1. Init => LogComplete
    BY DEF Init, LogComplete, Complete, CopyOK, Settled, Filed, Saving, Idle
  <1>2. TypeOK /\ FilesOK /\ CeremonyOK /\ OneRequestPerCeremony
        /\ (TypeOK /\ FilesOK /\ CeremonyOK /\ OneRequestPerCeremony)'
        /\ OneSaver /\ LogComplete /\ [Next]_vars => LogComplete'
    BY LogStep
  <1> QED
    BY <1>1, <1>2, TypeCorrect, PTL DEF Spec

\* Every promoted request has its DID in the log, wherever promotions die, as long as
\* commands save the log one after the other.
THEOREM PromotionsAreRecorded == Spec /\ []OneSaver => []PromotedInLedger
  <1>1. LogComplete => PromotedInLedger
    BY DEF LogComplete, Complete, Settled, PromotedInLedger
  <1> QED
    BY <1>1, LogIsComplete, PTL

\* A written revocation stays, as long as commands save the log one after the other.
THEOREM RevocationsAreFinal == Spec /\ []OneSaver => []RevocationFinal
  <1>1. LogComplete => RevocationFinal
    BY DEF LogComplete, Complete, RevocationFinal
  <1> QED
    BY <1>1, LogIsComplete, PTL

\* In particular both hold when one command runs after the other.
THEOREM OneCommandAtATime ==
  ASSUME \A p, q \in Process : p = q
  PROVE  Spec => []PromotedInLedger /\ []RevocationFinal
  <1>1. OneSaver
    BY DEF OneSaver
  <1>2. []OneSaver
    BY <1>1, PTL
  <1> QED
    BY <1>2, PromotionsAreRecorded, RevocationsAreFinal, PTL
================================================================================
