---------------------------- MODULE TrustBundleProofs ----------------------------
(* Proofs about TrustBundle, for every value of its constants. *)
EXTENDS TrustBundle, MerkleProofs, FiniteSetTheorems, FunctionTheorems,
        SequenceTheorems

--------------------------------------------------------------------------------
(* The log *)

\* One of finitely many numbers is the largest.
LEMMA LargestOf ==
  ASSUME NEW n \in Nat, n > 0, NEW v \in [1 .. n -> Nat]
  PROVE  \E i \in 1 .. n : \A j \in 1 .. n : v[i] >= v[j]
  <1> DEFINE Largest(i, m) == \A j \in 1 .. m : v[i] >= v[j]
             S == {m \in Nat : m = 0 \/ m > n \/ \E i \in 1 .. m : Largest(i, m)}
  <1>1. 0 \in S
    OBVIOUS
  <1>2. ASSUME NEW m \in Nat, m \in S PROVE m + 1 \in S
    <2>1. CASE m + 1 > n
      BY <2>1
    <2>2. CASE m = 0 /\ m + 1 <= n
      <3>1. v[1] \in Nat /\ Largest(1, 1)
        BY <2>2
      <3>2. 1 \in 1 .. 1 /\ m + 1 = 1
        BY <2>2
      <3> HIDE DEF Largest
      <3> QED
        BY <3>1, <3>2
    <2>3. CASE m # 0 /\ m + 1 <= n
      <3>1. PICK i \in 1 .. m : Largest(i, m)
        BY <1>2, <2>3
      <3>2. /\ i \in 1 .. m + 1 /\ m + 1 \in 1 .. m + 1 /\ m + 1 \in 1 .. n /\ i \in 1 .. n
            /\ \A j \in 1 .. m + 1 : j \in 1 .. m \/ j = m + 1
            /\ 1 .. m \subseteq 1 .. n
        BY <2>3
      <3>3. v[i] \in Nat /\ v[m + 1] \in Nat /\ \A j \in 1 .. m : v[j] \in Nat
        BY <3>2
      <3>4. CASE v[i] >= v[m + 1]
        <4>1. Largest(i, m + 1)
          BY <3>1, <3>2, <3>4
        <4> HIDE DEF Largest
        <4> QED
          BY <3>2, <4>1
      <3>5. CASE v[m + 1] >= v[i]
        <4>1. Largest(m + 1, m + 1)
          BY <3>1, <3>2, <3>3, <3>5
        <4> HIDE DEF Largest
        <4> QED
          BY <3>2, <4>1
      <3> QED
        BY <3>3, <3>4, <3>5
    <2> QED
      BY <2>1, <2>2, <2>3
  <1>3. n \in S
    <2> HIDE DEF S
    <2> QED
      BY <1>1, <1>2, Induct
  <1> QED
    BY <1>3

\* next_block is a number: a log has a latest block.
LEMMA NextBlockType == ASSUME NEW l \in Seq(Record) PROVE NextBlock(l) \in Nat
  <1> DEFINE n == Len(l)
             v == [i \in 1 .. n |-> l[i].issued_at]
             B == {r.issued_at : r \in RangeOf(l)}
  <1>1. n \in Nat /\ DOMAIN l = 1 .. n /\ (l # <<>> => n > 0)
    BY EmptySeq
  <1>2. v \in [1 .. n -> Nat]
    <2>1. \A i \in 1 .. n : l[i] \in Record
      BY ElementOfSeq
    <2> QED
      BY <2>1 DEF Record
  <1>3. CASE l = <<>>
    BY <1>3 DEF NextBlock
  <1>4. CASE l # <<>>
    <2>1. PICK i \in 1 .. n : \A j \in 1 .. n : v[i] >= v[j]
      <3> HIDE DEF v, n
      <3> QED
        BY <1>1, <1>2, <1>4, LargestOf
    <2>2. B = {v[j] : j \in 1 .. n}
      BY <1>1 DEF RangeOf
    <2> HIDE DEF v, n
    <2>3. B \subseteq Nat /\ \E x \in B : \A y \in B : x >= y
      BY <1>2, <2>1, <2>2
    <2> HIDE DEF B
    <2>4. Max(B) \in B
      BY <2>3 DEF Max
    <2>5. NextBlock(l) = Max(B) + 1 /\ Max(B) \in Nat
      BY <1>4, <2>3, <2>4 DEF NextBlock, B
    <2> QED
      BY <2>5
  <1> QED
    BY <1>3, <1>4

\* The active records are those of the log that are not revoked, once each.
LEMMA ActiveOfLog ==
  ASSUME NEW l \in Seq(Record), DistinctDids(l)
  PROVE  LET active == ActiveRecords(l) IN
         /\ active \in Seq(Record) /\ DistinctDids(active)
         /\ RangeOf(active) = {r \in RangeOf(l) : r.revoked_at = None}
  <1> DEFINE n == Len(l)
             Step(m, a) == IF l[m].revoked_at = None THEN Append(a, l[m]) ELSE a
             IsActive(f, m) == f = [k \in 0 .. m |-> IF k = 0 THEN <<>> ELSE Step(k, f[k - 1])]
             T == {m \in Nat : \E f : IsActive(f, m)}
  <1>1. ActiveRecords(l) = (CHOOSE f : IsActive(f, n))[n]
    BY DEF ActiveRecords
  <1> HIDE DEF Step
  <1>2. 0 \in T
    <2> DEFINE f == [k \in 0 .. 0 |-> <<>>]
    <2>1. IsActive(f, 0)
      OBVIOUS
    <2> HIDE DEF f, IsActive
    <2> QED
      BY <2>1
  <1>3. ASSUME NEW m \in Nat, m \in T PROVE m + 1 \in T
    <2>1. PICK f : IsActive(f, m)
      BY <1>3
    <2> DEFINE g == [k \in 0 .. m + 1 |-> IF k = 0 THEN <<>> ELSE Step(k, f[k - 1])]
    <2>2. \A k \in 0 .. m : g[k] = f[k]
      BY <2>1
    <2>3. \A k \in 0 .. m + 1 : k # 0 => k - 1 \in 0 .. m /\ g[k - 1] = f[k - 1]
      <3> HIDE DEF g
      <3> QED
        BY <2>2
    <2>4. IsActive(g, m + 1)
      BY <2>3
    <2> HIDE DEF g, IsActive
    <2> QED
      BY <2>4
  <1> HIDE DEF IsActive
  <1>4. n \in Nat /\ n \in T
    <2> HIDE DEF T
    <2> QED
      BY <1>2, <1>3, Induct
  <1>5. PICK a : IsActive(a, n) /\ ActiveRecords(l) = a[n]
    BY <1>1, <1>4
  <1>6. a[0] = <<>> /\ \A k \in 1 .. n : a[k] = Step(k, a[k - 1])
    <2>1. a = [k \in 0 .. n |-> IF k = 0 THEN <<>> ELSE Step(k, a[k - 1])]
      BY <1>5 DEF IsActive
    <2> HIDE DEF n
    <2>2. 0 \in 0 .. n /\ \A k \in 1 .. n : k \in 0 .. n /\ k # 0
      BY <1>4
    <2> QED
      BY <2>1, <2>2
  <1> DEFINE Kept(k) == {l[i] : i \in {j \in 1 .. k : l[j].revoked_at = None}}
             S == {k \in 0 .. n : /\ a[k] \in Seq(Record) /\ DistinctDids(a[k])
                                  /\ RangeOf(a[k]) = Kept(k)}
  <1>7. 0 \in S
    <2>1. <<>> \in Seq(Record) /\ DOMAIN <<>> = {}
      OBVIOUS
    <2>2. DistinctDids(<<>>) /\ RangeOf(<<>>) = {}
      BY <2>1 DEF DistinctDids, RangeOf
    <2>3. Kept(0) = {} /\ 0 \in 0 .. n
      BY <1>4
    <2> HIDE DEF Kept, n
    <2> QED
      BY <1>6, <2>1, <2>2, <2>3
  <1>8. ASSUME NEW k \in 0 .. n - 1, k \in S PROVE k + 1 \in S
    <2>1. /\ k + 1 \in 1 .. n /\ k + 1 \in 0 .. n /\ (k + 1) - 1 = k /\ 1 .. k \subseteq 1 .. n
          /\ \A j \in 1 .. k + 1 : j \in 1 .. k \/ j = k + 1
          /\ 1 .. k \subseteq 1 .. k + 1 /\ k + 1 \in 1 .. k + 1
      BY <1>4
    <2>2. a[k + 1] = IF l[k + 1].revoked_at = None THEN Append(a[k], l[k + 1]) ELSE a[k]
      BY <1>6, <2>1 DEF Step
    <2>3. CASE l[k + 1].revoked_at # None
      <3>1. Kept(k + 1) = Kept(k)
        BY <2>1, <2>3
      <3> QED
        BY <1>8, <2>1, <2>2, <2>3, <3>1
    <2>4. CASE l[k + 1].revoked_at = None
      <3> DEFINE s == a[k]
                 r == l[k + 1]
                 t == Append(s, r)
      <3>1. s \in Seq(Record) /\ DistinctDids(s) /\ RangeOf(s) = Kept(k) /\ r \in Record
        BY <1>8, <2>1
      <3>2. Kept(k + 1) = Kept(k) \cup {r}
        BY <2>1, <2>4
      <3>3. \A x \in RangeOf(s) : x.did # r.did
        <4>1. \A i \in 1 .. k : l[i].did # r.did
          <5>1. \A i \in 1 .. k : i \in DOMAIN l /\ k + 1 \in DOMAIN l /\ i # k + 1
            BY <2>1
          <5> QED
            BY <5>1 DEF DistinctDids
        <4> QED
          BY <3>1, <4>1
      <3> HIDE DEF s, r, Kept
      <3>4. /\ t \in Seq(Record) /\ DOMAIN t = DOMAIN s \cup {Len(s) + 1}
            /\ t[Len(s) + 1] = r /\ \A i \in DOMAIN s : t[i] = s[i]
            /\ Len(s) + 1 \notin DOMAIN s
        BY <3>1
      <3> HIDE DEF t
      <3>5. RangeOf(t) = RangeOf(s) \cup {r}
        BY <3>4 DEF RangeOf
      <3>6. DistinctDids(t)
        BY <3>1, <3>3, <3>4 DEF DistinctDids, RangeOf
      <3>7. a[k + 1] = t
        BY <2>2, <2>4 DEF t, s, r
      <3> QED
        BY <2>1, <3>1, <3>2, <3>4, <3>5, <3>6, <3>7
    <2> QED
      BY <2>3, <2>4
  <1>9. n \in S
    <2> HIDE DEF S
    <2>1. 0 .. n \subseteq S
      BY <1>4, <1>7, <1>8, InductTo
    <2> QED
      BY <1>4, <2>1
  <1>10. Kept(n) = {r \in RangeOf(l) : r.revoked_at = None}
    BY DEF RangeOf
  <1> QED
    BY <1>5, <1>9, <1>10

--------------------------------------------------------------------------------
(* sorted *)

Ascending(rs) == \A i, j \in 1 .. Len(rs) : i < j => rs[i].did < rs[j].did

\* With one record of a DID, a record's rank counts those of lower DIDs.
LEMMA RankIs ==
  ASSUME NEW rs \in Seq(Record), DistinctDids(rs), NEW i \in 1 .. Len(rs)
  PROVE  Rank(rs, i) = Cardinality({j \in 1 .. Len(rs) : rs[j].did < rs[i].did})
  <1>1. DOMAIN rs = 1 .. Len(rs)
    OBVIOUS
  <1>2. \A j \in 1 .. Len(rs) : rs[j].did = rs[i].did /\ j < i => FALSE
    BY <1>1 DEF DistinctDids
  <1>3. {j \in DOMAIN rs : rs[j].did < rs[i].did \/ (rs[j].did = rs[i].did /\ j < i)}
           = {j \in 1 .. Len(rs) : rs[j].did < rs[i].did}
    BY <1>1, <1>2
  <1> QED
    BY <1>3 DEF Rank

\* Sorting permutes the records into the order of their DIDs.
LEMMA Sorting ==
  ASSUME NEW rs \in Seq(Record), DistinctDids(rs)
  PROVE  LET t == SortedByDid(rs) IN
         /\ t \in Seq(Record) /\ DOMAIN t = 1 .. Len(rs) /\ Len(t) = Len(rs)
         /\ Ascending(t) /\ RangeOf(t) = RangeOf(rs)
  <1> DEFINE n == Len(rs)
             below == [i \in 1 .. n |-> {j \in 1 .. n : rs[j].did < rs[i].did}]
             place == [k \in 1 .. n |-> CHOOSE i \in 1 .. n : Rank(rs, i) = k - 1]
             t == [k \in 1 .. n |-> rs[place[k]]]
  <1>1. n \in Nat /\ DOMAIN rs = 1 .. n
    OBVIOUS
  <1>2. \A i \in 1 .. n : rs[i] \in Record /\ rs[i].did \in Nat
    <2>1. \A i \in 1 .. n : rs[i] \in Record
      BY ElementOfSeq
    <2> QED
      BY <2>1, TrustBundleAssumption DEF Record
  <1>3. SortedByDid(rs) = t
    BY <1>1 DEF SortedByDid
  <1>4. \A i, j \in 1 .. n : i # j => rs[i].did # rs[j].did
    BY <1>1 DEF DistinctDids
  <1> HIDE DEF n
  <1>5. /\ below \in [1 .. n -> SUBSET (1 .. n)]
        /\ \A i, j \in 1 .. n : i \in below[j] <=> rs[i].did < rs[j].did
        /\ \A i \in 1 .. n : Rank(rs, i) = Cardinality(below[i])
    BY RankIs DEF n
  <1> HIDE DEF below
  <1>6. /\ \A i \in 1 .. n : i \notin below[i]
        /\ \A i, j \in 1 .. n : i # j => i \in below[j] \/ j \in below[i]
    BY <1>2, <1>4, <1>5
  <1>7. \A i, j \in 1 .. n : i \in below[j] => below[i] \subseteq below[j]
    <2> SUFFICES ASSUME NEW i \in 1 .. n, NEW j \in 1 .. n, i \in below[j],
                        NEW k \in below[i]
                 PROVE  k \in below[j]
      OBVIOUS
    <2>1. k \in 1 .. n
      BY <1>5
    <2>2. rs[k].did < rs[i].did /\ rs[i].did < rs[j].did
      BY <1>5, <2>1
    <2> DEFINE x == rs[k].did
               y == rs[i].did
               z == rs[j].did
    <2>3. x \in Nat /\ y \in Nat /\ z \in Nat /\ x < y /\ y < z
      BY <1>2, <2>1, <2>2
    <2> HIDE DEF x, y, z
    <2>4. x < z
      BY <2>3
    <2> QED
      BY <1>5, <2>1, <2>4 DEF x, z
  <1>8. StrictOrder(n, below)
    BY <1>5, <1>6, <1>7 DEF StrictOrder
  <1>9. /\ \A k, l \in 1 .. n : k < l => place[k] \in below[place[l]]
        /\ \A i \in 1 .. n : \E k \in 1 .. n : place[k] = i
        /\ \A k \in 1 .. n : place[k] \in 1 .. n /\ t[k] = rs[place[k]] /\ t[k] \in Record
    <2>1. \A k \in 1 .. n : \E i \in 1 .. n : Cardinality(below[i]) = k - 1
      BY <1>1, <1>8, Ranking
    <2>2. \A k \in 1 .. n : \E i \in 1 .. n : Rank(rs, i) = k - 1
      BY <1>5, <2>1
    <2>3. \A k \in 1 .. n : place[k] \in 1 .. n /\ Rank(rs, place[k]) = k - 1
      BY <2>2
    <2>4. place \in [1 .. n -> 1 .. n] /\ \A k \in 1 .. n : Cardinality(below[place[k]]) = k - 1
      BY <1>5, <2>3
    <2>5. \A k \in 1 .. n : t[k] = rs[place[k]]
      OBVIOUS
    <2> HIDE DEF place, t
    <2>6. /\ \A k, l \in 1 .. n : k < l => place[k] \in below[place[l]]
          /\ 1 .. n \subseteq {place[k] : k \in 1 .. n}
      BY <1>1, <1>8, <2>4, Placing
    <2> QED
      BY <1>2, <2>4, <2>5, <2>6
  <1> HIDE DEF place
  <1>10. t \in Seq(Record) /\ DOMAIN t = 1 .. n /\ Len(t) = n
    BY <1>1, <1>9
  <1> HIDE DEF t
  <1>11. Ascending(t)
    <2> SUFFICES ASSUME NEW k \in 1 .. n, NEW l \in 1 .. n, k < l
                 PROVE  t[k].did < t[l].did
      BY <1>10 DEF Ascending
    <2>1. place[k] \in below[place[l]] /\ place[k] \in 1 .. n /\ place[l] \in 1 .. n
      BY <1>9
    <2>2. rs[place[k]].did < rs[place[l]].did
      BY <1>5, <2>1
    <2> QED
      BY <1>9, <2>2
  <1>12. RangeOf(t) = RangeOf(rs)
    <2>1. \A k \in 1 .. n : \E i \in 1 .. n : t[k] = rs[i]
      BY <1>9
    <2>2. \A i \in 1 .. n : \E k \in 1 .. n : t[k] = rs[i]
      BY <1>9
    <2>3. RangeOf(t) = {t[k] : k \in 1 .. n} /\ RangeOf(rs) = {rs[i] : i \in 1 .. n}
      BY <1>1, <1>10 DEF RangeOf
    <2> QED
      BY <2>1, <2>2, <2>3
  <1> QED
    BY <1>3, <1>10, <1>11, <1>12 DEF n

\* What is sorted already stays as it is.
LEMMA SortedStays ==
  ASSUME NEW rs \in Seq(Record), Ascending(rs)
  PROVE  DistinctDids(rs) /\ SortedByDid(rs) = rs
  <1> DEFINE n == Len(rs)
  <1>1. n \in Nat /\ DOMAIN rs = 1 .. n /\ rs = [k \in 1 .. n |-> rs[k]]
    OBVIOUS
  <1>2. \A i \in 1 .. n : rs[i].did \in Nat
    <2>1. \A i \in 1 .. n : rs[i] \in Record
      BY ElementOfSeq
    <2> QED
      BY <2>1, TrustBundleAssumption DEF Record
  <1>3. \A i, j \in 1 .. n : i < j => rs[i].did < rs[j].did
    BY DEF Ascending
  <1>4. \A i, j \in 1 .. n : rs[i].did < rs[j].did <=> i < j
    <2> TAKE i, j \in 1 .. n
    <2>1. rs[i].did \in Nat /\ rs[j].did \in Nat
      BY <1>2
    <2>2. (i < j => rs[i].did < rs[j].did) /\ (j < i => rs[j].did < rs[i].did)
      BY <1>3
    <2>3. i \in Nat /\ j \in Nat
      BY <1>1
    <2>4. i = j => rs[i].did = rs[j].did
      OBVIOUS
    <2> QED
      BY <2>1, <2>2, <2>3, <2>4
  <1>5. DistinctDids(rs)
    <2> SUFFICES ASSUME NEW i \in 1 .. n, NEW j \in 1 .. n, i # j
                 PROVE  rs[i].did # rs[j].did
      BY <1>1 DEF DistinctDids
    <2>1. i < j \/ j < i
      BY <1>1
    <2> QED
      BY <1>2, <1>4, <2>1
  <1>6. \A i \in 1 .. n : Rank(rs, i) = i - 1
    <2> TAKE i \in 1 .. n
    <2>1. Rank(rs, i) = Cardinality({j \in 1 .. n : rs[j].did < rs[i].did})
      BY <1>5, RankIs
    <2>2. {j \in 1 .. n : rs[j].did < rs[i].did} = 1 .. i - 1
      <3> HIDE DEF n
      <3>1. {j \in 1 .. n : rs[j].did < rs[i].did} = {j \in 1 .. n : j < i}
        BY <1>4
      <3>2. {j \in 1 .. n : j < i} = 1 .. i - 1
        BY <1>1
      <3> QED
        BY <3>1, <3>2
    <2>3. Cardinality(1 .. i - 1) = i - 1
      BY <1>1, FS_Interval
    <2> QED
      BY <2>1, <2>2, <2>3
  <1> HIDE DEF n
  <1>7. \A k \in 1 .. n : (CHOOSE i \in 1 .. n : Rank(rs, i) = k - 1) = k
    <2> TAKE k \in 1 .. n
    <2>1. \A i \in 1 .. n : Rank(rs, i) = k - 1 <=> i = k
      BY <1>1, <1>6
    <2> QED
      BY <2>1
  <1> QED
    BY <1>1, <1>5, <1>7 DEF SortedByDid

--------------------------------------------------------------------------------
(* The file on its way *)

\* The fields that the alterations and the checks look up.
Fields(f) == /\ {"payload", "signatures"} \subseteq DOMAIN f
             /\ {"threshold", "expires_at"} \subseteq DOMAIN f.payload
FieldsOK == file # None => Fields(file)

LEMMA RemoveAtType ==
  ASSUME NEW S, NEW s \in Seq(S), NEW i \in DOMAIN s
  PROVE  RemoveAt(s, i) \in Seq(S)
  <1> DEFINE a == SubSeq(s, 1, i - 1)
             b == SubSeq(s, i + 1, Len(s))
  <1>1. i \in 1 .. Len(s) /\ Len(s) \in Nat
    OBVIOUS
  <1>2. a \in Seq(S) /\ b \in Seq(S)
    BY <1>1
  <1> HIDE DEF a, b
  <1>3. a \o b \in Seq(S)
    BY <1>2
  <1> QED
    BY <1>3 DEF RemoveAt, a, b

\* What other signatures, and what another payload, leave of a file.
LEMMA WithOtherSignatures ==
  ASSUME NEW f, Fields(f), BundleOK(f), NEW sigs \in Seq(Signature)
  PROVE  LET g == [f EXCEPT !.signatures = sigs]
         IN  Fields(g) /\ BundleOK(g) /\ g.payload = f.payload
  <1> DEFINE g == [f EXCEPT !.signatures = sigs]
  <1>1. g.payload = f.payload /\ g.signatures = sigs /\ DOMAIN g = DOMAIN f
    BY DEF Fields
  <1> HIDE DEF g
  <1>2. Fields(g) /\ BundleOK(g)
    BY <1>1 DEF Fields, BundleOK
  <1> QED
    BY <1>1, <1>2 DEF g

LEMMA WithOtherPayload ==
  ASSUME NEW f, Fields(f), BundleOK(f), NEW p,
         DOMAIN p = DOMAIN f.payload, p.threshold \in Nat, p.expires_at \in Nat
  PROVE  LET g == [f EXCEPT !.payload = p]
         IN  Fields(g) /\ BundleOK(g) /\ g.payload = p
  <1> DEFINE g == [f EXCEPT !.payload = p]
  <1>1. g.payload = p /\ g.signatures = f.signatures /\ DOMAIN g = DOMAIN f
    BY DEF Fields
  <1> HIDE DEF g
  <1>2. Fields(g) /\ BundleOK(g)
    BY <1>1 DEF Fields, BundleOK
  <1> QED
    BY <1>1, <1>2 DEF g

\* A file that is altered is a bundle still, which asks for a signature if the
\* threshold is what was altered.
LEMMA AlteredFile ==
  ASSUME Fields(file), BundleOK(file), NEW g \in AlteredSignatures \cup AlteredPayload
  PROVE  /\ Fields(g) /\ BundleOK(g)
         /\ g.payload.threshold = file.payload.threshold \/ g.payload.threshold > 0
  <1> DEFINE f == file
             p == file.payload
             Asks(t) == t = f.payload.threshold \/ t > 0
             Good(h) == Fields(h) /\ BundleOK(h) /\ Asks(h.payload.threshold)
             With(q) == [f EXCEPT !.payload = q]
  <1>1. p.threshold \in Nat /\ p.expires_at \in Nat /\ f.signatures \in Seq(Signature)
        /\ "threshold" \in DOMAIN p /\ "expires_at" \in DOMAIN p
    BY DEF BundleOK, Fields
  <1>2. ASSUME NEW sigs \in Seq(Signature), g = [f EXCEPT !.signatures = sigs]
        PROVE  Good(g)
    <2>1. Fields(g) /\ BundleOK(g) /\ g.payload = f.payload
      BY <1>2, WithOtherSignatures
    <2> QED
      BY <2>1
  <1>3. ASSUME NEW q, DOMAIN q = DOMAIN p, q.threshold \in Nat, q.expires_at \in Nat,
               Asks(q.threshold), g = [f EXCEPT !.payload = q]
        PROVE  Good(g)
    <2>1. Fields(g) /\ BundleOK(g) /\ g.payload = q
      BY <1>3, WithOtherPayload
    <2> QED
      BY <1>3, <2>1
  <1>4. ASSUME NEW i \in DOMAIN f.signatures, g = WithSignatures(RemoveAt(f.signatures, i))
        PROVE  Good(g)
    BY <1>1, <1>2, <1>4, RemoveAtType DEF WithSignatures
  <1>5. ASSUME NEW i \in DOMAIN f.signatures,
               \/ g = [f EXCEPT !.signatures[i].intact = FALSE]
               \/ g = [f EXCEPT !.signatures[i].intact = FALSE,
                                !.signatures[i].readable = FALSE]
        PROVE  Good(g)
    <2> DEFINE s == f.signatures
               one == [s[i] EXCEPT !.intact = FALSE]
               two == [s[i] EXCEPT !.intact = FALSE, !.readable = FALSE]
               With2(u) == [f EXCEPT !.signatures = [s EXCEPT ![i] = u]]
    <2>1. s[i] \in Signature
      BY <1>1, <1>5, ElementOfSeq
    <2>2. one \in Signature /\ two \in Signature
      BY <2>1 DEF Signature
    <2>3. ASSUME NEW u \in Signature, g = With2(u) PROVE Good(g)
      <3>1. [s EXCEPT ![i] = u] \in Seq(Signature)
        BY <1>1, <1>5
      <3> QED
        BY <1>2, <2>3, <3>1
    <2>4. g = With2(one) \/ g = With2(two)
      <3>1. ASSUME g = [f EXCEPT !.signatures[i].intact = FALSE,
                                 !.signatures[i].readable = FALSE]
            PROVE  g = With2(two)
        <4> DEFINE h == [f EXCEPT !.signatures[i].intact = FALSE]
        <4>1. h = With2(one)
          OBVIOUS
        <4>2. g = [h EXCEPT !.signatures[i].readable = FALSE]
          BY <3>1
        <4> QED
          BY <1>1, <1>5, <4>1, <4>2
      <3> QED
        BY <1>5, <3>1
    <2> HIDE DEF one, two, With2
    <2> QED
      BY <2>2, <2>3, <2>4
  <1>6. ASSUME NEW x, g = [f EXCEPT !.payload.identities = x] PROVE Good(g)
    <2> DEFINE q == [p EXCEPT !.identities = x]
    <2>1. DOMAIN q = DOMAIN p /\ q.threshold = p.threshold /\ q.expires_at = p.expires_at
      BY <1>1
    <2>2. g = [f EXCEPT !.payload = q]
      BY <1>6
    <2> HIDE DEF q
    <2> QED
      BY <1>1, <1>3, <2>1, <2>2
  <1>7. ASSUME g = [f EXCEPT !.payload.expires_at = @ + 1] PROVE Good(g)
    <2> DEFINE q == [p EXCEPT !.expires_at = @ + 1]
    <2>1. DOMAIN q = DOMAIN p /\ q.threshold = p.threshold /\ q.expires_at = p.expires_at + 1
      BY <1>1
    <2>2. g = [f EXCEPT !.payload = q]
      BY <1>7
    <2>3. p.expires_at + 1 \in Nat
      BY <1>1
    <2> HIDE DEF q
    <2> QED
      BY <1>1, <1>3, <2>1, <2>2, <2>3
  <1>8. ASSUME NEW t \in Nat \ {0}, g = [f EXCEPT !.payload.threshold = t] PROVE Good(g)
    <2> DEFINE q == [p EXCEPT !.threshold = t]
    <2>1. DOMAIN q = DOMAIN p /\ q.threshold = t /\ q.expires_at = p.expires_at
      BY <1>1
    <2>2. g = [f EXCEPT !.payload = q]
      BY <1>8
    <2>3. t > 0
      OBVIOUS
    <2> HIDE DEF q
    <2> QED
      BY <1>1, <1>3, <2>1, <2>2, <2>3
  <1>9. ASSUME g = [f EXCEPT !.payload.snap_root = EmptyHash] PROVE Good(g)
    <2> DEFINE q == [p EXCEPT !.snap_root = EmptyHash]
    <2>1. DOMAIN q = DOMAIN p /\ q.threshold = p.threshold /\ q.expires_at = p.expires_at
      BY <1>1
    <2>2. g = [f EXCEPT !.payload = q]
      BY <1>9
    <2> HIDE DEF q
    <2> QED
      BY <1>1, <1>3, <2>1, <2>2
  <1>10. ASSUME NEW i \in DOMAIN Entries,
                g = [f EXCEPT !.payload.identities = RemoveAt(@, i)]
         PROVE  Good(g)
    BY <1>6, <1>10
  <1>11. ASSUME NEW i \in DOMAIN Entries, NEW r,
                g = [f EXCEPT !.payload.identities[i].record = r]
         PROVE  Good(g)
    <2>1. g = [f EXCEPT !.payload.identities =
                  [Entries EXCEPT ![i] = [Entries[i] EXCEPT !.record = r]]]
      BY <1>11 DEF Entries
    <2> QED
      BY <1>6, <2>1
  <1>12. ASSUME NEW i \in DOMAIN Entries,
                g = [f EXCEPT !.payload.identities[i].leaf = EmptyHash]
         PROVE  Good(g)
    <2>1. g = [f EXCEPT !.payload.identities =
                  [Entries EXCEPT ![i] = [Entries[i] EXCEPT !.leaf = EmptyHash]]]
      BY <1>12 DEF Entries
    <2> QED
      BY <1>6, <2>1
  <1> HIDE DEF Good, Asks
  <1>13. g \in AlteredSignatures => Good(g)
    BY <1>4, <1>5 DEF AlteredSignatures
  <1>14. g \in AlteredPayload => Good(g)
    <2> SUFFICES ASSUME g \in AlteredPayload PROVE Good(g)
      OBVIOUS
    <2>1. \/ g = [f EXCEPT !.payload.expires_at = @ + 1]
          \/ \E t \in Nat \ {0} : g = [f EXCEPT !.payload.threshold = t]
          \/ g = [f EXCEPT !.payload.snap_root = EmptyHash]
          \/ \E i \in DOMAIN Entries : g = [f EXCEPT !.payload.identities = RemoveAt(@, i)]
          \/ \E i \in DOMAIN Entries, r \in RangeOf(log) :
                 g = [f EXCEPT !.payload.identities[i].record = r]
          \/ \E i \in DOMAIN Entries : g = [f EXCEPT !.payload.identities[i].leaf = EmptyHash]
      BY DEF AlteredPayload
    <2>2. (\E i \in DOMAIN Entries : g = [f EXCEPT !.payload.identities = RemoveAt(@, i)])
            => Good(g)
      BY <1>10
    <2>3. (\E i \in DOMAIN Entries, r \in RangeOf(log) :
              g = [f EXCEPT !.payload.identities[i].record = r]) => Good(g)
      BY <1>11
    <2>4. (\E i \in DOMAIN Entries :
              g = [f EXCEPT !.payload.identities[i].leaf = EmptyHash]) => Good(g)
      BY <1>12
    <2>5. (\E t \in Nat \ {0} : g = [f EXCEPT !.payload.threshold = t]) => Good(g)
      BY <1>8
    <2> QED
      BY <1>7, <1>9, <2>1, <2>2, <2>3, <2>4, <2>5
  <1> QED
    BY <1>13, <1>14 DEF Good, Asks

--------------------------------------------------------------------------------
(* The inductive invariant *)

\* register, and enrol-revoke, keep one record per DID.
LEMMA LogSteps ==
  ASSUME log \in Seq(Record), DistinctDids(log), NEW d \in Did, Register(d) \/ Revoke(d)
  PROVE  log' \in Seq(Record) /\ DistinctDids(log)'
  <1> DEFINE b == NextBlock(log)
  <1>1. b \in Nat
    BY NextBlockType
  <1> HIDE DEF b
  <1>2. CASE Register(d)
    <2> DEFINE r == [did |-> d, issued_at |-> b, revoked_at |-> None]
    <2>1. r \in Record /\ r.did = d
      BY <1>1 DEF Record
    <2>2. log' = Append(log, r) /\ \A i \in DOMAIN log : log[i].did # d
      BY <1>2 DEF Register, RangeOf, b
    <2> HIDE DEF r
    <2> DEFINE t == Append(log, r)
    <2>3. /\ t \in Seq(Record) /\ DOMAIN t = DOMAIN log \cup {Len(log) + 1}
          /\ t[Len(log) + 1] = r /\ \A i \in DOMAIN log : t[i] = log[i]
          /\ Len(log) + 1 \notin DOMAIN log
      BY <2>1
    <2> HIDE DEF t
    <2>4. DistinctDids(t)
      BY <2>1, <2>2, <2>3 DEF DistinctDids
    <2> QED
      BY <2>2, <2>3, <2>4 DEF t, DistinctDids
  <1>3. CASE Revoke(d)
    <2>1. PICK i \in DOMAIN log : log' = [log EXCEPT ![i].revoked_at = b]
      BY <1>3 DEF Revoke, b
    <2> DEFINE r == [log[i] EXCEPT !.revoked_at = b]
               t == [log EXCEPT ![i] = r]
    <2>2. log[i] \in Record
      BY ElementOfSeq
    <2>3. r \in Record /\ r.did = log[i].did
      BY <1>1, <2>2 DEF Record
    <2>4. log' = t
      BY <2>1
    <2> HIDE DEF r
    <2>5. t \in Seq(Record) /\ DOMAIN t = DOMAIN log
          /\ \A j \in DOMAIN log : t[j] = IF j = i THEN r ELSE log[j]
      BY <2>3
    <2> HIDE DEF t
    <2>6. DistinctDids(t)
      BY <2>3, <2>5 DEF DistinctDids
    <2> QED
      BY <2>4, <2>5, <2>6 DEF DistinctDids
  <1> QED
    BY <1>2, <1>3

\* A bundle that is generated is the snapshot of the log, signed by enough validators.
LEMMA GenerateStep ==
  ASSUME TypeOK, DistinctDids(log), NEW validators \in Signers, NEW grace \in GraceArg,
         Generate(validators, grace)
  PROVE  /\ Fields(file') /\ BundleOK(file') /\ records' \in Seq(Record)
         /\ DistinctDids(records)' /\ SignedOK' /\ FileOK'
  <1> DEFINE active == SortedByDid(ActiveRecords(log))
             p == Payload(log, grace)
             sigs == [i \in DOMAIN validators |->
                         [validator |-> validators[i],
                          intact    |-> TRUE, readable |-> TRUE]]
  <1>1. /\ file' = [payload |-> p, signatures |-> sigs] /\ signed' = p
        /\ records' = ActiveRecords(log) /\ Len(validators) >= Threshold
    BY DEF Generate
  <1>2. p = [snap_block |-> NextBlock(log), snap_root |-> GetRoot(BuildTree(active)),
             issued_at |-> now, expires_at |-> now + grace, threshold |-> Threshold,
             identities |-> IdentityEntries(active)]
    BY DEF Payload
  <1>3. now \in Nat /\ grace \in Nat /\ Threshold \in Nat /\ validators \in Seq(Validator)
    BY TrustBundleAssumption DEF TypeOK
  <1> HIDE DEF active, p
  <1>4. /\ p.threshold = Threshold /\ p.expires_at = now + grace
        /\ p.snap_root = GetRoot(BuildTree(active)) /\ p.identities = IdentityEntries(active)
        /\ {"threshold", "expires_at"} \subseteq DOMAIN p
    BY <1>2
  <1>5. /\ sigs \in Seq(Signature) /\ Len(sigs) = Len(validators)
        /\ \A i \in DOMAIN sigs : sigs[i].intact /\ sigs[i].readable
    <2>1. \A i \in DOMAIN validators :
             [validator |-> validators[i], intact |-> TRUE, readable |-> TRUE] \in Signature
      BY <1>3, ElementOfSeq DEF Signature
    <2> QED
      BY <1>3, <2>1
  <1> HIDE DEF sigs
  <1>6. /\ file'.payload = p /\ file'.signatures = sigs
        /\ DOMAIN file' = {"payload", "signatures"}
    BY <1>1
  <1>7. Fields(file') /\ BundleOK(file')
    BY <1>3, <1>4, <1>5, <1>6 DEF Fields, BundleOK
  <1>8. records' \in Seq(Record) /\ DistinctDids(records)'
    BY <1>1, ActiveOfLog DEF TypeOK, DistinctDids
  <1>9. SignedOK'
    BY <1>1, <1>4 DEF SignedOK, active
  <1>10. FileOK'
    BY <1>1, <1>3, <1>4, <1>5, <1>6 DEF FileOK, AllIntact, AllReadable
  <1> QED
    BY <1>7, <1>8, <1>9, <1>10

\* The signatures that verify are among those that are intact.
LEMMA CountsOfSignatures ==
  ASSUME NEW f, f.signatures \in Seq(Signature)
  PROVE  /\ ValidSigCount(f) \in Nat
         /\ ValidSigCount(f) <= Cardinality(IntactSignatures(f))
         /\ Cardinality(IntactSignatures(f)) \in Nat
         /\ ValidSigCount(f) > 0 => f.payload = signed
         /\ (f.payload = signed /\ \A i \in DOMAIN f.signatures : f.signatures[i].intact)
               => ValidSigCount(f) = Len(f.signatures)
  <1> DEFINE n == Len(f.signatures)
             V == {i \in DOMAIN f.signatures : Verifies(f, f.signatures[i])}
             I == IntactSignatures(f)
  <1>1. n \in Nat /\ DOMAIN f.signatures = 1 .. n
    OBVIOUS
  <1>2. ValidSigCount(f) = Cardinality(V)
    BY DEF ValidSigCount
  <1>3. IsFiniteSet(1 .. n) /\ Cardinality(1 .. n) = n
    BY <1>1, FS_Interval
  <1>4. V \in SUBSET I /\ I \in SUBSET (1 .. n) /\ (V # {} => f.payload = signed)
        /\ ((f.payload = signed /\ \A i \in DOMAIN f.signatures : f.signatures[i].intact)
               => V = 1 .. n)
    BY <1>1 DEF IntactSignatures, Verifies
  <1> HIDE DEF V, I, n
  <1>5. IsFiniteSet(I) /\ IsFiniteSet(V) /\ Cardinality(V) <= Cardinality(I)
    BY <1>3, <1>4, FS_Subset
  <1>6. Cardinality(I) \in Nat /\ Cardinality(V) \in Nat
        /\ (Cardinality(V) = 0 <=> V = {})
    BY <1>5, FS_CardinalityType, FS_EmptySet
  <1>7. Cardinality(V) > 0 => V # {}
    BY <1>6
  <1>8. V = 1 .. n => Cardinality(V) = n
    BY <1>3
  <1> QED
    BY <1>2, <1>4, <1>5, <1>6, <1>7, <1>8 DEF I, n

\* What the browser stores is what the validators signed.
LEMMA SyncStep ==
  ASSUME TypeOK, SignedOK, FileOK, HeldOK, Sync
  PROVE  HeldOK' /\ (held' # None => BundleOK(held'.file) /\ held'.validSigCount \in Nat)
  <1> DEFINE count == ValidSigCount(file)
             intact == Cardinality(IntactSignatures(file))
             t == file.payload.threshold
  <1>1. file # None /\ BundleOK(file) /\ t \in Nat /\ file.signatures \in Seq(Signature)
        /\ (t = Threshold \/ t > 0) /\ Threshold \in Nat /\ signed.threshold = Threshold
    BY TrustBundleAssumption DEF Sync, TypeOK, BundleOK, SignedOK, FileOK
  <1>2. count \in Nat /\ intact \in Nat /\ count <= intact
        /\ (count > 0 => file.payload = signed)
    BY <1>1, CountsOfSignatures
  <1>3. CASE held' = held
    BY <1>3 DEF HeldOK, TypeOK, IntactSignatures
  <1>4. CASE count >= t /\ held' = [file |-> file, validSigCount |-> count]
    <2>1. count > 0 => t = Threshold
      BY <1>1, <1>2
    <2> HIDE DEF count, intact, t
    <2>2. t = Threshold /\ count >= Threshold /\ intact >= Threshold
      BY <1>1, <1>2, <1>4, <2>1
    <2>3. held'.file = file /\ held'.validSigCount = count
      BY <1>4
    <2>4. IntactSignatures(held'.file) = IntactSignatures(file)
      BY <2>3
    <2>5. HeldOK'
      BY <2>2, <2>3, <2>4 DEF HeldOK, IntactSignatures, intact, t
    <2> QED
      BY <1>1, <1>2, <2>3, <2>5
  <1> QED
    BY <1>3, <1>4 DEF Sync

Inv == TypeOK /\ FieldsOK /\ BundleInv

LEMMA InvHolds == Spec => []Inv
  <1>1. Init => Inv
    <2> SUFFICES ASSUME Init PROVE Inv
      OBVIOUS
    <2>1. <<>> \in Seq(Record) /\ DOMAIN <<>> = {}
      OBVIOUS
    <2>2. /\ 0 \in 0 .. MaxTime /\ 0 \in 0 .. MaxBundles /\ 0 \in 0 .. MaxDamage
      BY TrustBundleAssumption
    <2> QED
      BY <2>1, <2>2 DEF Init, Inv, TypeOK, FieldsOK, BundleInv, DistinctDids, SignedOK,
                        FileOK, HeldOK
  <1>2. Inv /\ [Next]_vars => Inv'
    <2> SUFFICES ASSUME Inv, [Next]_vars PROVE Inv'
      OBVIOUS
    <2>1. TypeOK /\ FieldsOK /\ DistinctDids(log) /\ DistinctDids(records)
          /\ SignedOK /\ FileOK /\ HeldOK
      BY DEF Inv, BundleInv
    <2>2. ASSUME NEW d \in Did, Register(d) \/ Revoke(d) PROVE Inv'
      <3>1. log' \in Seq(Record) /\ DistinctDids(log)'
        BY <2>1, <2>2, LogSteps DEF TypeOK
      <3>2. UNCHANGED <<now, file, held, signed, records, bundles, damage>>
        BY <2>2 DEF Register, Revoke
      <3>3. TypeOK'
        BY <2>1, <3>1, <3>2 DEF TypeOK, BundleOK
      <3>4. FieldsOK' /\ SignedOK' /\ FileOK' /\ HeldOK' /\ DistinctDids(records)'
        BY <2>1, <3>2 DEF FieldsOK, SignedOK, FileOK, HeldOK, DistinctDids, IntactSignatures
      <3> QED
        BY <3>1, <3>3, <3>4 DEF Inv, BundleInv
    <2>3. ASSUME NEW validators \in Signers, NEW grace \in GraceArg,
                 Generate(validators, grace)
          PROVE  Inv'
      <3>1. /\ Fields(file') /\ BundleOK(file') /\ records' \in Seq(Record)
            /\ DistinctDids(records)' /\ SignedOK' /\ FileOK'
        BY <2>1, <2>3, GenerateStep
      <3>2. /\ UNCHANGED <<log, now, held>>
            /\ bundles < MaxBundles /\ bundles' = bundles + 1 /\ damage' = 0
        BY <2>3 DEF Generate
      <3>3. bundles' \in 0 .. MaxBundles /\ damage' \in 0 .. MaxDamage
        BY <2>1, <3>2, TrustBundleAssumption DEF TypeOK
      <3>4. TypeOK'
        BY <2>1, <3>1, <3>2, <3>3 DEF TypeOK, BundleOK
      <3>5. FieldsOK' /\ HeldOK' /\ DistinctDids(log)'
        BY <2>1, <3>1, <3>2 DEF FieldsOK, HeldOK, Fields, DistinctDids, IntactSignatures
      <3> QED
        BY <3>1, <3>4, <3>5 DEF Inv, BundleInv
    <2>4. CASE Alter
      <3>1. /\ file # None /\ file' \in AlteredSignatures \cup AlteredPayload
            /\ damage < MaxDamage /\ damage' = damage + 1
            /\ UNCHANGED <<log, now, held, signed, records, bundles>>
        BY <2>4 DEF Alter
      <3>2. /\ Fields(file) /\ BundleOK(file)
            /\ file.payload.threshold = Threshold \/ file.payload.threshold > 0
        BY <2>1, <3>1 DEF FieldsOK, TypeOK, FileOK
      <3>3. Fields(file') /\ BundleOK(file')
            /\ (file'.payload.threshold = file.payload.threshold
                  \/ file'.payload.threshold > 0)
        BY <3>1, <3>2, AlteredFile
      <3>4. damage' \in 0 .. MaxDamage /\ damage' # 0
        BY <2>1, <3>1, TrustBundleAssumption DEF TypeOK
      <3>5. TypeOK'
        BY <2>1, <3>1, <3>3, <3>4 DEF TypeOK, BundleOK
      <3>6. FieldsOK'
        BY <3>3 DEF FieldsOK, Fields
      <3>7. FileOK'
        BY <3>2, <3>3, <3>4 DEF FileOK
      <3>8. SignedOK' /\ HeldOK' /\ DistinctDids(log)' /\ DistinctDids(records)'
        BY <2>1, <3>1 DEF SignedOK, HeldOK, DistinctDids, IntactSignatures
      <3> QED
        BY <3>5, <3>6, <3>7, <3>8 DEF Inv, BundleInv
    <2>5. CASE Tick
      <3>1. now' \in 0 .. MaxTime
            /\ UNCHANGED <<log, file, held, signed, records, bundles, damage>>
        BY <2>1, <2>5, TrustBundleAssumption DEF Tick, TypeOK
      <3> QED
        BY <2>1, <3>1 DEF Inv, BundleInv, TypeOK, BundleOK, FieldsOK, Fields, SignedOK,
                          FileOK, HeldOK, DistinctDids, IntactSignatures
    <2>6. CASE Sync
      <3>1. HeldOK' /\ (held' # None => BundleOK(held'.file) /\ held'.validSigCount \in Nat)
        BY <2>1, <2>6, SyncStep
      <3>2. UNCHANGED <<log, now, file, signed, records, bundles, damage>>
        BY <2>6 DEF Sync
      <3>3. TypeOK'
        BY <2>1, <3>1, <3>2 DEF TypeOK, BundleOK
      <3>4. FieldsOK' /\ SignedOK' /\ FileOK' /\ DistinctDids(log)' /\ DistinctDids(records)'
        BY <2>1, <3>2 DEF FieldsOK, Fields, SignedOK, FileOK, DistinctDids
      <3> QED
        BY <3>1, <3>3, <3>4 DEF Inv, BundleInv
    <2>7. CASE UNCHANGED vars
      BY <2>1, <2>7 DEF vars, Inv, BundleInv, TypeOK, BundleOK, FieldsOK, Fields, SignedOK,
                        FileOK, HeldOK, DistinctDids, IntactSignatures
    <2> QED
      BY <2>2, <2>3, <2>4, <2>5, <2>6, <2>7 DEF Next
  <1> QED
    BY <1>1, <1>2, PTL DEF Spec

\* The state of the log, the bundles and the clock is of its types throughout.
THEOREM TypeCorrect == Spec => []TypeOK
  <1>1. Inv => TypeOK
    BY DEF Inv
  <1> QED
    BY <1>1, InvHolds, PTL

\* What the browser stores counts as many valid signatures as the validators' threshold,
\* and states that threshold, whatever was altered, and for a threshold of 0 too.
THEOREM HeldWasSigned == Spec => []HeldOK
  <1>1. Inv => HeldOK
    BY DEF Inv, BundleInv
  <1> QED
    BY <1>1, InvHolds, PTL

\* A payload or a signature altered on its way is noticed, where --threshold asks for
\* a signature at all: of a file stripped of all of them verify could only tell by
\* what its other fields say.
THEOREM AlterationsAreNoticed ==
  ASSUME Threshold >= 1
  PROVE  Spec => []TamperEvident
  <1>1. Inv => TamperEvident
    <2> SUFFICES ASSUME Inv, file # None, file.payload # signed \/ ~AllIntact(file),
                        NEW d \in Did
                 PROVE  Verify(file, d) \in {"TAMPERED", "QUORUM_FAILURE"}
      BY DEF TamperEvident
    <2> DEFINE n == Len(file.signatures)
               t == file.payload.threshold
    <2>1. /\ n \in Nat /\ DOMAIN file.signatures = 1 .. n
          /\ t \in Nat /\ t > 0
      BY TrustBundleAssumption DEF Inv, BundleInv, TypeOK, BundleOK, FileOK
    <2>2. CASE n < t
      BY <2>2 DEF Verify
    <2>3. CASE ~(n < t)
      <3>1. ~(Len(file.signatures) < file.payload.threshold)
        BY <2>3
      <3> HIDE DEF n, t
      <3>2. 1 \in 1 .. n
        BY <2>1, <2>3
      <3>3. \E i \in DOMAIN file.signatures : ~Verifies(file, file.signatures[i])
        BY <2>1, <3>2 DEF Verifies, AllIntact
      <3> QED
        BY <3>1, <3>3 DEF Verify
    <2> QED
      BY <2>2, <2>3
  <1> QED
    BY <1>1, InvHolds, PTL

\* A bundle that the browser stores is the one that was signed, whatever was altered and
\* however often, where --threshold asks for a signature at all: one signature that
\* verifies is one for this payload, and the threshold is part of it.
THEOREM SignedIsStored ==
  ASSUME Threshold >= 1
  PROVE  Spec => OnlySignedStored
  <1> DEFINE Stored == held' # held => /\ held'.file.payload = signed
                                       /\ Cardinality(IntactSignatures(held'.file)) >= Threshold
  <1>1. Inv /\ [Next]_vars => Stored
    <2> SUFFICES ASSUME Inv, [Next]_vars, held' # held PROVE Stored
      OBVIOUS
    <2>1. Sync
      BY DEF Next, vars, Register, Revoke, Generate, Alter, Tick
    <2> DEFINE count == ValidSigCount(file)
               intact == Cardinality(IntactSignatures(file))
               t == file.payload.threshold
    <2>2. /\ count >= t /\ held'.file = file
      BY <2>1 DEF Sync
    <2>3. /\ t \in Nat /\ t > 0 /\ Threshold \in Nat /\ signed.threshold = Threshold
          /\ file.signatures \in Seq(Signature)
      BY <2>1, TrustBundleAssumption
      DEF Sync, Inv, BundleInv, TypeOK, BundleOK, FileOK, SignedOK
    <2>4. count \in Nat /\ intact \in Nat /\ count <= intact
          /\ (count > 0 => file.payload = signed)
      BY <2>3, CountsOfSignatures
    <2>5. IntactSignatures(held'.file) = IntactSignatures(file)
      BY <2>2
    <2>6. file.payload = signed => t = Threshold
      BY <2>3
    <2> HIDE DEF count, t
    <2>7. count > 0
      BY <2>2, <2>3, <2>4
    <2> HIDE DEF intact
    <2>8. file.payload = signed /\ intact >= Threshold
      BY <2>2, <2>3, <2>4, <2>6, <2>7
    <2> QED
      BY <2>2, <2>5, <2>8 DEF intact
  <1> QED
    BY <1>1, InvHolds, PTL DEF Spec, OnlySignedStored

\* A bundle of the snapshot has an entry for what was active, and for nothing else, and
\* each entry's proof leads to the root, from its record and from its leaf hash.
LEMMA AnswersOfSnapshot ==
  ASSUME records \in Seq(Record), DistinctDids(records), SignedOK, file # None,
         NEW f, f.payload = signed, NEW d \in Did
  PROVE  LET entry == EntryOf(f, d) IN
         /\ RecomputedRoot(f) = f.payload.snap_root
         /\ Positions(f, d) = {} <=> ~Listed(d)
         /\ Listed(d) =>
               /\ VerifyProof(entry.record, entry.siblings, f.payload.snap_root)
               /\ VerifyFromHash(entry.leaf, entry.siblings, f.payload.snap_root)
  <1> DEFINE active == SortedByDid(records)
             n == Len(active)
             p == f.payload
             root == GetRoot(BuildTree(active))
             P == Positions(f, d)
  <1>1. /\ active \in Seq(Record) /\ Ascending(active) /\ RangeOf(active) = RangeOf(records)
        /\ DOMAIN active = 1 .. n /\ n \in Nat
    BY Sorting
  <1>2. p.snap_root = root /\ p.identities = IdentityEntries(active)
    BY DEF SignedOK
  <1>3. SortedByDid(active) = active
    BY <1>1, SortedStays
  <1> HIDE DEF active
  <1>4. /\ DOMAIN p.identities = 1 .. n
        /\ \A i \in 1 .. n : /\ p.identities[i].record = active[i]
                             /\ p.identities[i].leaf = LeafHash(active[i])
                             /\ p.identities[i].siblings = GetProof(BuildTree(active), i - 1)
    BY <1>1, <1>2 DEF IdentityEntries
  <1>5. RecomputedRoot(f) = p.snap_root
    <2>1. [i \in DOMAIN p.identities |-> p.identities[i].record] = active
      BY <1>1, <1>4
    <2> QED
      BY <1>2, <1>3, <2>1 DEF RecomputedRoot
  <1>6. P = {i \in 1 .. n : active[i].did = d}
    BY <1>4 DEF Positions
  <1>7. Listed(d) <=> \E i \in 1 .. n : active[i].did = d
    <2>1. Listed(d) <=> \E r \in RangeOf(active) : r.did = d
      BY <1>1 DEF Listed
    <2> QED
      BY <1>1, <2>1 DEF RangeOf
  <1>8. ASSUME Listed(d)
        PROVE  /\ VerifyProof(EntryOf(f, d).record, EntryOf(f, d).siblings, p.snap_root)
               /\ VerifyFromHash(EntryOf(f, d).leaf, EntryOf(f, d).siblings, p.snap_root)
    <2>1. PICK i \in 1 .. n : active[i].did = d
      BY <1>7, <1>8
    <2>2. P = {i}
      <3>1. ASSUME NEW j \in 1 .. n, active[j].did = d PROVE j = i
        <4>1. DistinctDids(active)
          BY <1>1, SortedStays
        <4> QED
          BY <1>1, <2>1, <3>1, <4>1 DEF DistinctDids
      <3> QED
        BY <1>6, <2>1, <3>1
    <2>3. Min(P) = i
      <3>1. i >= i
        BY <1>1
      <3> HIDE DEF P
      <3> QED
        BY <2>2, <3>1 DEF Min
    <2>4. EntryOf(f, d) = p.identities[i]
      BY <2>3 DEF EntryOf
    <2>5. VerifyProof(active[i], GetProof(BuildTree(active), i - 1), root)
      BY <1>1, EveryProofVerifies
    <2> QED
      BY <1>2, <1>4, <2>4, <2>5 DEF VerifyProof
  <1> QED
    BY <1>5, <1>6, <1>7, <1>8

\* A bundle that arrives as it was generated answers on both sides as the log did: for
\* every set of DIDs, every length of the log and every number of validators.
THEOREM BundlesAnswerAsTheLog == Spec => []SnapshotAnswered
  <1>1. Inv => SnapshotAnswered
    <2> SUFFICES ASSUME Inv, file # None, damage = 0, NEW d \in Did
                 PROVE  /\ file.payload.expires_at > now => Verify(file, d) = Expected(d)
                        /\ held # None /\ held.file = file /\ file.payload.expires_at >= now
                              => ClientVerify(held, d) = Expected(d)
      BY DEF SnapshotAnswered
    <2> DEFINE t == file.payload.threshold
               n == Len(file.signatures)
               e == file.payload.expires_at
    <2>1. /\ records \in Seq(Record) /\ DistinctDids(records) /\ SignedOK
          /\ file.payload = signed /\ t = Threshold /\ Threshold \in Nat
          /\ n >= Threshold /\ AllIntact(file)
          /\ e \in Nat /\ now \in Nat /\ n \in Nat
      BY TrustBundleAssumption
         DEF Inv, BundleInv, TypeOK, BundleOK, FileOK, SignedOK
    <2>2. LET entry == EntryOf(file, d) IN
          /\ RecomputedRoot(file) = file.payload.snap_root
          /\ Positions(file, d) = {} <=> ~Listed(d)
          /\ Listed(d) =>
                /\ VerifyProof(entry.record, entry.siblings, file.payload.snap_root)
                /\ VerifyFromHash(entry.leaf, entry.siblings, file.payload.snap_root)
      BY <2>1, AnswersOfSnapshot
    <2>3. ASSUME e > now PROVE Verify(file, d) = Expected(d)
      <3>1. ~(n < t) /\ ~(e <= now)
        <4> HIDE DEF n, t, e
        <4> QED
          BY <2>1, <2>3
      <3>2. ~ \E i \in DOMAIN file.signatures : ~Verifies(file, file.signatures[i])
        BY <2>1 DEF Verifies, AllIntact
      <3> QED
        BY <2>2, <3>1, <3>2 DEF Verify, Expected
    <2>4. ASSUME held # None, held.file = file, e >= now
          PROVE  ClientVerify(held, d) = Expected(d)
      <3> DEFINE c == held.validSigCount
      <3>1. c \in Nat /\ c >= Threshold
        BY <2>4 DEF Inv, BundleInv, TypeOK, HeldOK
      <3>2. ~(now > e) /\ ~(c < t)
        <4> HIDE DEF c, t, e
        <4> QED
          BY <2>1, <2>4, <3>1
      <3> QED
        BY <2>2, <2>4, <3>2 DEF ClientVerify, Expected
    <2> QED
      BY <2>3, <2>4
  <1> QED
    BY <1>1, InvHolds, PTL
================================================================================
