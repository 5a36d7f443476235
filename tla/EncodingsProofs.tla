----------------------------- MODULE EncodingsProofs -----------------------------
(***************************************************************************)
(* What the Merkle tree promises, for every set of leaves and every        *)
(* length, and what the encoder does: its heads, for all 64-bit numbers,   *)
(* the order of an object's entries, for any number of any keys, and that  *)
(* its codes tell what an item says, for items of any depth.               *)
(***************************************************************************)
EXTENDS MCEncodings, MerkleProofs, SequenceTheorems

Inv == leaves \in Seq(Leaf) /\ Distinct(leaves)

LEMMA AppendDistinct ==
  ASSUME NEW s \in Seq(Leaf), Distinct(s), NEW x \in Leaf \ Range(s)
  PROVE  Append(s, x) \in Seq(Leaf) /\ Distinct(Append(s, x))
  <1> DEFINE t == Append(s, x)
  <1>1. /\ t \in Seq(Leaf) /\ Len(t) = Len(s) + 1 /\ Len(s) \in Nat
        /\ t[Len(s) + 1] = x /\ \A i \in 1 .. Len(s) : t[i] = s[i]
    OBVIOUS
  <1>2. \A i \in 1 .. Len(s) : s[i] # x
    BY DEF Range
  <1> HIDE DEF t
  <1>3. \A i \in 1 .. Len(t) : i \in 1 .. Len(s) \/ i = Len(s) + 1
    BY <1>1
  <1>4. Distinct(t)
    BY <1>1, <1>2, <1>3 DEF Distinct
  <1> QED
    BY <1>1, <1>4 DEF t

LEMMA RemoveDistinct ==
  ASSUME NEW s \in Seq(Leaf), Distinct(s), NEW n \in DOMAIN s
  PROVE  RemoveAt(s, n) \in Seq(Leaf) /\ Distinct(RemoveAt(s, n))
  <1> DEFINE a == SubSeq(s, 1, n - 1)
             b == SubSeq(s, n + 1, Len(s))
             t == a \o b
  <1>1. RemoveAt(s, n) = t
    BY DEF RemoveAt
  <1>2. n \in 1 .. Len(s) /\ Len(s) \in Nat
    OBVIOUS
  <1>3. a \in Seq(Leaf) /\ Len(a) = n - 1 /\ \A i \in 1 .. n - 1 : a[i] = s[i]
    BY <1>2
  <1>4. b \in Seq(Leaf) /\ Len(b) = Len(s) - n /\ \A i \in 1 .. Len(s) - n : b[i] = s[n + i]
    BY <1>2
  <1> HIDE DEF a, b
  <1>5. /\ t \in Seq(Leaf) /\ Len(t) = Len(s) - 1
        /\ \A i \in 1 .. n - 1 : t[i] = s[i]
        /\ \A i \in n .. Len(s) - 1 : t[i] = s[i + 1]
    <2>1. t \in Seq(Leaf) /\ Len(t) = Len(a) + Len(b)
      BY <1>3, <1>4, ConcatProperties
    <2>2. \A i \in 1 .. Len(t) : t[i] = IF i <= Len(a) THEN a[i] ELSE b[i - Len(a)]
      BY <1>3, <1>4, ConcatProperties
    <2> HIDE DEF t
    <2>3. Len(t) = Len(s) - 1
      BY <1>2, <1>3, <1>4, <2>1
    <2>4. ASSUME NEW i \in 1 .. n - 1 PROVE t[i] = s[i]
      BY <1>2, <1>3, <2>2, <2>3
    <2>5. ASSUME NEW i \in n .. Len(s) - 1 PROVE t[i] = s[i + 1]
      <3>1. i - (n - 1) \in 1 .. Len(s) - n /\ n + (i - (n - 1)) = i + 1 /\ ~(i <= n - 1)
            /\ i \in 1 .. Len(t)
        BY <1>2, <2>3
      <3>2. t[i] = b[i - (n - 1)]
        BY <1>3, <2>2, <3>1
      <3> QED
        BY <1>4, <3>1, <3>2
    <2> QED
      BY <2>1, <2>3, <2>4, <2>5
  <1> HIDE DEF t
  <1>6. \A i \in 1 .. Len(s) - 1 : t[i] = s[IF i < n THEN i ELSE i + 1]
    BY <1>2, <1>5
  <1>7. Distinct(t)
    <2> SUFFICES ASSUME NEW i \in 1 .. Len(t), NEW j \in 1 .. Len(t), i # j
                 PROVE  t[i] # t[j]
      BY DEF Distinct
    <2> DEFINE k == IF i < n THEN i ELSE i + 1
               l == IF j < n THEN j ELSE j + 1
    <2>1. i \in 1 .. Len(s) - 1 /\ j \in 1 .. Len(s) - 1
      BY <1>5
    <2>2. k \in 1 .. Len(s) /\ l \in 1 .. Len(s) /\ k # l
      BY <1>2, <2>1
    <2>3. t[i] = s[k] /\ t[j] = s[l]
      BY <1>6, <2>1
    <2> HIDE DEF k, l
    <2> QED
      BY <2>2, <2>3 DEF Distinct
  <1> QED
    BY <1>1, <1>5, <1>7

\* A list of leaves has no leaf twice.
LEMMA LeavesDistinct == Spec => []Inv
  <1>1. Init => Inv
    BY DEF Init, Inv, Distinct
  <1>2. Inv /\ [Next]_<<leaves, item>> => Inv'
    <2> SUFFICES ASSUME Inv, [Next]_<<leaves, item>> PROVE Inv'
      OBVIOUS
    <2>1. CASE Add
      <3>1. PICK x \in Leaf \ Range(leaves) : leaves' = Append(leaves, x)
        BY <2>1 DEF Add
      <3> QED
        BY <3>1, AppendDistinct DEF Inv
    <2>2. CASE Drop
      <3>1. leaves' = SubSeq(leaves, 1, Len(leaves) - 1) /\ leaves # <<>>
        BY <2>2 DEF Drop, Front
      <3>2. /\ leaves' \in Seq(Leaf) /\ Len(leaves') = Len(leaves) - 1
            /\ \A i \in 1 .. Len(leaves) - 1 : leaves'[i] = leaves[i]
        <4>1. leaves \in Seq(Leaf) /\ Len(leaves) > 0
          BY <3>1 DEF Inv
        <4>2. PICK n \in Nat : n = Len(leaves) - 1
          BY <4>1
        <4>3. \A i \in 1 .. n : leaves[i] \in Leaf
          BY <4>1, <4>2
        <4>4. /\ SubSeq(leaves, 1, n) \in Seq(Leaf)
              /\ Len(SubSeq(leaves, 1, n)) = IF 1 <= n THEN n - 1 + 1 ELSE 0
              /\ \A i \in 1 .. n - 1 + 1 : SubSeq(leaves, 1, n)[i] = leaves[1 + i - 1]
          BY <4>3, SubSeqProperties
        <4> QED
          BY <3>1, <4>2, <4>4
      <3> QED
        BY <3>2 DEF Inv, Distinct
    <2>3. CASE UNCHANGED leaves
      BY <2>3 DEF Inv, Distinct
    <2> QED
      BY <2>1, <2>2, <2>3 DEF Next, Take, Put
  <1> QED
    BY <1>1, <1>2, PTL DEF Spec

\* Each leaf's proof verifies, for any number of leaves.
THEOREM LeavesProofsVerify == Spec => []ProofsVerify
  <1>1. Inv => ProofsVerify
    BY EveryProofVerifies DEF Inv, ProofsVerify, Proof, Root
  <1> QED
    BY <1>1, LeavesDistinct, PTL

\* It verifies for no other leaf.
THEOREM LeavesProofsBind == Spec => []ProofsBind
  <1>1. Inv => ProofsBind
    <2> SUFFICES ASSUME Inv, NEW i \in DOMAIN leaves, NEW x \in Leaf \ {leaves[i]}
                 PROVE  ~VerifyProof(x, Proof(leaves, i), Root(leaves))
      BY DEF ProofsBind
    <2>1. VerifyProof(leaves[i], Proof(leaves, i), Root(leaves))
      BY EveryProofVerifies DEF Inv, Proof, Root
    <2>2. Indexed(leaves) /\ Len(leaves) > 0
      BY SeqIndexed DEF Inv
    <2>3. Len(Proof(leaves, i)) \in Nat
      BY <2>2, ProofDef, TreeDef DEF Proof
    <2> QED
      BY <2>1, <2>3, NoProofOfTwo
  <1> QED
    BY <1>1, LeavesDistinct, PTL

\* No leaf can be left out, added, exchanged or moved under the same root.
THEOREM LeavesRootBinds == Spec => []RootBinds
  <1>1. Inv => RootBinds
    <2> SUFFICES ASSUME Inv, NEW s \in Others, s # leaves
                 PROVE  Root(s) # Root(leaves)
      BY DEF RootBinds
    <2>1. s \in Seq(Leaf) /\ (Len(s) = Len(leaves) \/ Distinct(s))
      <3>1. ASSUME NEW i \in DOMAIN leaves, s = RemoveAt(leaves, i)
            PROVE  s \in Seq(Leaf) /\ Distinct(s)
        BY <3>1, RemoveDistinct DEF Inv
      <3>2. ASSUME NEW x \in Leaf \ Range(leaves), s = Append(leaves, x)
            PROVE  s \in Seq(Leaf) /\ Distinct(s)
        BY <3>2, AppendDistinct DEF Inv
      <3>3. ASSUME NEW i \in DOMAIN leaves, NEW x \in Leaf, s = [leaves EXCEPT ![i] = x]
            PROVE  s \in Seq(Leaf) /\ Len(s) = Len(leaves)
        BY <3>3 DEF Inv
      <3>4. ASSUME NEW i \in DOMAIN leaves, NEW j \in DOMAIN leaves,
                   s = [leaves EXCEPT ![i] = leaves[j], ![j] = leaves[i]]
            PROVE  s \in Seq(Leaf) /\ Len(s) = Len(leaves)
        BY <3>4 DEF Inv
      <3> QED
        BY <3>1, <3>2, <3>3, <3>4 DEF Others
    <2> QED
      BY <2>1, RootsBind DEF Inv, Root
  <1> QED
    BY <1>1, LeavesDistinct, PTL

--------------------------------------------------------------------------------
(* Heads *)

Byte == 0 .. 255
EightBytes == {d \in Seq(Byte) : Len(d) = 8}

\* How many bytes follow the first byte of a head that holds v.
Follow(v) == IF v <= 23 THEN 0 ELSE IF v = 24 THEN 1 ELSE IF v = 25 THEN 2
             ELSE IF v = 26 THEN 4 ELSE 8

\* A head of a major type for a number: its first byte holds a number of at most 23,
\* or tells how many of the number's bytes follow, which is as few as hold it.
IsHead(h, m, d, v) ==
    /\ v \in 0 .. 27
    /\ h \in Seq(Byte) /\ Len(h) = 1 + Follow(v)
    /\ h[1] = 32 * m + v
    /\ v <= 23 => Fits(d, 1) /\ d[8] = v
    /\ v > 23 => /\ Fits(d, Follow(v))
                 /\ \A j \in 1 .. Follow(v) : h[1 + j] = d[8 - Follow(v) + j]

LEMMA FitsMore ==
  ASSUME NEW d \in EightBytes
  PROVE  /\ Fits(d, 1) => Fits(d, 2)
         /\ Fits(d, 2) => Fits(d, 4)
         /\ Fits(d, 8)
         /\ \A i \in 1 .. 8 : d[i] \in Byte
  <1>1. \A i \in 1 .. 8 : d[i] \in Byte
    BY ElementOfSeq DEF EightBytes
  <1>2. 1 .. 8 - 2 \subseteq 1 .. 8 - 1 /\ 1 .. 8 - 4 \subseteq 1 .. 8 - 2 /\ 1 .. 8 - 8 = {}
    OBVIOUS
  <1> QED
    BY <1>1, <1>2 DEF Fits, Digits

Following(h, d, k, b) ==
    /\ h \in Seq(Byte) /\ Len(h) = 1 + k /\ h[1] = b
    /\ \A j \in 1 .. k : h[1 + j] = d[8 - k + j]

\* The low bytes of a number.
LEMMA LowBytesAre ==
  ASSUME NEW d \in EightBytes, NEW k \in {1, 2, 4, 8}
  PROVE  /\ LowBytes(d, k) \in Seq(Byte) /\ Len(LowBytes(d, k)) = k
         /\ \A j \in 1 .. k : LowBytes(d, k)[j] = d[8 - k + j]
  <1> DEFINE a == 9 - k
  <1>1. d \in Seq(Byte) /\ Len(d) = 8 /\ \A i \in 1 .. 8 : d[i] \in Byte
    BY FitsMore DEF EightBytes
  <1>2. a \in 1 .. 8 /\ 8 - k + 1 = a /\ 8 - a + 1 = k /\ a <= 8
        /\ \A j \in 1 .. k : a + j - 1 = 8 - k + j
    OBVIOUS
  <1>3. LowBytes(d, k) = SubSeq(d, a, 8)
    BY <1>2 DEF LowBytes, Digits
  <1> HIDE DEF a
  <1>4. a \in Int /\ 8 \in Int /\ \A i \in a .. 8 : d[i] \in Byte
    BY <1>1, <1>2
  <1>5. Len(SubSeq(d, a, 8)) = IF a <= 8 THEN 8 - a + 1 ELSE 0
    BY <1>4, SubSeqProperties
  <1>6. /\ SubSeq(d, a, 8) \in Seq(Byte) /\ Len(SubSeq(d, a, 8)) = 8 - a + 1
        /\ \A j \in 1 .. 8 - a + 1 : SubSeq(d, a, 8)[j] = d[a + j - 1]
    BY <1>2, <1>4, <1>5, SubSeqProperties
  <1> QED
    BY <1>2, <1>3, <1>6

LEMMA FollowedBy ==
  ASSUME NEW d \in EightBytes, NEW k \in {1, 2, 4, 8}, NEW b \in Byte
  PROVE  Following(<<b>> \o LowBytes(d, k), d, k, b)
  <1> DEFINE low == LowBytes(d, k)
             h == <<b>> \o low
  <1>1. d \in Seq(Byte) /\ Len(d) = 8
    BY DEF EightBytes
  <1>2. \A i \in 1 .. 8 : d[i] \in Byte
    BY FitsMore
  <1>3. /\ low \in Seq(Byte) /\ Len(low) = k
        /\ \A j \in 1 .. k : low[j] = d[8 - k + j]
    BY LowBytesAre
  <1> HIDE DEF low
  <1>4. <<b>> \in Seq(Byte) /\ Len(<<b>>) = 1 /\ <<b>>[1] = b
    OBVIOUS
  <1>5. /\ h \in Seq(Byte) /\ Len(h) = 1 + k
        /\ \A i \in 1 .. 1 + k : h[i] = IF i <= 1 THEN <<b>>[i] ELSE low[i - 1]
    BY <1>3, <1>4, ConcatProperties
  <1> HIDE DEF h
  <1>6. h[1] = b
    BY <1>4, <1>5
  <1>7. \A j \in 1 .. k : h[1 + j] = low[j]
    <2> TAKE j \in 1 .. k
    <2>1. 1 + j \in 1 .. 1 + k /\ ~(1 + j <= 1) /\ (1 + j) - 1 = j
      OBVIOUS
    <2> QED
      BY <1>5, <2>1
  <1> QED
    BY <1>3, <1>5, <1>6, <1>7 DEF h, low, Following

\* The cases of writeHead.
HeadCases(h, m, d) ==
    \/ Fits(d, 1) /\ d[8] <= 23 /\ h = <<32 * m + d[8]>>
    \/ Fits(d, 1) /\ d[8] > 23 /\ h = <<32 * m + 24>> \o LowBytes(d, 1)
    \/ Fits(d, 2) /\ ~Fits(d, 1) /\ h = <<32 * m + 25>> \o LowBytes(d, 2)
    \/ Fits(d, 4) /\ ~Fits(d, 2) /\ h = <<32 * m + 26>> \o LowBytes(d, 4)
    \/ ~Fits(d, 4) /\ h = <<32 * m + 27>> \o LowBytes(d, 8)

\* The shifts by 24, 16, 8 and 0 take the four lower bytes.
LEMMA FourShifted ==
  ASSUME NEW e
  PROVE  /\ Shifted(e, <<24, 16, 8, 0>>) = <<e[5], e[6], e[7], e[8]>>
         /\ Shifted(e, <<8, 0>>) = <<e[7], e[8]>>
  <1>1. /\ 8 - (0 % 32) \div 8 = 8 /\ 8 - (8 % 32) \div 8 = 7
        /\ 8 - (16 % 32) \div 8 = 6 /\ 8 - (24 % 32) \div 8 = 5
    OBVIOUS
  <1>2. Low(e)[8] = e[8] /\ Low(e)[7] = e[7] /\ Low(e)[6] = e[6] /\ Low(e)[5] = e[5]
    BY DEF Low
  <1>3. /\ ShiftedByte(e, 0) = e[8] /\ ShiftedByte(e, 8) = e[7]
        /\ ShiftedByte(e, 16) = e[6] /\ ShiftedByte(e, 24) = e[5]
    BY <1>1, <1>2 DEF ShiftedByte, Digits
  <1> QED
    BY <1>3 DEF Shifted

\* Shifts yield a number's low bytes, and those of its two halves one after the other
\* yield all of them: a half is what a shift looks at.
LEMMA ShiftedIs ==
  ASSUME NEW d \in EightBytes
  PROVE  /\ Shifted(d, <<8, 0>>) = LowBytes(d, 2)
         /\ Shifted(d, <<24, 16, 8, 0>>) = LowBytes(d, 4)
         /\ Shifted(High(d), <<24, 16, 8, 0>>) \o Shifted(Low(d), <<24, 16, 8, 0>>)
                = LowBytes(d, 8)
  <1> DEFINE four(e) == Shifted(e, <<24, 16, 8, 0>>)
  <1>2. \A e : four(e) = <<e[5], e[6], e[7], e[8]>>
    BY FourShifted
  <1>3. Shifted(d, <<8, 0>>) = <<d[7], d[8]>>
    BY FourShifted
  <1>4. LowBytes(d, 2) = <<d[7], d[8]>>
    <2>1. LowBytes(d, 2) \in Seq(Byte) /\ Len(LowBytes(d, 2)) = 2
          /\ \A j \in 1 .. 2 : LowBytes(d, 2)[j] = d[8 - 2 + j]
      BY LowBytesAre
    <2> QED
      BY <2>1
  <1>5. LowBytes(d, 4) = <<d[5], d[6], d[7], d[8]>>
    <2>1. LowBytes(d, 4) \in Seq(Byte) /\ Len(LowBytes(d, 4)) = 4
          /\ \A j \in 1 .. 4 : LowBytes(d, 4)[j] = d[8 - 4 + j]
      BY LowBytesAre
    <2> QED
      BY <2>1
  <1>6. LowBytes(d, 8) = d /\ d \in Seq(Byte) /\ Len(d) = 8
    BY DEF LowBytes, Digits, EightBytes
  <1>7. four(High(d)) = <<d[1], d[2], d[3], d[4]>> /\ four(Low(d)) = <<d[5], d[6], d[7], d[8]>>
    <2>1. High(d)[5] = d[1] /\ High(d)[6] = d[2] /\ High(d)[7] = d[3] /\ High(d)[8] = d[4]
      BY DEF High
    <2>2. Low(d)[5] = d[5] /\ Low(d)[6] = d[6] /\ Low(d)[7] = d[7] /\ Low(d)[8] = d[8]
      BY DEF Low
    <2> HIDE DEF four
    <2> QED
      BY <1>2, <2>1, <2>2
  <1>8. <<d[1], d[2], d[3], d[4]>> \o <<d[5], d[6], d[7], d[8]>> = d
    BY <1>6
  <1> QED
    BY <1>2, <1>3, <1>4, <1>5, <1>6, <1>7, <1>8

LEMMA HeadIs ==
  ASSUME NEW m \in 0 .. 7, NEW d \in EightBytes
  PROVE  HeadCases(WriteHead(m, d), m, d)
  <1> DEFINE b == 32 * m
             high == Shifted(High(d), <<24, 16, 8, 0>>)
             low == Shifted(Low(d), <<24, 16, 8, 0>>)
  <1>1. (Fits(d, 1) => Fits(d, 2)) /\ (Fits(d, 2) => Fits(d, 4)) /\ d[8] \in 0 .. 255
    BY FitsMore DEF Byte
  <1>2. d[8] <= 23 \/ d[8] > 23
    BY <1>1
  <1>3. <<b + 24, d[8]>> = <<b + 24>> \o LowBytes(d, 1)
    <2>1. LowBytes(d, 1) \in Seq(Byte) /\ Len(LowBytes(d, 1)) = 1
          /\ \A j \in 1 .. 1 : LowBytes(d, 1)[j] = d[8 - 1 + j]
      BY LowBytesAre
    <2>2. LowBytes(d, 1) = <<d[8]>>
      BY <2>1
    <2>3. b + 24 \in Int /\ d[8] \in Int
      BY <1>1
    <2>4. ASSUME NEW x \in Int, NEW y \in Int PROVE <<x>> \o <<y>> = <<x, y>>
      <3> DEFINE r == <<x>> \o <<y>>
      <3>1. /\ <<x>> \in Seq(Int) /\ Len(<<x>>) = 1 /\ <<x>>[1] = x
            /\ <<y>> \in Seq(Int) /\ Len(<<y>>) = 1 /\ <<y>>[1] = y
        OBVIOUS
      <3>2. r \in Seq(Int) /\ Len(r) = 2 /\ r[1] = x /\ r[2] = y
        BY <3>1, ConcatProperties
      <3> HIDE DEF r
      <3>3. r = <<x, y>>
        BY <3>2
      <3> QED
        BY <3>3 DEF r
    <2> HIDE DEF b
    <2>5. <<b + 24>> \o <<d[8]>> = <<b + 24, d[8]>>
      BY <2>3, <2>4
    <2> QED
      BY <2>2, <2>5
  <1>4. (<<b + 27>> \o high) \o low = <<b + 27>> \o LowBytes(d, 8)
    <2>1. high \o low = LowBytes(d, 8)
      BY ShiftedIs
    <2>2. <<b + 27>> \in Seq(Int) /\ high \in Seq(Int) /\ low \in Seq(Int)
      <3>1. \A i \in 1 .. 8 : d[i] \in Int
        BY FitsMore DEF Byte
      <3>2. \A i \in 1 .. 8 : High(d)[i] \in Int /\ Low(d)[i] \in Int
        BY <3>1 DEF High, Low
      <3>3. ASSUME NEW e, \A i \in 1 .. 8 : e[i] \in Int
            PROVE  Shifted(e, <<24, 16, 8, 0>>) \in Seq(Int)
        <4>1. Shifted(e, <<24, 16, 8, 0>>) = <<e[5], e[6], e[7], e[8]>>
          BY FourShifted
        <4>2. e[5] \in Int /\ e[6] \in Int /\ e[7] \in Int /\ e[8] \in Int
          BY <3>3
        <4>3. <<e[5], e[6], e[7], e[8]>> \in Seq(Int)
          BY <4>2
        <4> QED
          BY <4>1, <4>3
      <3>4. high \in Seq(Int) /\ low \in Seq(Int)
        <4> DEFINE x == High(d)
                   y == Low(d)
        <4>1. (\A i \in 1 .. 8 : x[i] \in Int) /\ \A i \in 1 .. 8 : y[i] \in Int
          BY <3>2
        <4> HIDE DEF x, y
        <4>2. Shifted(x, <<24, 16, 8, 0>>) \in Seq(Int)
              /\ Shifted(y, <<24, 16, 8, 0>>) \in Seq(Int)
          BY <3>3, <4>1
        <4> QED
          BY <4>2 DEF x, y
      <3>5. <<b + 27>> \in Seq(Int)
        OBVIOUS
      <3> QED
        BY <3>4, <3>5
    <2> HIDE DEF high, low, b
    <2>3. (<<b + 27>> \o high) \o low = <<b + 27>> \o (high \o low)
      BY <2>2, ConcatAssociative
    <2> QED
      BY <2>1, <2>3
  <1>5. /\ Shifted(d, <<8, 0>>) = LowBytes(d, 2)
        /\ Shifted(d, <<24, 16, 8, 0>>) = LowBytes(d, 4)
    BY ShiftedIs
  <1> DEFINE h == WriteHead(m, d)
  <1> HIDE DEF high, low
  <1>6. /\ Fits(d, 1) /\ d[8] <= 23 => h = <<b + d[8]>>
        /\ Fits(d, 1) /\ d[8] > 23 => h = <<b + 24, d[8]>>
        /\ Fits(d, 2) /\ ~Fits(d, 1) => h = <<b + 25>> \o Shifted(d, <<8, 0>>)
        /\ Fits(d, 4) /\ ~Fits(d, 2) => h = <<b + 26>> \o Shifted(d, <<24, 16, 8, 0>>)
        /\ ~Fits(d, 4) => h = (<<b + 27>> \o high) \o low
    <2> DEFINE eight == (<<b + 27>> \o high) \o low
               c1 == Fits(d, 1) /\ d[8] <= 23
               c2 == Fits(d, 1) /\ d[8] > 23
               c3 == Fits(d, 2) /\ ~Fits(d, 1)
               c4 == Fits(d, 4) /\ ~Fits(d, 2)
               c5 == ~Fits(d, 4)
               x3 == <<b + 25>> \o Shifted(d, <<8, 0>>)
               x4 == <<b + 26>> \o Shifted(d, <<24, 16, 8, 0>>)
    <2>1. h = CASE c1 -> <<b + d[8]>> [] c2 -> <<b + 24, d[8]>> [] c3 -> x3 [] c4 -> x4
                [] c5 -> eight
      BY DEF WriteHead, Digits, high, low
    <2>2. ~(c1 /\ c2)
      BY <1>1
    <2> HIDE DEF h, eight, x3, x4
    <2>3. /\ c1 => h = <<b + d[8]>>
          /\ c2 => h = <<b + 24, d[8]>>
          /\ c3 => h = x3
          /\ c4 => h = x4
          /\ c5 => h = eight
      BY <1>1, <1>2, <2>1, <2>2
    <2> QED
      BY <2>3 DEF eight, x3, x4
  <1> HIDE DEF h
  <1> QED
    BY <1>1, <1>2, <1>3, <1>4, <1>5, <1>6 DEF HeadCases, h

LEMMA HeadOfMany ==
  ASSUME NEW m \in 0 .. 7, NEW d \in EightBytes, NEW v \in 24 .. 27, NEW k \in {1, 2, 4, 8},
         Follow(v) = k, Fits(d, k)
  PROVE  IsHead(<<32 * m + v>> \o LowBytes(d, k), m, d, v)
  <1> DEFINE c == 32 * m + v
             h == <<c>> \o LowBytes(d, k)
  <1>1. c \in Byte /\ v \in 0 .. 27 /\ ~(v <= 23)
    BY DEF Byte
  <1> HIDE DEF c
  <1>2. Following(h, d, k, c)
    BY <1>1, FollowedBy
  <1> HIDE DEF h
  <1>3. IsHead(h, m, d, v)
    BY <1>1, <1>2 DEF IsHead, Following, c
  <1> QED
    BY <1>3 DEF h, c

LEMMA HeadOfOne ==
  ASSUME NEW m \in 0 .. 7, NEW d \in EightBytes, Fits(d, 1), d[8] <= 23
  PROVE  d[8] \in 0 .. 27 /\ IsHead(<<32 * m + d[8]>>, m, d, d[8])
  <1>1. PICK v \in 0 .. 255 : v = d[8]
    BY FitsMore DEF Byte
  <1> DEFINE c == 32 * m + v
             h == <<c>>
  <1>2. v <= 23 /\ ~(v > 23) /\ v \in 0 .. 27 /\ c \in Byte
    BY <1>1 DEF Byte
  <1> HIDE DEF c
  <1>3. h \in Seq(Byte) /\ Len(h) = 1 /\ h[1] = c
    BY <1>2
  <1> HIDE DEF h
  <1>4. IsHead(h, m, d, v)
    BY <1>1, <1>2, <1>3 DEF IsHead, Follow, c
  <1> QED
    BY <1>1, <1>2, <1>4 DEF h, c

LEMMA WrittenHead ==
  ASSUME NEW m \in 0 .. 7, NEW d \in EightBytes
  PROVE  \E v \in 0 .. 27 : IsHead(WriteHead(m, d), m, d, v)
  <1> DEFINE h == WriteHead(m, d)
             b == 32 * m
  <1>1. Fits(d, 8) /\ (Fits(d, 1) => Fits(d, 2)) /\ (Fits(d, 2) => Fits(d, 4))
    BY FitsMore
  <1>2. \/ Fits(d, 1) /\ d[8] <= 23 /\ h = <<b + d[8]>>
        \/ Fits(d, 1) /\ d[8] > 23 /\ h = <<b + 24>> \o LowBytes(d, 1)
        \/ Fits(d, 2) /\ ~Fits(d, 1) /\ h = <<b + 25>> \o LowBytes(d, 2)
        \/ Fits(d, 4) /\ ~Fits(d, 2) /\ h = <<b + 26>> \o LowBytes(d, 4)
        \/ ~Fits(d, 4) /\ h = <<b + 27>> \o LowBytes(d, 8)
    BY HeadIs DEF HeadCases
  <1>3. Follow(24) = 1 /\ Follow(25) = 2 /\ Follow(26) = 4 /\ Follow(27) = 8
    BY DEF Follow
  <1>4. /\ Fits(d, 1) => IsHead(<<b + 24>> \o LowBytes(d, 1), m, d, 24)
        /\ Fits(d, 2) => IsHead(<<b + 25>> \o LowBytes(d, 2), m, d, 25)
        /\ Fits(d, 4) => IsHead(<<b + 26>> \o LowBytes(d, 4), m, d, 26)
        /\ IsHead(<<b + 27>> \o LowBytes(d, 8), m, d, 27)
    <2>1. Fits(d, 1) => IsHead(<<b + 24>> \o LowBytes(d, 1), m, d, 24)
      BY <1>3, HeadOfMany
    <2>2. Fits(d, 2) => IsHead(<<b + 25>> \o LowBytes(d, 2), m, d, 25)
      BY <1>3, HeadOfMany
    <2>3. Fits(d, 4) => IsHead(<<b + 26>> \o LowBytes(d, 4), m, d, 26)
      BY <1>3, HeadOfMany
    <2>4. IsHead(<<b + 27>> \o LowBytes(d, 8), m, d, 27)
      BY <1>1, <1>3, HeadOfMany
    <2> QED
      BY <2>1, <2>2, <2>3, <2>4
  <1>5. Fits(d, 1) /\ d[8] <= 23 => d[8] \in 0 .. 27 /\ IsHead(<<b + d[8]>>, m, d, d[8])
    BY HeadOfOne
  <1> HIDE DEF h, b
  <1>6. 24 \in 0 .. 27 /\ 25 \in 0 .. 27 /\ 26 \in 0 .. 27 /\ 27 \in 0 .. 27
    OBVIOUS
  <1>7. \E v \in 0 .. 27 : IsHead(h, m, d, v)
    BY <1>2, <1>4, <1>5, <1>6, Zenon
  <1> QED
    BY <1>7 DEF h

\* Two sequences that go on from parts of one length.
LEMMA SplitAlike ==
  ASSUME NEW S, NEW a \in Seq(S), NEW b \in Seq(S), NEW s \in Seq(S), NEW t \in Seq(S),
         Len(a) = Len(b), a \o s = b \o t
  PROVE  a = b /\ s = t
  <1> DEFINE n == Len(a)
             u == a \o s
  <1>1. /\ n \in Nat /\ Len(s) \in Nat /\ Len(t) \in Nat
        /\ Len(u) = n + Len(s) /\ Len(u) = n + Len(t)
        /\ \A i \in 1 .. n + Len(s) : u[i] = IF i <= n THEN a[i] ELSE s[i - n]
        /\ \A i \in 1 .. n + Len(t) : u[i] = IF i <= n THEN b[i] ELSE t[i - n]
    BY ConcatProperties
  <1>2. a = [i \in 1 .. n |-> a[i]] /\ b = [i \in 1 .. n |-> b[i]]
        /\ s = [i \in 1 .. Len(s) |-> s[i]] /\ t = [i \in 1 .. Len(t) |-> t[i]]
    OBVIOUS
  <1> DEFINE k == Len(s)
  <1> HIDE DEF n, u
  <1>3. Len(t) = k /\ k \in Nat
    BY <1>1
  <1>4. \A i \in 1 .. n : a[i] = b[i]
    <2> TAKE i \in 1 .. n
    <2>1. i \in 1 .. n + Len(s) /\ i \in 1 .. n + Len(t) /\ i <= n
      BY <1>1
    <2> QED
      BY <1>1, <2>1
  <1>5. \A i \in 1 .. k : s[i] = t[i]
    <2> TAKE i \in 1 .. k
    <2>1. n + i \in 1 .. n + Len(s) /\ n + i \in 1 .. n + Len(t) /\ ~(n + i <= n)
          /\ (n + i) - n = i
      BY <1>1, <1>3 DEF k
    <2> QED
      BY <1>1, <2>1
  <1> QED
    BY <1>2, <1>3, <1>4, <1>5 DEF k

\* Two codes that start with heads tell the same of them.
Tells(m, n, d, e, s, t) ==
    WriteHead(m, d) \o s = WriteHead(n, e) \o t => m = n /\ d = e /\ s = t

\* What writeHead writes, read before whatever bytes follow, says of which type it is,
\* which number it holds and where it ends, for all 64-bit numbers: no head begins
\* another, and a length cannot be taken for a longer one.
THEOREM HeadsTell ==
  ASSUME NEW m \in 0 .. 7, NEW n \in 0 .. 7, NEW d \in EightBytes, NEW e \in EightBytes,
         NEW s \in Seq(Byte), NEW t \in Seq(Byte)
  PROVE  Tells(m, n, d, e, s, t)
  <1> SUFFICES ASSUME WriteHead(m, d) \o s = WriteHead(n, e) \o t
               PROVE  m = n /\ d = e /\ s = t
    BY DEF Tells
  <1>1. PICK v \in 0 .. 27 : IsHead(WriteHead(m, d), m, d, v)
    BY WrittenHead
  <1>2. PICK w \in 0 .. 27 : IsHead(WriteHead(n, e), n, e, w)
    BY WrittenHead
  <1> DEFINE g == WriteHead(m, d)
             h == WriteHead(n, e)
  <1>3. g \o s = h \o t /\ IsHead(g, m, d, v) /\ IsHead(h, n, e, w)
    BY <1>1, <1>2
  <1> HIDE DEF g, h
  <1>4. /\ g \in Seq(Byte) /\ h \in Seq(Byte) /\ Len(g) = 1 + Follow(v)
        /\ Len(h) = 1 + Follow(w) /\ g[1] = 32 * m + v /\ h[1] = 32 * n + w
    BY <1>3 DEF IsHead
  <1>5. Follow(v) \in Nat /\ Follow(w) \in Nat
    BY DEF Follow
  <1>6. m = n /\ v = w
    <2>1. (g \o s)[1] = g[1]
      <3>1. 1 \in 1 .. Len(g) + Len(s) /\ 1 <= Len(g)
        BY <1>4, <1>5, LenProperties
      <3> QED
        BY <1>4, <3>1, ConcatProperties
    <2>2. (h \o t)[1] = h[1]
      <3>1. 1 \in 1 .. Len(h) + Len(t) /\ 1 <= Len(h)
        BY <1>4, <1>5, LenProperties
      <3> QED
        BY <1>4, <3>1, ConcatProperties
    <2>3. 32 * m + v = 32 * n + w
      BY <1>3, <1>4, <2>1, <2>2
    <2> QED
      BY <2>3
  <1>7. g = h /\ s = t
    BY <1>3, <1>4, <1>6, SplitAlike
  <1>8. d = e
    <2>1. \A i \in 1 .. 8 : d[i] = e[i]
      <3> SUFFICES ASSUME NEW i \in 1 .. 8 PROVE d[i] = e[i]
        OBVIOUS
      <3> DEFINE k == Follow(v)
      <3>1. k \in 0 .. 8
        BY DEF Follow
      <3>2. CASE v <= 23
        <4>1. Fits(d, 1) /\ d[8] = v /\ Fits(e, 1) /\ e[8] = v
          BY <1>3, <1>6, <3>2 DEF IsHead
        <4>2. i = 8 \/ i \in 1 .. 8 - 1
          OBVIOUS
        <4> QED
          BY <4>1, <4>2 DEF Fits, Digits
      <3>3. CASE v > 23
        <4>1. /\ Fits(d, k) /\ \A j \in 1 .. k : g[1 + j] = d[8 - k + j]
              /\ Fits(e, k) /\ \A j \in 1 .. k : g[1 + j] = e[8 - k + j]
          BY <1>3, <1>6, <1>7, <3>3 DEF IsHead
        <4> HIDE DEF k
        <4>2. CASE i \in 1 .. 8 - k
          BY <4>1, <4>2 DEF Fits, Digits
        <4>3. CASE i \notin 1 .. 8 - k
          <5>1. i - (8 - k) \in 1 .. k /\ 8 - k + (i - (8 - k)) = i
            BY <3>1, <4>3
          <5> QED
            BY <4>1, <5>1
        <4> QED
          BY <4>2, <4>3
      <3> QED
        BY <3>2, <3>3
    <2>2. d \in Seq(Byte) /\ e \in Seq(Byte) /\ Len(d) = 8 /\ Len(e) = 8
      BY DEF EightBytes
    <2> QED
      BY <2>1, <2>2, SeqEqual
  <1> QED
    BY <1>6, <1>7, <1>8


--------------------------------------------------------------------------------
(* Lengths *)

Lengths == {n \in Nat : n < 256 * 16777216}

LEMMA NumberIs ==
  ASSUME NEW n \in Lengths
  PROVE  \E a, b, c, e \in Byte :
            /\ Number(n) = <<0, 0, 0, 0, a, b, c, e>>
            /\ n = 16777216 * a + 65536 * b + 256 * c + e
  <1> DEFINE a == n \div 16777216
             b == (n \div 65536) % 256
             c == (n \div 256) % 256
             e == n % 256
  <1>1. a \in Byte
    BY SMT DEF Byte, Lengths
  <1>2. b \in Byte
    BY SMT DEF Byte, Lengths
  <1>3. c \in Byte
    BY SMT DEF Byte, Lengths
  <1>4. e \in Byte
    BY SMT DEF Byte, Lengths
  <1>5. PICK p \in Nat, q \in Nat : p = n \div 256 /\ q = n \div 65536
    BY SMT DEF Lengths
  <1>6. n = 256 * p + e
    BY <1>5, SMT DEF Lengths
  <1>7. p = 256 * q + c
    BY <1>5, SMT DEF Lengths
  <1>8. q = 256 * a + b
    BY <1>5, SMT DEF Lengths
  <1>9. Number(n) = <<0, 0, 0, 0, a, b, c, e>>
    BY SMT DEF Number
  <1> HIDE DEF a, b, c, e
  <1>10. n = 16777216 * a + 65536 * b + 256 * c + e
    BY <1>1, <1>2, <1>3, <1>4, <1>5, <1>6, <1>7, <1>8 DEF Byte
  <1> QED
    BY <1>1, <1>2, <1>3, <1>4, <1>9, <1>10, SMT

LEMMA NumberFits ==
  ASSUME NEW n \in Lengths
  PROVE  /\ Number(n) \in EightBytes
         /\ Fits(Number(n), 1) <=> n <= 255
         /\ Fits(Number(n), 2) <=> n <= 65535
         /\ Fits(Number(n), 4)
         /\ n <= 255 => Number(n)[8] = n
         /\ \A i \in 1 .. 4 : Number(n)[i] = 0
  <1>1. PICK a, b, c, e \in Byte :
            /\ Number(n) = <<0, 0, 0, 0, a, b, c, e>>
            /\ n = 16777216 * a + 65536 * b + 256 * c + e
    BY NumberIs, SMT
  <1> DEFINE d == Number(n)
  <1>2. /\ d \in Seq(Byte) /\ Len(d) = 8
        /\ d[1] = 0 /\ d[2] = 0 /\ d[3] = 0 /\ d[4] = 0 /\ d[5] = a /\ d[6] = b /\ d[7] = c
        /\ d[8] = e
    <2>1. 0 \in Byte
      BY DEF Byte
    <2> QED
      BY <1>1, <2>1
  <1> HIDE DEF d
  <1>3. Fits(d, 1) <=> a = 0 /\ b = 0 /\ c = 0
    <2>1. 1 .. 8 - 1 = {1, 2, 3, 4, 5, 6, 7}
      OBVIOUS
    <2> QED
      BY <1>2, <2>1 DEF Fits, Digits
  <1>4. Fits(d, 2) <=> a = 0 /\ b = 0
    <2>1. 1 .. 8 - 2 = {1, 2, 3, 4, 5, 6}
      OBVIOUS
    <2> QED
      BY <1>2, <2>1 DEF Fits, Digits
  <1>5. Fits(d, 4) /\ \A i \in 1 .. 4 : d[i] = 0
    <2>1. 1 .. 8 - 4 = {1, 2, 3, 4} /\ 1 .. 4 = {1, 2, 3, 4}
      OBVIOUS
    <2> QED
      BY <1>2, <2>1 DEF Fits, Digits
  <1>6. a = 0 /\ b = 0 /\ c = 0 <=> n <= 255
    BY <1>1, SMT DEF Byte, Lengths
  <1>7. a = 0 /\ b = 0 <=> n <= 65535
    BY <1>1, SMT DEF Byte, Lengths
  <1>8. n <= 255 => d[8] = n
    BY <1>1, <1>2, <1>6, SMT DEF Byte, Lengths
  <1> QED
    BY <1>2, <1>3, <1>4, <1>5, <1>6, <1>7, <1>8 DEF EightBytes, d

\* The bytes of a smaller number come first, read from the most significant one.
LEMMA NumberAscends ==
  ASSUME NEW m \in Lengths, NEW n \in Lengths, m < n
  PROVE  \E i \in 1 .. 8 : /\ Number(m)[i] < Number(n)[i]
                           /\ \A j \in 1 .. i - 1 : Number(m)[j] = Number(n)[j]
  <1>1. PICK a, b, c, e \in Byte :
            /\ Number(m) = <<0, 0, 0, 0, a, b, c, e>>
            /\ m = 16777216 * a + 65536 * b + 256 * c + e
    BY NumberIs, SMT
  <1>2. PICK p, q, r, s \in Byte :
            /\ Number(n) = <<0, 0, 0, 0, p, q, r, s>>
            /\ n = 16777216 * p + 65536 * q + 256 * r + s
    BY NumberIs, SMT
  <1> DEFINE d == Number(m)
             f == Number(n)
  <1>3. /\ d[1] = f[1] /\ d[2] = f[2] /\ d[3] = f[3] /\ d[4] = f[4]
        /\ d[5] = a /\ d[6] = b /\ d[7] = c /\ d[8] = e
        /\ f[5] = p /\ f[6] = q /\ f[7] = r /\ f[8] = s
    BY <1>1, <1>2
  <1> HIDE DEF d, f
  <1>4. \/ a < p
        \/ a = p /\ b < q
        \/ a = p /\ b = q /\ c < r
        \/ a = p /\ b = q /\ c = r /\ e < s
    BY <1>1, <1>2, SMT DEF Byte, Lengths
  <1>5. /\ 1 .. 5 - 1 = {1, 2, 3, 4} /\ 1 .. 6 - 1 = {1, 2, 3, 4, 5}
        /\ 1 .. 7 - 1 = {1, 2, 3, 4, 5, 6} /\ 1 .. 8 - 1 = {1, 2, 3, 4, 5, 6, 7}
        /\ 5 \in 1 .. 8 /\ 6 \in 1 .. 8 /\ 7 \in 1 .. 8 /\ 8 \in 1 .. 8
    OBVIOUS
  <1> DEFINE At(i) == d[i] < f[i] /\ \A j \in 1 .. i - 1 : d[j] = f[j]
  <1>6. a < p => At(5)
    BY <1>3, <1>5
  <1>7. a = p /\ b < q => At(6)
    BY <1>3, <1>5
  <1>8. a = p /\ b = q /\ c < r => At(7)
    BY <1>3, <1>5
  <1>9. a = p /\ b = q /\ c = r /\ e < s => At(8)
    BY <1>3, <1>5
  <1>10. \E i \in 1 .. 8 : At(i)
    BY <1>4, <1>5, <1>6, <1>7, <1>8, <1>9
  <1> QED
    BY <1>10 DEF d, f


--------------------------------------------------------------------------------
(* Keys *)

\* The number in the first byte of the head of a string of n bytes.
FirstOf(n) == IF n <= 23 THEN n ELSE IF n <= 255 THEN 24 ELSE IF n <= 65535 THEN 25 ELSE 26

LEMMA LengthHead ==
  ASSUME NEW n \in Lengths
  PROVE  /\ FirstOf(n) \in 0 .. 27
         /\ IsHead(WriteHead(3, Number(n)), 3, Number(n), FirstOf(n))
  <1> DEFINE d == Number(n)
             m == 3
             h == WriteHead(m, d)
  <1>1. /\ d \in EightBytes /\ Fits(d, 4)
        /\ Fits(d, 1) <=> n <= 255
        /\ Fits(d, 2) <=> n <= 65535
        /\ n <= 255 => d[8] = n
    BY NumberFits
  <1>2. n \in Nat
    BY SMT DEF Lengths
  <1> HIDE DEF d
  <1>3. m \in 0 .. 7
    OBVIOUS
  <1> HIDE DEF m
  <1>10. HeadCases(h, m, d)
    BY <1>1, <1>3, HeadIs
  <1>4. \/ Fits(d, 1) /\ d[8] <= 23 /\ h = <<32 * m + d[8]>>
        \/ Fits(d, 1) /\ d[8] > 23 /\ h = <<32 * m + 24>> \o LowBytes(d, 1)
        \/ Fits(d, 2) /\ ~Fits(d, 1) /\ h = <<32 * m + 25>> \o LowBytes(d, 2)
        \/ Fits(d, 4) /\ ~Fits(d, 2) /\ h = <<32 * m + 26>> \o LowBytes(d, 4)
    <2>1. Fits(d, 4)
      BY <1>1
    <2> QED
      BY <1>10, <2>1, Zenon DEF HeadCases
  <1>5. Follow(24) = 1 /\ Follow(25) = 2 /\ Follow(26) = 4
    BY DEF Follow
  <1> HIDE DEF h
  <1>6. CASE n <= 23
    <2>1. FirstOf(n) = d[8] /\ d[8] <= 23 /\ ~(d[8] > 23) /\ Fits(d, 1) /\ Fits(d, 2)
      BY <1>1, <1>2, <1>6 DEF FirstOf
    <2>2. d[8] \in 0 .. 27 /\ IsHead(<<32 * m + d[8]>>, m, d, d[8])
      BY <1>1, <1>3, <2>1, HeadOfOne
    <2>3. h = <<32 * m + d[8]>>
      BY <1>4, <2>1
    <2> QED
      BY <2>1, <2>2, <2>3 DEF h, d, m
  <1>7. CASE ~(n <= 23) /\ n <= 255
    <2>1. FirstOf(n) = 24 /\ ~(d[8] <= 23) /\ Fits(d, 1) /\ Fits(d, 2)
      BY <1>1, <1>2, <1>7 DEF FirstOf
    <2>2. IsHead(<<32 * m + 24>> \o LowBytes(d, 1), m, d, 24)
      BY <1>1, <1>3, <1>5, <2>1, HeadOfMany
    <2>3. h = <<32 * m + 24>> \o LowBytes(d, 1)
      BY <1>4, <2>1
    <2>4. IsHead(h, m, d, 24)
      BY <2>2, <2>3
    <2> QED
      BY <2>1, <2>4 DEF h, d, m
  <1>8. CASE ~(n <= 255) /\ n <= 65535
    <2>1. FirstOf(n) = 25 /\ ~Fits(d, 1) /\ Fits(d, 2)
      BY <1>1, <1>2, <1>8 DEF FirstOf
    <2>2. IsHead(<<32 * m + 25>> \o LowBytes(d, 2), m, d, 25)
      BY <1>1, <1>3, <1>5, <2>1, HeadOfMany
    <2>3. h = <<32 * m + 25>> \o LowBytes(d, 2)
      BY <1>4, <2>1
    <2>4. IsHead(h, m, d, 25)
      BY <2>2, <2>3
    <2> QED
      BY <2>1, <2>4 DEF h, d, m
  <1>9. CASE ~(n <= 65535)
    <2>1. FirstOf(n) = 26 /\ ~Fits(d, 1) /\ ~Fits(d, 2)
      BY <1>1, <1>2, <1>9 DEF FirstOf
    <2>2. IsHead(<<32 * m + 26>> \o LowBytes(d, 4), m, d, 26)
      BY <1>1, <1>3, <1>5, HeadOfMany
    <2>3. h = <<32 * m + 26>> \o LowBytes(d, 4)
      BY <1>4, <2>1
    <2>4. IsHead(h, m, d, 26)
      BY <2>2, <2>3
    <2> QED
      BY <2>1, <2>4 DEF h, d, m
  <1> QED
    BY <1>6, <1>7, <1>8, <1>9

\* The keys the encoder is given: strings whose length 32 bits hold.
Key == {k \in Seq(Byte) : Len(k) \in Lengths}

LEMMA KeyIs ==
  ASSUME NEW k \in Key
  PROVE  LET n == Len(k)
             h == WriteHead(3, Number(n))
         IN  /\ EncodedKey(k) = h \o k /\ EncodedKey(k) \in Seq(Byte)
             /\ Len(EncodedKey(k)) = 1 + Follow(FirstOf(n)) + n
             /\ \A i \in 1 .. 1 + Follow(FirstOf(n)) : EncodedKey(k)[i] = h[i]
  <1> DEFINE n == Len(k)
             h == WriteHead(3, Number(n))
             f == Follow(FirstOf(n))
  <1>1. n \in Lengths /\ k \in Seq(Byte) /\ n \in Nat
    BY DEF Key
  <1>2. EncodedKey(k) = h \o k
    BY DEF EncodedKey, WriteString, Major
  <1>3. h \in Seq(Byte) /\ Len(h) = 1 + f
    BY <1>1, LengthHead DEF IsHead
  <1>4. f \in Nat
    BY DEF Follow
  <1> HIDE DEF h, f
  <1>5. /\ h \o k \in Seq(Byte) /\ Len(h \o k) = (1 + f) + n
        /\ \A i \in 1 .. (1 + f) + n : (h \o k)[i] = IF i <= 1 + f THEN h[i] ELSE k[i - (1 + f)]
    <2>1. /\ h \o k \in Seq(Byte) /\ Len(h \o k) = Len(h) + Len(k)
          /\ \A i \in 1 .. Len(h) + Len(k) :
                (h \o k)[i] = IF i <= Len(h) THEN h[i] ELSE k[i - Len(h)]
      BY <1>1, <1>3, ConcatProperties
    <2> QED
      BY <1>3, <2>1
  <1> HIDE DEF n
  <1>6. \A i \in 1 .. 1 + f : (h \o k)[i] = h[i]
    <2> TAKE i \in 1 .. 1 + f
    <2>1. i \in 1 .. (1 + f) + n /\ i <= 1 + f
      BY <1>1, <1>4
    <2> QED
      BY <1>5, <2>1
  <1> QED
    BY <1>2, <1>5, <1>6 DEF n, h, f

\* Different keys are encoded differently.
LEMMA KeysDiffer ==
  ASSUME NEW k \in Key, NEW l \in Key, EncodedKey(k) = EncodedKey(l)
  PROVE  k = l
  <1> DEFINE d == Number(Len(k))
             e == Number(Len(l))
             m == 3
  <1>1. WriteHead(m, d) \o k = WriteHead(m, e) \o l
    BY KeyIs
  <1>2. d \in EightBytes /\ e \in EightBytes /\ k \in Seq(Byte) /\ l \in Seq(Byte) /\ m \in 0 .. 7
    BY NumberFits DEF Key
  <1> HIDE DEF d, e, m
  <1> QED
    <2>1. Tells(m, m, d, e, k, l)
      BY <1>2, HeadsTell
    <2> QED
      BY <1>1, <2>1 DEF Tells

LEMMA ByteNat == Byte \in SUBSET Nat
  BY DEF Byte

LEMMA BytesDiffer ==
  ASSUME NEW x \in Byte, NEW y \in Byte, x # y
  PROVE  x < y \/ y < x
  BY DEF Byte

LEMMA NatsDiffer ==
  ASSUME NEW x \in Nat, NEW y \in Nat, x # y
  PROVE  x < y \/ y < x
  OBVIOUS

LEMMA FollowGrows ==
  ASSUME NEW v \in 0 .. 27, NEW w \in 0 .. 27, w <= v
  PROVE  Follow(w) <= Follow(v)
  BY DEF Follow

\* A shorter key comes first byte by byte as well: its head tells its length.
LEMMA ShorterAscends ==
  ASSUME NEW k \in Key, NEW l \in Key, Len(EncodedKey(k)) < Len(EncodedKey(l))
  PROVE  Ascending(EncodedKey(k), EncodedKey(l))
  <1> DEFINE a == EncodedKey(k)
             b == EncodedKey(l)
             m == Len(k)
             n == Len(l)
             g == WriteHead(3, Number(m))
             h == WriteHead(3, Number(n))
             v == FirstOf(m)
             w == FirstOf(n)
             d == Number(m)
             e == Number(n)
  <1>1. /\ m \in Lengths /\ n \in Lengths /\ m \in Nat /\ n \in Nat
        /\ v \in 0 .. 27 /\ IsHead(g, 3, d, v)
        /\ w \in 0 .. 27 /\ IsHead(h, 3, e, w)
    BY LengthHead DEF Key
  <1>2. /\ Len(a) = 1 + Follow(v) + m /\ Len(b) = 1 + Follow(w) + n
        /\ \A i \in 1 .. 1 + Follow(v) : a[i] = g[i]
        /\ \A i \in 1 .. 1 + Follow(w) : b[i] = h[i]
    BY KeyIs
  <1>3. Follow(v) \in 0 .. 8 /\ Follow(w) \in 0 .. 8
    BY DEF Follow
  <1>4. a[1] = 96 + v /\ b[1] = 96 + w
    <2>1. 1 \in 1 .. 1 + Follow(v) /\ 1 \in 1 .. 1 + Follow(w)
      BY <1>3
    <2>2. g[1] = 32 * 3 + v /\ h[1] = 32 * 3 + w
      BY <1>1 DEF IsHead
    <2> QED
      BY <1>2, <2>1, <2>2
  <1>5. m < n /\ (v < w \/ (v = w /\ v > 23))
    <2>1. n <= m => w <= v
      BY <1>1 DEF FirstOf
    <2>2. w <= v => Follow(w) <= Follow(v)
      BY <1>1, FollowGrows
    <2>3. m < n
      <3> DEFINE p == Follow(v)
                 q == Follow(w)
      <3>1. 1 + p + m < 1 + q + n /\ p \in 0 .. 8 /\ q \in 0 .. 8 /\ (n <= m => q <= p)
        BY <1>2, <1>3, <2>1, <2>2
      <3> HIDE DEF p, q, m, n
      <3> QED
        BY <1>1, <3>1
    <2>4. m < n => v < w \/ (v = w /\ v > 23)
      BY <1>1 DEF FirstOf
    <2> QED
      BY <2>3, <2>4
  <1>6. Len(b) \in Nat /\ Len(b) >= 1 + Follow(w) /\ Len(a) \in Nat /\ Len(a) >= 1 + Follow(v)
    <2> DEFINE p == Follow(v)
               q == Follow(w)
    <2>1. p \in 0 .. 8 /\ q \in 0 .. 8 /\ Len(a) = 1 + p + m /\ Len(b) = 1 + q + n
      BY <1>2, <1>3
    <2> HIDE DEF p, q, m, n, a, b
    <2>2. Len(b) \in Nat /\ Len(b) >= 1 + q /\ Len(a) \in Nat /\ Len(a) >= 1 + p
      BY <1>1, <2>1
    <2> QED
      BY <2>2 DEF p, q
  <1> HIDE DEF a, b
  <1>7. CASE v < w
    <2>1. Len(b) \in Nat /\ Len(b) >= 1
      <3> DEFINE p == Follow(w)
                 x == Len(b)
      <3>1. p \in Nat /\ x \in Nat /\ x >= 1 + p
        BY <1>3, <1>6
      <3> HIDE DEF p, x
      <3>2. x >= 1
        BY <3>1
      <3> QED
        BY <1>6, <3>2 DEF x
    <2>2. a[1] < b[1]
      <3> HIDE DEF v, w
      <3>1. 96 + v < 96 + w
        BY <1>1, <1>7
      <3> QED
        BY <1>4, <3>1
    <2>3. 1 \in 1 .. Len(b) /\ a[1] < b[1] /\ 1 .. 1 - 1 = {}
      BY <2>1, <2>2
    <2> QED
      BY <2>3 DEF Ascending, a, b
  <1>8. CASE v = w /\ v > 23
    <2> DEFINE c == Follow(v)
    <2>1. /\ Fits(d, c) /\ \A j \in 1 .. c : g[1 + j] = d[8 - c + j]
          /\ Fits(e, c) /\ \A j \in 1 .. c : h[1 + j] = e[8 - c + j]
      BY <1>1, <1>8 DEF IsHead
    <2>2. PICK i \in 1 .. 8 : d[i] < e[i] /\ \A j \in 1 .. i - 1 : d[j] = e[j]
      BY <1>1, <1>5, NumberAscends
    <2>3. /\ c \in 0 .. 8 /\ c = Follow(w)
          /\ \A j \in 1 .. 1 + c : a[j] = g[j] /\ b[j] = h[j]
          /\ Len(b) \in Nat /\ Len(b) >= 1 + c /\ Len(a) \in Nat /\ Len(a) >= 1 + c
      BY <1>2, <1>3, <1>6, <1>8
    <2> HIDE DEF c, d, e, g, h
    <2>4. i \notin 1 .. 8 - c
      <3>1. ASSUME i \in 1 .. 8 - c PROVE FALSE
        <4>1. d[i] = 0 /\ e[i] = 0
          BY <2>1, <3>1 DEF Fits, Digits
        <4> QED
          BY <2>2, <4>1
      <3> QED
        BY <3>1
    <2>5. PICK j \in 1 .. c : 8 - c + j = i
      <3>1. c \in 0 .. 8 /\ i > 8 - c /\ i \in 1 .. 8
        BY <2>3, <2>4
      <3>2. i - (8 - c) \in 1 .. c /\ 8 - c + (i - (8 - c)) = i
        BY <3>1
      <3> QED
        BY <3>2
    <2>6. a[1 + j] < b[1 + j]
      <3>1. 1 + j \in 1 .. 1 + c
        BY <2>3
      <3>2. a[1 + j] = g[1 + j] /\ b[1 + j] = h[1 + j]
        BY <2>3, <3>1
      <3>3. g[1 + j] = d[i] /\ h[1 + j] = e[i]
        BY <2>1, <2>5
      <3> QED
        BY <2>2, <3>2, <3>3
    <2>7. ASSUME NEW r \in 1 .. (1 + j) - 1
          PROVE  r <= Len(a) /\ a[r] = b[r]
      <3>1. r \in 1 .. 1 + c /\ r <= Len(a)
        BY <2>3
      <3>2. CASE r = 1
        BY <1>4, <1>8, <3>1, <3>2
      <3>3. CASE r # 1
        <4>1. PICK q \in 1 .. c : r = 1 + q /\ q < j
          <5>1. r - 1 \in 1 .. c /\ r = 1 + (r - 1) /\ r - 1 < j
            BY <2>3, <3>3
          <5> QED
            BY <5>1
        <4>2. 8 - c + q \in 1 .. i - 1
          <5>1. c \in 0 .. 8 /\ q \in 1 .. c /\ j \in 1 .. c /\ q < j /\ i = 8 - c + j
            BY <2>3, <2>5, <4>1
          <5> QED
            BY <5>1
        <4>3. d[8 - c + q] = e[8 - c + q]
          BY <2>2, <4>2
        <4>4. g[1 + q] = d[8 - c + q] /\ h[1 + q] = e[8 - c + q]
          BY <2>1
        <4>5. a[r] = g[1 + q] /\ b[r] = h[1 + q]
          BY <2>3, <3>1, <4>1
        <4> QED
          BY <3>1, <4>3, <4>4, <4>5
      <3> QED
        BY <3>2, <3>3
    <2>8. 1 + j \in 1 .. Len(b)
      BY <2>3
    <2> QED
      BY <2>6, <2>7, <2>8 DEF Ascending, a, b
  <1> QED
    BY <1>5, <1>7, <1>8

LEMMA BeforeAscends ==
  ASSUME NEW k \in Key, NEW l \in Key, Before(EncodedKey(k), EncodedKey(l))
  PROVE  Ascending(EncodedKey(k), EncodedKey(l))
  <1> DEFINE a == EncodedKey(k)
             b == EncodedKey(l)
  <1>1. a \in Seq(Byte) /\ b \in Seq(Byte)
    BY KeyIs
  <1>2. CASE Len(a) < Len(b)
    BY <1>2, ShorterAscends
  <1> HIDE DEF a, b
  <1>3. CASE ~(Len(a) < Len(b))
    <2>1. /\ Len(a) = Len(b)
          /\ \E i \in DOMAIN a : a[i] < b[i] /\ \A j \in 1 .. i - 1 : a[j] = b[j]
      BY <1>3 DEF Before, a, b
    <2>2. PICK i \in DOMAIN a : a[i] < b[i] /\ \A j \in 1 .. i - 1 : a[j] = b[j]
      BY <2>1
    <2>3. i \in 1 .. Len(b) /\ \A j \in 1 .. i - 1 : j <= Len(a)
      BY <1>1, <2>1
    <2> QED
      BY <2>2, <2>3 DEF Ascending, a, b
  <1> QED
    BY <1>2, <1>3

\* The comparison of the encoder is a strict total order of the sequences of bytes.
LEMMA BeforeIrreflexive ==
  ASSUME NEW a \in Seq(Byte)
  PROVE  ~Before(a, a)
  <1>1. Len(a) \in Nat /\ DOMAIN a = 1 .. Len(a)
    OBVIOUS
  <1>2. \A i \in 1 .. Len(a) : a[i] \in Byte
    BY ElementOfSeq
  <1>3. \A x \in Byte : ~(x < x)
    BY DEF Byte
  <1>4. ~(Len(a) < Len(a))
    BY <1>1
  <1> QED
    BY <1>1, <1>2, <1>3, <1>4 DEF Before

LEMMA BeforeTransitive ==
  ASSUME NEW a \in Seq(Byte), NEW b \in Seq(Byte), NEW c \in Seq(Byte),
         Before(a, b), Before(b, c)
  PROVE  Before(a, c)
  <1>1. /\ Len(a) \in Nat /\ Len(b) \in Nat /\ Len(c) \in Nat
        /\ DOMAIN a = 1 .. Len(a) /\ DOMAIN b = 1 .. Len(b) /\ DOMAIN c = 1 .. Len(c)
    OBVIOUS
  <1>2. /\ \A i \in 1 .. Len(a) : a[i] \in Nat
        /\ \A i \in 1 .. Len(b) : b[i] \in Nat
        /\ \A i \in 1 .. Len(c) : c[i] \in Nat
    <2>1. /\ \A i \in 1 .. Len(a) : a[i] \in Byte
          /\ \A i \in 1 .. Len(b) : b[i] \in Byte
          /\ \A i \in 1 .. Len(c) : c[i] \in Byte
      BY ElementOfSeq
    <2> QED
      BY <2>1, ByteNat
  <1>3. CASE Len(a) < Len(b) \/ Len(b) < Len(c)
    <2> DEFINE p == Len(a)
               q == Len(b)
               r == Len(c)
    <2>1. (p < q \/ p = q) /\ (q < r \/ q = r) /\ (p < q \/ q < r)
      BY <1>3 DEF Before
    <2>2. p \in Nat /\ q \in Nat /\ r \in Nat
      BY <1>1
    <2> HIDE DEF p, q, r
    <2>3. p < r
      BY <2>1, <2>2
    <2> QED
      BY <2>3 DEF Before, p, r
  <1>4. CASE ~(Len(a) < Len(b) \/ Len(b) < Len(c))
    <2>1. Len(a) = Len(b) /\ Len(b) = Len(c)
      BY <1>4 DEF Before
    <2>2. PICK i \in 1 .. Len(a) : a[i] < b[i] /\ \A x \in 1 .. i - 1 : a[x] = b[x]
      BY <1>1, <1>4 DEF Before
    <2>3. PICK j \in 1 .. Len(a) : b[j] < c[j] /\ \A x \in 1 .. j - 1 : b[x] = c[x]
      BY <1>1, <1>4, <2>1 DEF Before
    <2>4. \E r \in 1 .. Len(a) : a[r] < c[r] /\ \A x \in 1 .. r - 1 : a[x] = c[x]
      <3>1. CASE i < j
        <4>1. i \in 1 .. j - 1 /\ \A x \in 1 .. i - 1 : x \in 1 .. j - 1
          BY <3>1
        <4>2. a[i] < c[i] /\ \A x \in 1 .. i - 1 : a[x] = c[x]
          BY <2>2, <2>3, <4>1
        <4> QED
          BY <4>2
      <3>2. CASE j < i
        <4>1. j \in 1 .. i - 1 /\ \A x \in 1 .. j - 1 : x \in 1 .. i - 1
          BY <3>2
        <4>2. a[j] < c[j] /\ \A x \in 1 .. j - 1 : a[x] = c[x]
          BY <2>2, <2>3, <4>1
        <4> QED
          BY <4>2
      <3>3. CASE i = j
        <4> DEFINE p == a[i]
                   q == b[i]
                   r == c[i]
        <4>1. p \in Nat /\ q \in Nat /\ r \in Nat /\ p < q /\ q < r
          BY <1>2, <2>1, <2>2, <2>3, <3>3
        <4> HIDE DEF p, q, r
        <4>2. p < r
          BY <4>1
        <4>3. a[i] < c[i] /\ \A x \in 1 .. i - 1 : a[x] = c[x]
          BY <2>2, <2>3, <3>3, <4>2 DEF p, r
        <4> QED
          BY <4>3
      <3> QED
        BY <1>1, <3>1, <3>2, <3>3
    <2> QED
      BY <1>1, <2>1, <2>4 DEF Before
  <1> QED
    BY <1>3, <1>4

LEMMA BeforeTotal ==
  ASSUME NEW a \in Seq(Byte), NEW b \in Seq(Byte), a # b
  PROVE  Before(a, b) \/ Before(b, a)
  <1>1. /\ Len(a) \in Nat /\ Len(b) \in Nat
        /\ DOMAIN a = 1 .. Len(a) /\ DOMAIN b = 1 .. Len(b)
    OBVIOUS
  <1>2. CASE Len(a) # Len(b)
    BY <1>1, <1>2, NatsDiffer DEF Before
  <1>3. CASE Len(a) = Len(b)
    <2> DEFINE D == {i \in 1 .. Len(a) : a[i] # b[i]}
    <2>1. D \in SUBSET Nat /\ D # {}
      <3>1. ASSUME D = {} PROVE FALSE
        <4>1. \A i \in 1 .. Len(a) : a[i] = b[i]
          BY <3>1
        <4> QED
          BY <1>3, <4>1, SeqEqual
      <3> QED
        BY <1>1, <3>1
    <2>2. PICK i \in D : \A j \in D : i <= j
      BY <2>1, LeastNat
    <2>3. i \in 1 .. Len(a) /\ a[i] # b[i] /\ \A j \in 1 .. i - 1 : a[j] = b[j]
      <3>1. ASSUME NEW j \in 1 .. i - 1 PROVE a[j] = b[j]
        <4>1. j \in 1 .. Len(a) /\ ~(i <= j)
          BY <1>1, <2>2
        <4> QED
          BY <2>2, <4>1
      <3> QED
        BY <2>2, <3>1
    <2> HIDE DEF D
    <2>4. a[i] < b[i] \/ b[i] < a[i]
      <3>1. a[i] \in Byte /\ b[i] \in Byte
        BY <1>3, <2>3, ElementOfSeq
      <3> QED
        BY <2>3, <3>1, BytesDiffer
    <2> QED
      BY <1>1, <1>3, <2>3, <2>4 DEF Before
  <1> QED
    BY <1>2, <1>3

\* The entries of an object: each has a key of its own.
Entries(s) ==
    /\ Indexed(s)
    /\ \A i \in 1 .. Len(s) : s[i].key \in Key
    /\ \A i, j \in 1 .. Len(s) : i # j => s[i].key # s[j].key

\* Sorting keeps the entries, and puts them in the order of their encoded keys.
LEMMA SortedEntries ==
  ASSUME NEW s, Entries(s)
  PROVE  /\ DOMAIN Sorted(s) = 1 .. Len(s)
         /\ \A k \in 1 .. Len(s) : \E i \in 1 .. Len(s) : Sorted(s)[k] = s[i]
         /\ \A i \in 1 .. Len(s) : \E k \in 1 .. Len(s) : Sorted(s)[k] = s[i]
         /\ \A k, l \in 1 .. Len(s) : k < l =>
               Before(EncodedKey(Sorted(s)[k].key), EncodedKey(Sorted(s)[l].key))
  <1> DEFINE n == Len(s)
             code(i) == EncodedKey(s[i].key)
             below == [i \in 1 .. n |-> {j \in 1 .. n : Before(code(j), code(i))}]
             place == [k \in 1 .. n |-> CHOOSE i \in 1 .. n : KeyRank(s, i) = k - 1]
             t == [k \in 1 .. n |-> s[place[k]]]
  <1>1. n \in Nat /\ DOMAIN s = 1 .. n
    BY DEF Entries, Indexed
  <1>2. /\ \A i \in 1 .. n : code(i) \in Seq(Byte)
        /\ \A i, j \in 1 .. n : i # j => code(i) # code(j)
    <2>1. \A i \in 1 .. n : code(i) \in Seq(Byte)
      BY KeyIs DEF Entries
    <2>2. \A i, j \in 1 .. n : i # j => code(i) # code(j)
      BY KeysDiffer DEF Entries
    <2> QED
      BY <2>1, <2>2
  <1>3. Sorted(s) = t
    BY <1>1 DEF Sorted
  <1>4. /\ below \in [1 .. n -> SUBSET (1 .. n)]
        /\ \A i, j \in 1 .. n : i \in below[j] <=> Before(code(i), code(j))
        /\ \A i \in 1 .. n : KeyRank(s, i) = Cardinality(below[i])
    <2>1. \A i \in 1 .. n : below[i] = {j \in 1 .. n : Before(code(j), code(i))}
      OBVIOUS
    <2>2. \A i \in 1 .. n : KeyRank(s, i) = Cardinality({j \in 1 .. n : Before(code(j), code(i))})
      BY <1>1 DEF KeyRank
    <2> QED
      BY <2>1, <2>2
  <1> HIDE DEF n, code, below
  <1>5. StrictOrder(n, below)
    <2>1. \A i \in 1 .. n : i \notin below[i]
      BY <1>2, <1>4, BeforeIrreflexive
    <2>2. \A i, j \in 1 .. n : i # j => i \in below[j] \/ j \in below[i]
      BY <1>2, <1>4, BeforeTotal
    <2>3. \A i, j \in 1 .. n : i \in below[j] => below[i] \subseteq below[j]
      <3> SUFFICES ASSUME NEW i \in 1 .. n, NEW j \in 1 .. n, i \in below[j],
                          NEW k \in below[i]
                   PROVE  k \in below[j]
        OBVIOUS
      <3>1. k \in 1 .. n
        BY <1>4
      <3>2. Before(code(k), code(i)) /\ Before(code(i), code(j))
        BY <1>4, <3>1
      <3>3. Before(code(k), code(j))
        BY <1>2, <3>1, <3>2, BeforeTransitive
      <3> QED
        BY <1>4, <3>1, <3>3
    <2> QED
      BY <1>4, <2>1, <2>2, <2>3 DEF StrictOrder
  <1>6. /\ \A k, l \in 1 .. n : k < l => place[k] \in below[place[l]]
        /\ 1 .. n \subseteq {place[k] : k \in 1 .. n}
        /\ \A k \in 1 .. n : place[k] \in 1 .. n /\ t[k] = s[place[k]]
    <2>1. \A k \in 1 .. n : \E i \in 1 .. n : Cardinality(below[i]) = k - 1
      BY <1>1, <1>5, Ranking
    <2>2. \A k \in 1 .. n : \E i \in 1 .. n : KeyRank(s, i) = k - 1
      BY <1>4, <2>1
    <2>3. \A k \in 1 .. n : place[k] \in 1 .. n /\ KeyRank(s, place[k]) = k - 1
      BY <2>2
    <2>4. place \in [1 .. n -> 1 .. n] /\ \A k \in 1 .. n : Cardinality(below[place[k]]) = k - 1
      BY <1>4, <2>3
    <2>5. \A k \in 1 .. n : t[k] = s[place[k]]
      OBVIOUS
    <2> HIDE DEF place, t
    <2>6. /\ \A k, l \in 1 .. n : k < l => place[k] \in below[place[l]]
          /\ 1 .. n \subseteq {place[k] : k \in 1 .. n}
      BY <1>1, <1>5, <2>4, Placing
    <2> QED
      BY <2>4, <2>5, <2>6
  <1>7. DOMAIN t = 1 .. n
    OBVIOUS
  <1> HIDE DEF place, t
  <1>8. \A k, l \in 1 .. n : k < l => Before(EncodedKey(t[k].key), EncodedKey(t[l].key))
    <2> SUFFICES ASSUME NEW k \in 1 .. n, NEW l \in 1 .. n, k < l
                 PROVE  Before(EncodedKey(t[k].key), EncodedKey(t[l].key))
      OBVIOUS
    <2>1. Before(code(place[k]), code(place[l]))
      BY <1>4, <1>6
    <2> QED
      BY <1>6, <2>1 DEF code
  <1> QED
    BY <1>3, <1>6, <1>7, <1>8 DEF n

\* The sort of encodeItem, by the length of the encoded keys first, puts any number
\* of entries with keys of any bytes in the ascending order of the bytes as well,
\* since a key's head tells its length: whichever of the two cbor2 sorts by, the
\* browser encodes the same.
THEOREM EntriesAscend ==
  ASSUME NEW s, Entries(s)
  PROVE  \A i, j \in DOMAIN Sorted(s) : i < j =>
            Ascending(EncodedKey(Sorted(s)[i].key), EncodedKey(Sorted(s)[j].key))
  <1> DEFINE t == Sorted(s)
             n == Len(s)
  <1>1. /\ DOMAIN t = 1 .. n
        /\ \A k \in 1 .. n : \E i \in 1 .. n : t[k] = s[i]
        /\ \A k, l \in 1 .. n : k < l => Before(EncodedKey(t[k].key), EncodedKey(t[l].key))
    BY SortedEntries
  <1> HIDE DEF t
  <1>2. \A k \in 1 .. n : t[k].key \in Key
    BY <1>1 DEF Entries
  <1>3. \A i, j \in DOMAIN t : i < j => Ascending(EncodedKey(t[i].key), EncodedKey(t[j].key))
    BY <1>1, <1>2, BeforeAscends
  <1> QED
    BY <1>3 DEF t

--------------------------------------------------------------------------------
(* The shortest heads *)

\* The heads that CBOR allows, one kind at a time.
ShortHead(m, d, h) == \E n \in 0 .. 23 : Number(n) = d /\ h = <<32 * m + n>>
LongHead(m, d, h, k, w) == Fits(d, w) /\ h = <<32 * m + 23 + k>> \o LowBytes(d, w)

LEMMA HeadsAre ==
  ASSUME NEW m, NEW d, NEW h
  PROVE  h \in Heads(m, d) <=> \/ ShortHead(m, d, h)
                               \/ LongHead(m, d, h, 1, 1) \/ LongHead(m, d, h, 2, 2)
                               \/ LongHead(m, d, h, 3, 4) \/ LongHead(m, d, h, 4, 8)
  <1> DEFINE short(n) == <<32 * m + n>>
             long(k) == <<32 * m + 23 + k>> \o LowBytes(d, Widths[k])
  <1>1. Heads(m, d) = {short(n) : n \in {n \in 0 .. 23 : Number(n) = d}}
                      \cup {long(k) : k \in {e \in 1 .. 4 : Fits(d, Widths[e])}}
    BY DEF Heads
  <1> HIDE DEF short, long
  <1>2. h \in Heads(m, d) <=> \/ \E n \in 0 .. 23 : Number(n) = d /\ h = short(n)
                              \/ \E k \in 1 .. 4 : Fits(d, Widths[k]) /\ h = long(k)
    BY <1>1
  <1>3. 1 .. 4 = {1, 2, 3, 4}
    OBVIOUS
  <1>4. Widths[1] = 1 /\ Widths[2] = 2 /\ Widths[3] = 4 /\ Widths[4] = 8
    BY DEF Widths
  <1>5. (\E n \in 0 .. 23 : Number(n) = d /\ h = short(n)) <=> ShortHead(m, d, h)
    BY DEF ShortHead, short
  <1>6. /\ Fits(d, Widths[1]) /\ h = long(1) <=> LongHead(m, d, h, 1, 1)
        /\ Fits(d, Widths[2]) /\ h = long(2) <=> LongHead(m, d, h, 2, 2)
        /\ Fits(d, Widths[3]) /\ h = long(3) <=> LongHead(m, d, h, 3, 4)
        /\ Fits(d, Widths[4]) /\ h = long(4) <=> LongHead(m, d, h, 4, 8)
    BY <1>4 DEF LongHead, long
  <1> QED
    BY <1>2, <1>3, <1>5, <1>6

LEMMA LongLength ==
  ASSUME NEW m \in 0 .. 7, NEW d \in EightBytes, NEW k \in 1 .. 4, NEW w \in {1, 2, 4, 8},
         NEW h, LongHead(m, d, h, k, w)
  PROVE  Len(h) = 1 + w
  <1> DEFINE c == 32 * m + 23 + k
  <1>1. c \in Byte
    BY DEF Byte
  <1>2. h = <<c>> \o LowBytes(d, w)
    BY DEF LongHead
  <1> HIDE DEF c
  <1>3. Following(<<c>> \o LowBytes(d, w), d, w, c)
    BY <1>1, FollowedBy
  <1> QED
    BY <1>2, <1>3 DEF Following

LEMMA SmallNumber ==
  ASSUME NEW d \in EightBytes, Fits(d, 1), d[8] <= 23
  PROVE  d[8] \in 0 .. 23 /\ Number(d[8]) = d
  <1> DEFINE n == d[8]
             e == Number(n)
  <1>1. n \in 0 .. 23
    BY FitsMore DEF Byte
  <1> HIDE DEF n
  <1>2. n \in Lengths /\ n <= 255
    BY <1>1, SMT DEF Lengths
  <1>3. e \in EightBytes /\ Fits(e, 1) /\ e[8] = n
    BY <1>2, NumberFits
  <1> HIDE DEF e
  <1>4. \A i \in 1 .. 8 : i \in 1 .. 8 - 1 \/ i = 8
    OBVIOUS
  <1>5. \A i \in 1 .. 8 - 1 : e[i] = 0 /\ d[i] = 0
    BY <1>3 DEF Fits, Digits
  <1>6. \A i \in 1 .. 8 : e[i] = d[i]
    BY <1>3, <1>4, <1>5 DEF n
  <1>7. e = d
    BY <1>3, <1>6, SeqEqual DEF EightBytes
  <1> QED
    BY <1>1, <1>7 DEF n, e

\* For every major type and every 64-bit number, writeHead writes one of the heads
\* that CBOR allows, and none of those is shorter.
THEOREM HeadsShortest ==
  ASSUME NEW m \in 0 .. 7, NEW d \in EightBytes
  PROVE  /\ WriteHead(m, d) \in Heads(m, d)
         /\ \A h \in Heads(m, d) : Len(WriteHead(m, d)) <= Len(h)
  <1> DEFINE g == WriteHead(m, d)
  <1>1. HeadCases(g, m, d)
    BY HeadIs
  <1> HIDE DEF g
  <1>2. (Fits(d, 1) => Fits(d, 2)) /\ (Fits(d, 2) => Fits(d, 4)) /\ Fits(d, 8)
    BY FitsMore
  <1>3. 32 * m + 24 = 32 * m + 23 + 1 /\ 32 * m + 25 = 32 * m + 23 + 2
        /\ 32 * m + 26 = 32 * m + 23 + 3 /\ 32 * m + 27 = 32 * m + 23 + 4
    OBVIOUS
  <1>4. \/ Fits(d, 1) /\ d[8] <= 23 /\ g = <<32 * m + d[8]>>
        \/ Fits(d, 1) /\ d[8] > 23 /\ LongHead(m, d, g, 1, 1)
        \/ Fits(d, 2) /\ ~Fits(d, 1) /\ LongHead(m, d, g, 2, 2)
        \/ Fits(d, 4) /\ ~Fits(d, 2) /\ LongHead(m, d, g, 3, 4)
        \/ ~Fits(d, 4) /\ LongHead(m, d, g, 4, 8)
    BY <1>1, <1>2, <1>3 DEF HeadCases, LongHead
  <1>5. Fits(d, 1) /\ d[8] <= 23 /\ g = <<32 * m + d[8]>> => ShortHead(m, d, g) /\ Len(g) = 1
    BY SmallNumber DEF ShortHead
  <1>6. g \in Heads(m, d)
    BY <1>4, <1>5, HeadsAre
  <1>7. /\ LongHead(m, d, g, 1, 1) => Len(g) = 2
        /\ LongHead(m, d, g, 2, 2) => Len(g) = 3
        /\ LongHead(m, d, g, 3, 4) => Len(g) = 5
        /\ LongHead(m, d, g, 4, 8) => Len(g) = 9
    BY LongLength
  <1>8. ASSUME NEW h \in Heads(m, d)
        PROVE  \/ Len(h) = 1 /\ Fits(d, 1) /\ ~(d[8] > 23)
               \/ Len(h) = 2 /\ Fits(d, 1)
               \/ Len(h) = 3 /\ Fits(d, 2)
               \/ Len(h) = 5 /\ Fits(d, 4)
               \/ Len(h) = 9
    <2>1. \/ ShortHead(m, d, h)
          \/ LongHead(m, d, h, 1, 1) \/ LongHead(m, d, h, 2, 2)
          \/ LongHead(m, d, h, 3, 4) \/ LongHead(m, d, h, 4, 8)
      BY HeadsAre
    <2>2. CASE ShortHead(m, d, h)
      <3>1. PICK n \in 0 .. 23 : Number(n) = d /\ h = <<32 * m + n>>
        BY <2>2 DEF ShortHead
      <3>2. n \in Lengths /\ n <= 255
        BY SMT DEF Lengths
      <3>3. Fits(d, 1) /\ d[8] = n
        BY <3>1, <3>2, NumberFits
      <3>4. Len(h) = 1
        BY <3>1
      <3> QED
        BY <3>3, <3>4
    <2>3. /\ LongHead(m, d, h, 1, 1) => Len(h) = 2 /\ Fits(d, 1)
          /\ LongHead(m, d, h, 2, 2) => Len(h) = 3 /\ Fits(d, 2)
          /\ LongHead(m, d, h, 3, 4) => Len(h) = 5 /\ Fits(d, 4)
          /\ LongHead(m, d, h, 4, 8) => Len(h) = 9
      <3>1. \A k, w : LongHead(m, d, h, k, w) => Fits(d, w)
        BY DEF LongHead
      <3> QED
        BY <3>1, LongLength
    <2> QED
      BY <2>1, <2>2, <2>3
  <1>9. \A h \in Heads(m, d) : Len(g) <= Len(h)
    <2> TAKE h \in Heads(m, d)
    <2> DEFINE p == Len(g)
               q == Len(h)
    <2>1. \/ p = 1
          \/ p = 2 /\ d[8] > 23
          \/ p = 3 /\ ~Fits(d, 1)
          \/ p = 5 /\ ~Fits(d, 1) /\ ~Fits(d, 2)
          \/ p = 9 /\ ~Fits(d, 1) /\ ~Fits(d, 2) /\ ~Fits(d, 4)
      BY <1>2, <1>4, <1>5, <1>7
    <2>2. \/ q = 1 /\ Fits(d, 1) /\ ~(d[8] > 23)
          \/ q = 2 /\ Fits(d, 1)
          \/ q = 3 /\ Fits(d, 2)
          \/ q = 5 /\ Fits(d, 4)
          \/ q = 9
      BY <1>8
    <2> HIDE DEF p, q
    <2>3. p <= q
      BY <2>1, <2>2
    <2> QED
      BY <2>3 DEF p, q
  <1> QED
    BY <1>6, <1>9 DEF g

--------------------------------------------------------------------------------
(* Codes one after another *)

\* A list of codes, flattened one by one.
LEMMA Flattened ==
  ASSUME NEW s, Indexed(s), \A i \in 1 .. Len(s) : s[i] \in Seq(Byte)
  PROVE  \E f \in [0 .. Len(s) -> Seq(Byte)] :
            /\ f[0] = <<>> /\ FlattenSeq(s) = f[Len(s)]
            /\ \A i \in 1 .. Len(s) : f[i] = f[i - 1] \o s[i]
  <1> DEFINE n == Len(s)
             IsFlat(f, m) == f = [i \in 1 .. m |-> IF i = 1 THEN s[i] ELSE f[i - 1] \o s[i]]
             S == {m \in Nat : \E f : IsFlat(f, m)}
  <1>1. n \in Nat /\ s = [i \in 1 .. n |-> s[i]]
    BY DEF Indexed
  <1>2. CASE n = 0
    <2>1. FlattenSeq(s) = s /\ s = <<>>
      BY <1>1, <1>2 DEF FlattenSeq
    <2> DEFINE f == [i \in 0 .. 0 |-> <<>>]
    <2>2. f \in [0 .. 0 -> Seq(Byte)] /\ f[0] = <<>>
      OBVIOUS
    <2> HIDE DEF f
    <2> QED
      BY <1>2, <2>1, <2>2
  <1>3. CASE n # 0
    <2>1. 0 \in S
      <3> DEFINE f == [k \in 1 .. 0 |-> <<>>]
      <3>1. IsFlat(f, 0)
        OBVIOUS
      <3> HIDE DEF f, IsFlat
      <3> QED
        BY <3>1
    <2>2. ASSUME NEW m \in Nat, m \in S PROVE m + 1 \in S
      <3>1. PICK f : IsFlat(f, m)
        BY <2>2
      <3> DEFINE g == [i \in 1 .. m + 1 |-> IF i = 1 THEN s[i] ELSE f[i - 1] \o s[i]]
      <3>2. \A i \in 1 .. m : g[i] = f[i]
        <4> TAKE i \in 1 .. m
        <4>1. f[i] = IF i = 1 THEN s[i] ELSE f[i - 1] \o s[i]
          BY <3>1, Zenon
        <4>2. i \in 1 .. m + 1
          OBVIOUS
        <4>3. g[i] = IF i = 1 THEN s[i] ELSE f[i - 1] \o s[i]
          BY <4>2, Zenon
        <4> QED
          BY <4>1, <4>3
      <3>3. \A i \in 1 .. m + 1 : i # 1 => i - 1 \in 1 .. m /\ g[i - 1] = f[i - 1]
        <4> HIDE DEF g
        <4> QED
          BY <3>2
      <3>4. IsFlat(g, m + 1)
        BY <3>3
      <3> HIDE DEF g, IsFlat
      <3> QED
        BY <3>4
    <2>3. FlattenSeq(s) = (CHOOSE f : IsFlat(f, n))[n]
      BY <1>3 DEF FlattenSeq
    <2> HIDE DEF IsFlat
    <2>4. n \in S
      <3> HIDE DEF S
      <3> QED
        BY <1>1, <2>1, <2>2, Induct
    <2> DEFINE g == CHOOSE f : IsFlat(f, n)
    <2>5. IsFlat(g, n)
      BY <2>4
    <2> HIDE DEF g
    <2>6. \A i \in 1 .. n : g[i] = IF i = 1 THEN s[i] ELSE g[i - 1] \o s[i]
      BY <2>5 DEF IsFlat
    <2> DEFINE f == [i \in 0 .. n |-> IF i = 0 THEN <<>> ELSE g[i]]
    <2>7. f[0] = <<>> /\ FlattenSeq(s) = f[n]
      BY <1>1, <1>3, <2>3 DEF g
    <2>8. \A i \in 1 .. n : f[i] = f[i - 1] \o s[i]
      <3> SUFFICES ASSUME NEW i \in 1 .. n PROVE f[i] = f[i - 1] \o s[i]
        OBVIOUS
      <3>1. f[i] = g[i] /\ (i = 1 => f[i - 1] = <<>>) /\ (i # 1 => f[i - 1] = g[i - 1])
        BY <1>1
      <3>2. <<>> \o s[i] = s[i]
        OBVIOUS
      <3> HIDE DEF f
      <3> QED
        BY <2>6, <3>1, <3>2
    <2>9. f = [i \in 0 .. n |-> f[i]]
      OBVIOUS
    <2> HIDE DEF f
    <2>10. 0 .. n \subseteq {i \in 0 .. n : f[i] \in Seq(Byte)}
      <3> DEFINE T == {i \in 0 .. n : f[i] \in Seq(Byte)}
      <3>1. 0 \in T
        <4>1. <<>> \in Seq(Byte) /\ 0 \in 0 .. n
          BY <1>1
        <4> QED
          BY <2>7, <4>1
      <3>2. ASSUME NEW k \in 0 .. n - 1, k \in T PROVE k + 1 \in T
        <4>1. k + 1 \in 1 .. n /\ (k + 1) - 1 = k
          BY <1>1
        <4>2. f[k + 1] = f[k] \o s[k + 1]
          BY <2>8, <4>1
        <4>3. f[k] \in Seq(Byte) /\ s[k + 1] \in Seq(Byte)
          BY <3>2, <4>1
        <4>4. f[k + 1] \in Seq(Byte)
          BY <4>2, <4>3, ConcatProperties
        <4>5. k + 1 \in 0 .. n
          BY <1>1
        <4> QED
          BY <4>4, <4>5
      <3> HIDE DEF T
      <3>3. 0 .. n \subseteq T
        BY <1>1, <3>1, <3>2, InductTo
      <3> QED
        BY <3>3 DEF T
    <2>11. f \in [0 .. n -> Seq(Byte)]
      BY <2>9, <2>10
    <2> QED
      BY <2>7, <2>8, <2>11
  <1> QED
    BY <1>2, <1>3

\* One code after another: the provers match its name where they lose \o.
Then(a, b) == a \o b

LEMMA ThenCode ==
  ASSUME NEW a \in Seq(Byte), NEW b \in Seq(Byte)
  PROVE  Then(a, b) \in Seq(Byte)
  BY ConcatProperties DEF Then

LEMMA ThenThen ==
  ASSUME NEW a \in Seq(Byte), NEW b \in Seq(Byte), NEW c \in Seq(Byte)
  PROVE  Then(Then(a, b), c) = Then(a, Then(b, c))
  BY ConcatAssociative DEF Then

LEMMA ThenNothing ==
  ASSUME NEW a \in Seq(Byte)
  PROVE  <<>> \in Seq(Byte) /\ Then(a, <<>>) = a /\ Then(<<>>, a) = a
  BY DEF Then

\* Two codes are told apart, or from what follows them, as soon as they are read.
Told(a, b) == \A u, v \in Seq(Byte) : Then(a, u) = Then(b, v) => u = v

LEMMA ToldEqual ==
  ASSUME NEW a \in Seq(Byte), NEW b \in Seq(Byte), Told(a, b),
         NEW u \in Seq(Byte), NEW v \in Seq(Byte), Then(a, u) = Then(b, v)
  PROVE  a = b /\ u = v
  <1>1. u = v
    BY DEF Told
  <1>2. Len(Then(a, u)) = Len(a) + Len(u) /\ Len(Then(b, v)) = Len(b) + Len(v)
    BY ConcatProperties DEF Then
  <1>3. Len(a) = Len(b)
    <2> DEFINE p == Len(a)
               q == Len(b)
               r == Len(u)
    <2>1. p \in Nat /\ q \in Nat /\ r \in Nat /\ p + r = q + r
      BY <1>1, <1>2
    <2> HIDE DEF p, q, r
    <2>2. p = q
      BY <2>1
    <2> QED
      BY <2>2 DEF p, q
  <1> QED
    BY <1>1, <1>3, SplitAlike DEF Then

LEMMA ToldNext ==
  ASSUME NEW p \in Seq(Byte), NEW q \in Seq(Byte), NEW a \in Seq(Byte), NEW b \in Seq(Byte),
         Told(p, q), Told(a, b)
  PROVE  /\ Told(Then(p, a), Then(q, b))
         /\ Then(p, a) = Then(q, b) => p = q /\ a = b
  <1>1. ASSUME NEW u \in Seq(Byte), NEW v \in Seq(Byte),
               Then(Then(p, a), u) = Then(Then(q, b), v)
        PROVE  p = q /\ a = b /\ u = v
    <2>1. Then(Then(p, a), u) = Then(p, Then(a, u))
      BY ThenThen
    <2>2. Then(Then(q, b), v) = Then(q, Then(b, v))
      BY ThenThen
    <2>3. Then(a, u) \in Seq(Byte) /\ Then(b, v) \in Seq(Byte)
      BY ThenCode
    <2>4. p = q /\ Then(a, u) = Then(b, v)
      <3> DEFINE x == Then(a, u)
                 y == Then(b, v)
      <3>1. x \in Seq(Byte) /\ y \in Seq(Byte) /\ Then(p, x) = Then(q, y)
        BY <1>1, <2>1, <2>2, <2>3
      <3> HIDE DEF x, y
      <3>2. p = q /\ x = y
        BY <3>1, ToldEqual
      <3> QED
        BY <3>2 DEF x, y
    <2>5. a = b /\ u = v
      BY <2>4, ToldEqual
    <2> QED
      BY <2>4, <2>5
  <1>2. Told(Then(p, a), Then(q, b))
    BY <1>1 DEF Told
  <1>3. ASSUME Then(p, a) = Then(q, b) PROVE p = q /\ a = b
    <2>1. <<>> \in Seq(Byte)
      OBVIOUS
    <2>2. Then(Then(p, a), <<>>) = Then(Then(q, b), <<>>)
      BY <1>3
    <2> QED
      BY <1>1, <2>1, <2>2
  <1> QED
    BY <1>2, <1>3

\* If the codes of two lists of one length are told one by one, so are the lists.
LEMMA FlattenTells ==
  ASSUME NEW s, Indexed(s), NEW t, Indexed(t), Len(s) = Len(t),
         \A i \in 1 .. Len(s) : s[i] \in Seq(Byte) /\ t[i] \in Seq(Byte) /\ Told(s[i], t[i])
  PROVE  /\ FlattenSeq(s) \in Seq(Byte) /\ FlattenSeq(t) \in Seq(Byte)
         /\ Told(FlattenSeq(s), FlattenSeq(t))
         /\ FlattenSeq(s) = FlattenSeq(t) => s = t
  <1> DEFINE n == Len(s)
  <1>1. n \in Nat /\ s = [i \in 1 .. n |-> s[i]] /\ t = [i \in 1 .. n |-> t[i]]
    BY DEF Indexed
  <1>2. PICK f \in [0 .. n -> Seq(Byte)] :
            /\ f[0] = <<>> /\ FlattenSeq(s) = f[n]
            /\ \A i \in 1 .. n : f[i] = Then(f[i - 1], s[i])
    BY Flattened DEF Then
  <1>3. PICK g \in [0 .. n -> Seq(Byte)] :
            /\ g[0] = <<>> /\ FlattenSeq(t) = g[n]
            /\ \A i \in 1 .. n : g[i] = Then(g[i - 1], t[i])
    BY Flattened DEF Then
  <1> HIDE DEF n
  <1> DEFINE Same(k) == \A i \in 1 .. k : s[i] = t[i]
             S == {k \in 0 .. n : Told(f[k], g[k]) /\ (f[k] = g[k] => Same(k))}
  <1>4. 0 \in S
    <2>1. Told(f[0], g[0])
      BY <1>2, <1>3, ThenNothing DEF Told
    <2>2. Same(0) /\ 0 \in 0 .. n
      BY <1>1
    <2> HIDE DEF Same
    <2> QED
      BY <2>1, <2>2
  <1>5. ASSUME NEW k \in 0 .. n - 1, k \in S PROVE k + 1 \in S
    <2>1. k + 1 \in 1 .. n /\ (k + 1) - 1 = k /\ k \in 0 .. n /\ k + 1 \in 0 .. n
      BY <1>1
    <2> DEFINE a == s[k + 1]
               b == t[k + 1]
               p == f[k]
               q == g[k]
    <2>2. /\ f[k + 1] = Then(p, a) /\ g[k + 1] = Then(q, b)
          /\ p \in Seq(Byte) /\ q \in Seq(Byte)
          /\ a \in Seq(Byte) /\ b \in Seq(Byte) /\ Told(a, b)
      BY <1>2, <1>3, <2>1 DEF n
    <2>3. Told(p, q) /\ (p = q => Same(k))
      BY <1>5
    <2> HIDE DEF a, b, p, q
    <2>4. Told(Then(p, a), Then(q, b)) /\ (Then(p, a) = Then(q, b) => p = q /\ a = b)
      BY <2>2, <2>3, ToldNext
    <2>5. \A i \in 1 .. k + 1 : i \in 1 .. k \/ i = k + 1
      BY <2>1
    <2>6. Same(k) /\ a = b => Same(k + 1)
      BY <2>5 DEF a, b
    <2> HIDE DEF Same
    <2> QED
      BY <2>1, <2>2, <2>3, <2>4, <2>6
  <1>6. 0 .. n \subseteq S
    <2> HIDE DEF S
    <2> QED
      BY <1>1, <1>4, <1>5, InductTo
  <1>7. n \in 0 .. n
    BY <1>1
  <1>8. Told(f[n], g[n])
    BY <1>6, <1>7
  <1>9. f[n] = g[n] => s = t
    BY <1>1, <1>6, <1>7
  <1>10. f[n] \in Seq(Byte) /\ g[n] \in Seq(Byte)
    BY <1>1, <1>2, <1>3
  <1> QED
    BY <1>2, <1>3, <1>8, <1>9, <1>10

--------------------------------------------------------------------------------
(* Items, their parts and what they say *)

LEMMA EncodingIs ==
  ASSUME NEW S
  PROVE  Encoding(S) = CHOOSE code : code = [x \in S |-> EncodeItem(code, x)]
  BY DEF Encoding

Parts(x) ==
    IF x.kind = "array" THEN {x.content[i] : i \in 1 .. Len(x.content)}
    ELSE IF x.kind = "map" THEN {x.content[i].item : i \in 1 .. Len(x.content)}
    ELSE {}

\* The items that the worker encodes: what a decoder may have made.
WellFormed(x) ==
    \/ x.kind \in {"null", "true", "false"} /\ x.content = <<>>
    \/ x.kind = "uint" /\ x.content \in EightBytes
    \/ x.kind \in {"tstr", "bstr"} /\ x.content \in Key
    \/ x.kind = "array" /\ Indexed(x.content) /\ Len(x.content) \in Lengths
    \/ x.kind = "map" /\ Entries(x.content) /\ Len(x.content) \in Lengths

\* A set of them with the parts of each, of a depth that is bounded by any number.
Composed(S, depth, n) ==
    /\ n \in Nat /\ depth \in [S -> 0 .. n]
    /\ \A x \in S : WellFormed(x) /\ \A y \in Parts(x) : y \in S /\ depth[y] < depth[x]

LEMMA PartsSuffice ==
  ASSUME NEW x, WellFormed(x), NEW c, NEW e, \A y \in Parts(x) : c[y] = e[y]
  PROVE  EncodeItem(c, x) = EncodeItem(e, x)
  <1>1. CASE x.kind = "array"
    <2>1. DOMAIN x.content = 1 .. Len(x.content)
      BY <1>1 DEF WellFormed, Indexed
    <2>2. \A i \in DOMAIN x.content : c[x.content[i]] = e[x.content[i]]
      BY <1>1, <2>1 DEF Parts
    <2>3. [i \in DOMAIN x.content |-> c[x.content[i]]] = [i \in DOMAIN x.content |-> e[x.content[i]]]
      BY <2>2
    <2> QED
      BY <1>1, <2>3 DEF EncodeItem
  <1>2. CASE x.kind = "map"
    <2> DEFINE s == x.content
               t == Sorted(s)
    <2>1. Entries(s) /\ x.content = s
      BY <1>2 DEF WellFormed
    <2>3. \A i \in 1 .. Len(s) : s[i].item \in Parts(x)
      BY <1>2 DEF Parts
    <2> HIDE DEF s
    <2>2. \A k \in DOMAIN t : \E i \in 1 .. Len(s) : t[k] = s[i]
      <3>1. \A k \in 1 .. Len(s) : \E i \in 1 .. Len(s) : Sorted(s)[k] = s[i]
        BY <2>1, SortedEntries
      <3>2. DOMAIN Sorted(s) = 1 .. Len(s)
        BY <2>1, SortedEntries
      <3> QED
        BY <3>1, <3>2
    <2> HIDE DEF t
    <2>4. \A k \in DOMAIN t : c[t[k].item] = e[t[k].item]
      BY <2>2, <2>3
    <2>5. [k \in DOMAIN t |-> EncodedKey(t[k].key) \o c[t[k].item]]
          = [k \in DOMAIN t |-> EncodedKey(t[k].key) \o e[t[k].item]]
      BY <2>4
    <2> QED
      BY <1>2, <2>5 DEF EncodeItem, s, t
  <1>3. CASE x.kind \notin {"array", "map"}
    BY <1>3 DEF EncodeItem, WellFormed
  <1> QED
    BY <1>1, <1>2, <1>3

\* The recursion of encodeItem ends.
LEMMA EncodingDef ==
  ASSUME NEW S, NEW depth, NEW n, Composed(S, depth, n)
  PROVE  \A x \in S : Encoding(S)[x] = EncodeItem(Encoding(S), x)
  <1> DEFINE Upto(m) == {x \in S : depth[x] < m}
             IsCode(c, m) == c = [x \in Upto(m) |-> EncodeItem(c, x)]
             T == {m \in Nat : \E c : IsCode(c, m)}
  <1>1. /\ n \in Nat /\ \A x \in S : depth[x] \in 0 .. n
        /\ \A x \in S : WellFormed(x) /\ \A y \in Parts(x) : y \in S /\ depth[y] < depth[x]
    BY DEF Composed
  <1>2. 0 \in T
    <2> DEFINE c == [x \in {} |-> <<>>]
    <2>1. Upto(0) = {}
      BY <1>1
    <2>2. IsCode(c, 0)
      BY <2>1
    <2> HIDE DEF c, IsCode
    <2> QED
      BY <2>2
  <1>3. ASSUME NEW m \in Nat, m \in T PROVE m + 1 \in T
    <2>1. PICK c : IsCode(c, m)
      BY <1>3
    <2> DEFINE e == [x \in Upto(m + 1) |-> EncodeItem(c, x)]
    <2>2. \A x \in Upto(m) : x \in Upto(m + 1)
      BY <1>1
    <2>3. \A x \in Upto(m) : e[x] = c[x]
      BY <2>1, <2>2
    <2>4. \A x \in Upto(m + 1) : EncodeItem(c, x) = EncodeItem(e, x)
      <3> SUFFICES ASSUME NEW x \in Upto(m + 1) PROVE EncodeItem(c, x) = EncodeItem(e, x)
        OBVIOUS
      <3>1. \A y \in Parts(x) : y \in Upto(m)
        BY <1>1
      <3> HIDE DEF e
      <3>2. \A y \in Parts(x) : c[y] = e[y]
        BY <2>3, <3>1
      <3>3. WellFormed(x)
        BY <1>1
      <3> QED
        BY <3>2, <3>3, PartsSuffice
    <2>5. IsCode(e, m + 1)
      BY <2>4
    <2> HIDE DEF e, IsCode
    <2> QED
      BY <2>5
  <1> HIDE DEF IsCode
  <1>4. n + 1 \in T
    <2>1. n + 1 \in Nat
      BY <1>1
    <2> HIDE DEF T
    <2> QED
      BY <1>2, <1>3, <2>1, Induct
  <1>5. Upto(n + 1) = S
    BY <1>1
  <1>6. \E c : c = [x \in S |-> EncodeItem(c, x)]
    BY <1>4, <1>5 DEF IsCode
  <1> DEFINE c == CHOOSE c : c = [x \in S |-> EncodeItem(c, x)]
  <1>7. c = [x \in S |-> EncodeItem(c, x)]
    BY <1>6
  <1> HIDE DEF c
  <1>8. \A x \in S : c[x] = EncodeItem(c, x)
    BY <1>7
  <1> QED
    BY <1>8, EncodingIs DEF c

LEMMA ValuesIs ==
  ASSUME NEW S
  PROVE  Values(S) = CHOOSE value : value = [x \in S |-> ValueOf(value, x)]
  BY DEF Values

LEMMA PartsSay ==
  ASSUME NEW x, WellFormed(x), NEW c, NEW e, \A y \in Parts(x) : c[y] = e[y]
  PROVE  ValueOf(c, x) = ValueOf(e, x)
  <1>1. CASE x.kind = "array"
    <2>1. DOMAIN x.content = 1 .. Len(x.content)
      BY <1>1 DEF WellFormed, Indexed
    <2>2. \A i \in DOMAIN x.content : c[x.content[i]] = e[x.content[i]]
      BY <1>1, <2>1 DEF Parts
    <2>3. [i \in DOMAIN x.content |-> c[x.content[i]]] = [i \in DOMAIN x.content |-> e[x.content[i]]]
      BY <2>2
    <2> QED
      BY <1>1, <2>3 DEF ValueOf
  <1>2. CASE x.kind = "map"
    <2> DEFINE R == Range(x.content)
    <2>1. DOMAIN x.content = 1 .. Len(x.content)
      BY <1>2 DEF WellFormed, Entries, Indexed
    <2>2. \A r \in R : r.item \in Parts(x)
      BY <1>2, <2>1 DEF Parts, Range
    <2> HIDE DEF R
    <2>3. \A r \in R : c[r.item] = e[r.item]
      BY <2>2
    <2>4. {<<r.key, c[r.item]>> : r \in R} = {<<r.key, e[r.item]>> : r \in R}
      BY <2>3
    <2> QED
      BY <1>2, <2>4 DEF ValueOf, R
  <1>3. CASE x.kind \notin {"array", "map"}
    BY <1>3 DEF ValueOf
  <1> QED
    BY <1>1, <1>2, <1>3

\* So does that of what an item says.
LEMMA ValuesDef ==
  ASSUME NEW S, NEW depth, NEW n, Composed(S, depth, n)
  PROVE  \A x \in S : Values(S)[x] = ValueOf(Values(S), x)
  <1> DEFINE Upto(m) == {x \in S : depth[x] < m}
             IsValue(c, m) == c = [x \in Upto(m) |-> ValueOf(c, x)]
             T == {m \in Nat : \E c : IsValue(c, m)}
  <1>1. /\ n \in Nat /\ \A x \in S : depth[x] \in 0 .. n
        /\ \A x \in S : WellFormed(x) /\ \A y \in Parts(x) : y \in S /\ depth[y] < depth[x]
    BY DEF Composed
  <1>2. 0 \in T
    <2> DEFINE c == [x \in {} |-> <<>>]
    <2>1. Upto(0) = {}
      BY <1>1
    <2>2. IsValue(c, 0)
      BY <2>1
    <2> HIDE DEF c, IsValue
    <2> QED
      BY <2>2
  <1>3. ASSUME NEW m \in Nat, m \in T PROVE m + 1 \in T
    <2>1. PICK c : IsValue(c, m)
      BY <1>3
    <2> DEFINE e == [x \in Upto(m + 1) |-> ValueOf(c, x)]
    <2>2. \A x \in Upto(m) : x \in Upto(m + 1)
      BY <1>1
    <2>3. \A x \in Upto(m) : e[x] = c[x]
      BY <2>1, <2>2
    <2>4. \A x \in Upto(m + 1) : ValueOf(c, x) = ValueOf(e, x)
      <3> SUFFICES ASSUME NEW x \in Upto(m + 1) PROVE ValueOf(c, x) = ValueOf(e, x)
        OBVIOUS
      <3>1. \A y \in Parts(x) : y \in Upto(m)
        BY <1>1
      <3> HIDE DEF e
      <3>2. \A y \in Parts(x) : c[y] = e[y]
        BY <2>3, <3>1
      <3>3. WellFormed(x)
        BY <1>1
      <3> QED
        BY <3>2, <3>3, PartsSay
    <2>5. IsValue(e, m + 1)
      BY <2>4
    <2> HIDE DEF e, IsValue
    <2> QED
      BY <2>5
  <1> HIDE DEF IsValue
  <1>4. n + 1 \in T
    <2>1. n + 1 \in Nat
      BY <1>1
    <2> HIDE DEF T
    <2> QED
      BY <1>2, <1>3, <2>1, Induct
  <1>5. Upto(n + 1) = S
    BY <1>1
  <1>6. \E c : c = [x \in S |-> ValueOf(c, x)]
    BY <1>4, <1>5 DEF IsValue
  <1> DEFINE c == CHOOSE c : c = [x \in S |-> ValueOf(c, x)]
  <1>7. c = [x \in S |-> ValueOf(c, x)]
    BY <1>6
  <1> HIDE DEF c
  <1>8. \A x \in S : c[x] = ValueOf(c, x)
    BY <1>7
  <1> QED
    BY <1>8, ValuesIs DEF c

--------------------------------------------------------------------------------
(* The code of an item *)

\* Every code is a head and what follows it; a simple value is a head of its own.
MajorOf(x) == IF x.kind \in {"null", "true", "false"} THEN 7 ELSE Major(x.kind)
NumberOf(x) ==
    CASE x.kind = "null"  -> Number(22)
      [] x.kind = "true"  -> Number(21)
      [] x.kind = "false" -> Number(20)
      [] x.kind = "uint"  -> x.content
      [] OTHER            -> Number(Len(x.content))
Listed(c, x) ==
    IF x.kind = "array" THEN [i \in 1 .. Len(x.content) |-> c[x.content[i]]]
    ELSE LET t == Sorted(x.content)
         IN  [i \in 1 .. Len(x.content) |-> Then(EncodedKey(t[i].key), c[t[i].item])]
BodyOf(c, x) ==
    IF x.kind \in {"array", "map"} THEN FlattenSeq(Listed(c, x))
    ELSE IF x.kind \in {"tstr", "bstr"} THEN x.content ELSE <<>>

LEMMA SortedIndexed ==
  ASSUME NEW s, Entries(s)
  PROVE  Indexed(Sorted(s)) /\ Len(Sorted(s)) = Len(s)
  <1> DEFINE n == Len(s)
             t == Sorted(s)
  <1>1. n \in Nat /\ DOMAIN s = 1 .. n
    BY DEF Entries, Indexed
  <1>2. t = [k \in DOMAIN s |-> s[CHOOSE i \in DOMAIN s : KeyRank(s, i) = k - 1]]
    BY DEF Sorted
  <1> HIDE DEF n, t
  <1>3. t = [k \in 1 .. n |-> t[k]]
    BY <1>1, <1>2
  <1>4. Indexed(t) /\ Len(t) = n
    BY <1>1, <1>3, IndexedBy
  <1> QED
    BY <1>4 DEF n, t

LEMMA ListedCodes ==
  ASSUME NEW x, WellFormed(x), x.kind \in {"array", "map"},
         NEW c, \A y \in Parts(x) : c[y] \in Seq(Byte)
  PROVE  /\ Indexed(Listed(c, x)) /\ Len(Listed(c, x)) = Len(x.content)
         /\ \A i \in 1 .. Len(x.content) : Listed(c, x)[i] \in Seq(Byte)
  <1> DEFINE n == Len(x.content)
             l == Listed(c, x)
  <1>1. n \in Nat
    BY DEF WellFormed, Entries, Indexed
  <1>2. l = [i \in 1 .. n |-> l[i]]
    BY DEF Listed
  <1>3. Indexed(l) /\ Len(l) = n
    <2> HIDE DEF l, n
    <2> QED
      BY <1>1, <1>2, IndexedBy
  <1>4. \A i \in 1 .. n : l[i] \in Seq(Byte)
    <2>1. CASE x.kind = "array"
      <3>1. \A i \in 1 .. n : l[i] = c[x.content[i]] /\ x.content[i] \in Parts(x)
        BY <2>1 DEF Listed, Parts
      <3> QED
        BY <3>1
    <2>2. CASE x.kind = "map"
      <3> DEFINE s == x.content
                 t == Sorted(s)
      <3>1. Entries(s)
        BY <2>2 DEF WellFormed
      <3>2. \A i \in 1 .. n : l[i] = Then(EncodedKey(t[i].key), c[t[i].item])
        BY <2>2 DEF Listed
      <3>3. \A i \in 1 .. n : s[i].item \in Parts(x) /\ s[i].key \in Key
        BY <2>2, <3>1 DEF Parts, Entries
      <3> HIDE DEF s
      <3>4. \A k \in 1 .. Len(s) : \E i \in 1 .. Len(s) : t[k] = s[i]
        BY <3>1, SortedEntries
      <3> HIDE DEF t, l
      <3>5. \A k \in 1 .. n : t[k].key \in Key /\ c[t[k].item] \in Seq(Byte)
        BY <3>3, <3>4 DEF s
      <3>6. \A k \in 1 .. n : EncodedKey(t[k].key) \in Seq(Byte)
        BY <3>5, KeyIs
      <3> QED
        BY <3>2, <3>5, <3>6, ThenCode
    <2> QED
      BY <2>1, <2>2
  <1> QED
    BY <1>3, <1>4

LEMMA HeadCode ==
  ASSUME NEW m \in 0 .. 7, NEW d \in EightBytes
  PROVE  WriteHead(m, d) \in Seq(Byte)
  BY WrittenHead DEF IsHead

LEMMA SimpleHead ==
  ASSUME NEW k \in 0 .. 23
  PROVE  /\ Number(k) \in EightBytes /\ Number(k)[8] = k
         /\ WriteHead(7, Number(k)) = <<224 + k>>
  <1>1. k \in Lengths /\ k <= 255 /\ k <= 23 /\ ~(k > 23) /\ k <= 65535
    BY SMT DEF Lengths
  <1>2. /\ Number(k) \in EightBytes /\ Number(k)[8] = k
        /\ Fits(Number(k), 1) /\ Fits(Number(k), 2) /\ Fits(Number(k), 4)
    BY <1>1, NumberFits
  <1> DEFINE m == 7
             d == Number(k)
  <1>3. m \in 0 .. 7 /\ 32 * m = 224
    OBVIOUS
  <1> HIDE DEF m, d
  <1>4. HeadCases(WriteHead(m, d), m, d)
    BY <1>2, <1>3, HeadIs DEF d
  <1>5. WriteHead(m, d) = <<32 * m + d[8]>>
    BY <1>1, <1>2, <1>4 DEF HeadCases, d
  <1> QED
    BY <1>2, <1>3, <1>5 DEF m, d

LEMMA CodeIs ==
  ASSUME NEW x, WellFormed(x), NEW c, \A y \in Parts(x) : c[y] \in Seq(Byte)
  PROVE  /\ MajorOf(x) \in 0 .. 7 /\ NumberOf(x) \in EightBytes /\ BodyOf(c, x) \in Seq(Byte)
         /\ EncodeItem(c, x) = Then(WriteHead(MajorOf(x), NumberOf(x)), BodyOf(c, x))
  <1>1. MajorOf(x) \in 0 .. 7
    BY DEF MajorOf, Major, WellFormed
  <1>2. CASE x.kind \in {"null", "true", "false"}
    <2>1. ASSUME NEW k \in 0 .. 23, NumberOf(x) = Number(k), EncodeItem(c, x) = <<224 + k>>
          PROVE  /\ NumberOf(x) \in EightBytes /\ BodyOf(c, x) \in Seq(Byte)
                 /\ EncodeItem(c, x) = Then(WriteHead(7, NumberOf(x)), BodyOf(c, x))
      <3>1. BodyOf(c, x) = <<>>
        BY <1>2 DEF BodyOf
      <3>2. Number(k) \in EightBytes /\ WriteHead(7, Number(k)) = <<224 + k>>
        BY SimpleHead
      <3>3. <<224 + k>> \in Seq(Byte)
        BY DEF Byte
      <3>4. <<>> \in Seq(Byte) /\ Then(<<224 + k>>, <<>>) = <<224 + k>>
        BY <3>3, ThenNothing
      <3> QED
        BY <2>1, <3>1, <3>2, <3>4
    <2>2. x.kind = "null" => NumberOf(x) = Number(22) /\ EncodeItem(c, x) = <<224 + 22>>
      BY DEF NumberOf, EncodeItem
    <2>3. x.kind = "true" => NumberOf(x) = Number(21) /\ EncodeItem(c, x) = <<224 + 21>>
      BY DEF NumberOf, EncodeItem
    <2>4. x.kind = "false" => NumberOf(x) = Number(20) /\ EncodeItem(c, x) = <<224 + 20>>
      BY DEF NumberOf, EncodeItem
    <2>5. MajorOf(x) = 7 /\ 20 \in 0 .. 23 /\ 21 \in 0 .. 23 /\ 22 \in 0 .. 23
      BY <1>2 DEF MajorOf
    <2> QED
      BY <1>1, <1>2, <2>1, <2>2, <2>3, <2>4, <2>5
  <1>3. CASE x.kind = "uint"
    <2>1. x.content \in EightBytes /\ NumberOf(x) = x.content /\ BodyOf(c, x) = <<>>
          /\ EncodeItem(c, x) = WriteHead(MajorOf(x), NumberOf(x))
      BY <1>3 DEF WellFormed, NumberOf, BodyOf, EncodeItem, MajorOf
    <2>2. WriteHead(MajorOf(x), NumberOf(x)) \in Seq(Byte)
      BY <1>1, <2>1, HeadCode
    <2> QED
      BY <1>1, <2>1, <2>2, ThenNothing
  <1>4. CASE x.kind \in {"tstr", "bstr"}
    <2>1. /\ x.content \in Key /\ NumberOf(x) = Number(Len(x.content)) /\ BodyOf(c, x) = x.content
          /\ MajorOf(x) = Major(x.kind)
          /\ EncodeItem(c, x) = WriteHead(Major(x.kind), Number(Len(x.content))) \o x.content
      BY <1>4 DEF WellFormed, NumberOf, BodyOf, EncodeItem, MajorOf, WriteString
    <2>2. x.content \in Seq(Byte) /\ Number(Len(x.content)) \in EightBytes
      BY <2>1, NumberFits DEF Key
    <2> QED
      BY <1>1, <2>1, <2>2 DEF Then
  <1>5. CASE x.kind \in {"array", "map"}
    <2>1. NumberOf(x) = Number(Len(x.content)) /\ BodyOf(c, x) = FlattenSeq(Listed(c, x))
          /\ MajorOf(x) = Major(x.kind)
      BY <1>5 DEF NumberOf, BodyOf, MajorOf
    <2>2. Len(x.content) \in Lengths
      BY <1>5 DEF WellFormed
    <2>3. Number(Len(x.content)) \in EightBytes
      BY <2>2, NumberFits
    <2>4. FlattenSeq(Listed(c, x)) \in Seq(Byte)
      <3> DEFINE l == Listed(c, x)
      <3>1. Indexed(l) /\ Len(l) = Len(x.content) /\ \A i \in 1 .. Len(l) : l[i] \in Seq(Byte)
        BY <1>5, ListedCodes
      <3> HIDE DEF l
      <3>2. PICK f \in [0 .. Len(l) -> Seq(Byte)] : FlattenSeq(l) = f[Len(l)]
        BY <3>1, Flattened
      <3>3. Len(l) \in 0 .. Len(l)
        BY <3>1 DEF Indexed
      <3>4. FlattenSeq(l) \in Seq(Byte)
        BY <3>2, <3>3
      <3> QED
        BY <3>4 DEF l
    <2>5. EncodeItem(c, x) = WriteHead(Major(x.kind), Number(Len(x.content))) \o FlattenSeq(Listed(c, x))
      <3>1. CASE x.kind = "array"
        <4>1. DOMAIN x.content = 1 .. Len(x.content)
          BY <3>1 DEF WellFormed, Indexed
        <4>2. Listed(c, x) = [i \in DOMAIN x.content |-> c[x.content[i]]]
          BY <3>1, <4>1 DEF Listed
        <4> QED
          BY <3>1, <4>2 DEF EncodeItem
      <3>2. CASE x.kind = "map"
        <4> DEFINE t == Sorted(x.content)
        <4>0. Entries(x.content)
          BY <3>2 DEF WellFormed
        <4>1. DOMAIN t = 1 .. Len(x.content) /\ Len(t) = Len(x.content)
          BY <4>0, SortedIndexed, SortedEntries
        <4>2. Listed(c, x) = [i \in DOMAIN t |-> EncodedKey(t[i].key) \o c[t[i].item]]
          BY <3>2, <4>1 DEF Listed, Then
        <4>3. EncodeItem(c, x) = WriteHead(Major("map"), Number(Len(t)))
                 \o FlattenSeq([i \in DOMAIN t |-> EncodedKey(t[i].key) \o c[t[i].item]])
          BY <3>2 DEF EncodeItem
        <4> HIDE DEF t
        <4> QED
          BY <3>2, <4>1, <4>2, <4>3
      <3> QED
        BY <1>5, <3>1, <3>2
    <2> QED
      BY <1>1, <2>1, <2>3, <2>4, <2>5 DEF Then
  <1> QED
    BY <1>2, <1>3, <1>4, <1>5 DEF WellFormed

\* Codes with heads are told if what follows equal heads is.
LEMMA HeadedTold ==
  ASSUME NEW m \in 0 .. 7, NEW n \in 0 .. 7, NEW d \in EightBytes, NEW e \in EightBytes,
         NEW a \in Seq(Byte), NEW b \in Seq(Byte), m = n /\ d = e => Told(a, b)
  PROVE  /\ Told(Then(WriteHead(m, d), a), Then(WriteHead(n, e), b))
         /\ Then(WriteHead(m, d), a) = Then(WriteHead(n, e), b) => m = n /\ d = e /\ a = b
  <1> DEFINE p == WriteHead(m, d)
             q == WriteHead(n, e)
  <1>1. p \in Seq(Byte) /\ q \in Seq(Byte)
    BY HeadCode
  <1>2. ASSUME NEW x \in Seq(Byte), NEW y \in Seq(Byte), Then(p, x) = Then(q, y)
        PROVE  m = n /\ d = e /\ x = y
    <2>1. Tells(m, n, d, e, x, y)
      BY HeadsTell
    <2> QED
      BY <1>2, <2>1 DEF Tells, Then
  <1> HIDE DEF p, q
  <1>3. Told(Then(p, a), Then(q, b))
    <2> SUFFICES ASSUME NEW u \in Seq(Byte), NEW v \in Seq(Byte),
                        Then(Then(p, a), u) = Then(Then(q, b), v)
                 PROVE  u = v
      BY DEF Told
    <2>1. Then(Then(p, a), u) = Then(p, Then(a, u))
      BY <1>1, ThenThen
    <2>2. Then(Then(q, b), v) = Then(q, Then(b, v))
      BY <1>1, ThenThen
    <2> DEFINE x == Then(a, u)
               y == Then(b, v)
    <2>3. x \in Seq(Byte) /\ y \in Seq(Byte) /\ Then(p, x) = Then(q, y)
      BY <2>1, <2>2, ThenCode
    <2> HIDE DEF x, y
    <2>4. m = n /\ d = e /\ x = y
      BY <1>2, <2>3
    <2>5. Told(a, b) /\ Then(a, u) = Then(b, v)
      BY <2>4 DEF x, y
    <2> QED
      BY <2>5, ToldEqual
  <1>4. Then(p, a) = Then(q, b) => m = n /\ d = e /\ a = b
    BY <1>2
  <1> QED
    BY <1>3, <1>4 DEF p, q

LEMMA NumbersDiffer ==
  ASSUME NEW m \in Lengths, NEW n \in Lengths, Number(m) = Number(n)
  PROVE  m = n
  <1>1. m \in Nat /\ n \in Nat
    BY SMT DEF Lengths
  <1>2. ~(m < n)
    <2>1. ASSUME m < n PROVE FALSE
      <3>1. PICK i \in 1 .. 8 : Number(m)[i] < Number(n)[i]
        BY <2>1, NumberAscends
      <3>2. Number(m) \in EightBytes
        BY NumberFits
      <3>3. Number(m)[i] \in Byte
        BY <3>2, FitsMore
      <3> DEFINE x == Number(m)[i]
      <3>4. x \in Nat /\ x < x
        BY <3>1, <3>3, ByteNat
      <3> HIDE DEF x
      <3> QED
        BY <3>4
    <2> QED
      BY <2>1
  <1>3. ~(n < m)
    <2>1. ASSUME n < m PROVE FALSE
      <3>1. PICK i \in 1 .. 8 : Number(n)[i] < Number(m)[i]
        BY <2>1, NumberAscends
      <3>2. Number(m) \in EightBytes
        BY NumberFits
      <3>3. Number(m)[i] \in Byte
        BY <3>2, FitsMore
      <3> DEFINE x == Number(m)[i]
      <3>4. x \in Nat /\ x < x
        BY <3>1, <3>3, ByteNat
      <3> HIDE DEF x
      <3> QED
        BY <3>4
    <2> QED
      BY <2>1
  <1> QED
    BY <1>1, <1>2, <1>3

LEMMA KeysTold ==
  ASSUME NEW k \in Key, NEW l \in Key
  PROVE  Told(EncodedKey(k), EncodedKey(l))
  <1> DEFINE m == 3
             d == Number(Len(k))
             e == Number(Len(l))
  <1>1. /\ Len(k) \in Lengths /\ Len(l) \in Lengths /\ k \in Seq(Byte) /\ l \in Seq(Byte)
        /\ d \in EightBytes /\ e \in EightBytes /\ m \in 0 .. 7
    BY NumberFits DEF Key
  <1>2. EncodedKey(k) = Then(WriteHead(m, d), k) /\ EncodedKey(l) = Then(WriteHead(m, e), l)
    BY KeyIs DEF Then
  <1>3. d = e => Told(k, l)
    <2> SUFFICES ASSUME d = e PROVE Told(k, l)
      OBVIOUS
    <2>1. Len(k) = Len(l)
      BY <1>1, NumbersDiffer
    <2>2. \A u, v \in Seq(Byte) : k \o u = l \o v => u = v
      BY <1>1, <2>1, SplitAlike
    <2> QED
      BY <2>2 DEF Told, Then
  <1> HIDE DEF m, d, e
  <1>4. Told(Then(WriteHead(m, d), k), Then(WriteHead(m, e), l))
    BY <1>1, <1>3, HeadedTold
  <1> QED
    BY <1>2, <1>4

\* Two lists of entries that agree place by place once arranged list the same.
Alike(v, e, f) == e.key = f.key /\ v[e.item] = v[f.item]

LEMMA ArrangedAlike ==
  ASSUME NEW n, NEW s, NEW r, NEW t, NEW u, NEW v,
         \A j \in 1 .. n : \E i \in 1 .. n : t[i] = s[j],
         \A i \in 1 .. n : \E j \in 1 .. n : u[i] = r[j],
         \A i \in 1 .. n : Alike(v, t[i], u[i])
  PROVE  \A j \in 1 .. n : \E i \in 1 .. n : Alike(v, s[j], r[i])
  <1> TAKE j \in 1 .. n
  <1>1. PICK i \in 1 .. n : t[i] = s[j]
    OBVIOUS
  <1>2. PICK l \in 1 .. n : u[i] = r[l]
    OBVIOUS
  <1>3. Alike(v, t[i], u[i])
    OBVIOUS
  <1>4. Alike(v, s[j], r[l])
    BY <1>1, <1>2, <1>3
  <1> QED
    BY <1>4

LEMMA PairsAlike ==
  ASSUME NEW A, NEW B, NEW v, \A e \in A : \E f \in B : Alike(v, e, f)
  PROVE  {<<e.key, v[e.item]>> : e \in A} \subseteq {<<e.key, v[e.item]>> : e \in B}
  <1> SUFFICES ASSUME NEW e \in A PROVE <<e.key, v[e.item]>> \in {<<f.key, v[f.item]>> : f \in B}
    OBVIOUS
  <1>1. PICK f \in B : e.key = f.key /\ v[e.item] = v[f.item]
    BY DEF Alike
  <1> QED
    BY <1>1

\* Items of one kind, the same number in their heads: told, if their parts are.
LEMMA BodiesTold ==
  ASSUME NEW x, NEW y, WellFormed(x), WellFormed(y), x.kind = y.kind, NumberOf(x) = NumberOf(y),
         NEW c, NEW v,
         \A p \in Parts(x) : c[p] \in Seq(Byte), \A q \in Parts(y) : c[q] \in Seq(Byte),
         \A p \in Parts(x), q \in Parts(y) : Told(c[p], c[q]) /\ (c[p] = c[q] => v[p] = v[q])
  PROVE  /\ Told(BodyOf(c, x), BodyOf(c, y))
         /\ BodyOf(c, x) = BodyOf(c, y) => ValueOf(v, x) = ValueOf(v, y)
  <1>0. <<>> \in Seq(Byte) /\ \A a \in Seq(Byte) : Then(<<>>, a) = a
    BY ThenNothing
  <1>1. CASE x.kind \in {"null", "true", "false"}
    <2>1. BodyOf(c, x) = <<>> /\ BodyOf(c, y) = <<>> /\ x.content = y.content
      BY <1>1 DEF BodyOf, WellFormed
    <2>2. Told(<<>>, <<>>)
      BY <1>0 DEF Told
    <2>3. ValueOf(v, x) = ValueOf(v, y)
      BY <1>1, <2>1 DEF ValueOf
    <2> QED
      BY <2>1, <2>2, <2>3
  <1>2. CASE x.kind = "uint"
    <2>1. BodyOf(c, x) = <<>> /\ BodyOf(c, y) = <<>> /\ x.content = y.content
      BY <1>2 DEF BodyOf, NumberOf
    <2>2. Told(<<>>, <<>>)
      BY <1>0 DEF Told
    <2>3. ValueOf(v, x) = ValueOf(v, y)
      BY <1>2, <2>1 DEF ValueOf
    <2> QED
      BY <2>1, <2>2, <2>3
  <1>3. CASE x.kind \in {"tstr", "bstr"}
    <2> DEFINE a == x.content
               b == y.content
    <2>1. BodyOf(c, x) = a /\ BodyOf(c, y) = b /\ a \in Key /\ b \in Key
          /\ Number(Len(a)) = Number(Len(b))
      BY <1>3 DEF BodyOf, NumberOf, WellFormed
    <2>2. a = b => ValueOf(v, x) = ValueOf(v, y)
      BY <1>3 DEF ValueOf
    <2> HIDE DEF a, b
    <2>3. Len(a) = Len(b) /\ a \in Seq(Byte) /\ b \in Seq(Byte)
      BY <2>1, NumbersDiffer DEF Key
    <2>4. \A t, u \in Seq(Byte) : a \o t = b \o u => t = u
      BY <2>3, SplitAlike
    <2>5. Told(a, b)
      BY <2>4 DEF Told, Then
    <2> QED
      BY <2>1, <2>2, <2>5
  <1>4. CASE x.kind \in {"array", "map"}
    <2> DEFINE n == Len(x.content)
               k == Listed(c, x)
               l == Listed(c, y)
    <2>1. Len(y.content) = n
      <3>1. /\ NumberOf(x) = Number(n) /\ NumberOf(y) = Number(Len(y.content))
            /\ n \in Lengths /\ Len(y.content) \in Lengths
        BY <1>4 DEF NumberOf, WellFormed
      <3> QED
        BY <3>1, NumbersDiffer
    <2>2. /\ Indexed(k) /\ Len(k) = n /\ \A i \in 1 .. n : k[i] \in Seq(Byte)
          /\ Indexed(l) /\ Len(l) = n /\ \A i \in 1 .. n : l[i] \in Seq(Byte)
      BY <1>4, <2>1, ListedCodes
    <2>3. BodyOf(c, x) = FlattenSeq(k) /\ BodyOf(c, y) = FlattenSeq(l)
      BY <1>4 DEF BodyOf
    <2> HIDE DEF k, l
    <2>4. /\ \A i \in 1 .. n : Told(k[i], l[i])
          /\ (\A i \in 1 .. n : k[i] = l[i]) => ValueOf(v, x) = ValueOf(v, y)
      <3>1. CASE x.kind = "array"
        <4>1. \A i \in 1 .. n : /\ k[i] = c[x.content[i]] /\ x.content[i] \in Parts(x)
                                /\ l[i] = c[y.content[i]] /\ y.content[i] \in Parts(y)
          BY <3>1, <2>1 DEF Listed, Parts, k, l
        <4>2. \A i \in 1 .. n : /\ Told(k[i], l[i])
                                /\ k[i] = l[i] => v[x.content[i]] = v[y.content[i]]
          BY <4>1
        <4>3. DOMAIN x.content = 1 .. n /\ DOMAIN y.content = 1 .. n
          BY <3>1, <2>1 DEF WellFormed, Indexed
        <4>4. ASSUME \A i \in 1 .. n : k[i] = l[i]
              PROVE  ValueOf(v, x) = ValueOf(v, y)
          <5>1. [i \in 1 .. n |-> v[x.content[i]]] = [i \in 1 .. n |-> v[y.content[i]]]
            BY <4>2, <4>4
          <5> QED
            BY <3>1, <4>3, <5>1 DEF ValueOf
        <4> QED
          BY <4>2, <4>4
      <3>2. CASE x.kind = "map"
        <4> DEFINE s == x.content
                   r == y.content
                   t == Sorted(s)
                   u == Sorted(r)
        <4>1. Entries(s) /\ Entries(r) /\ Len(s) = n /\ Len(r) = n
          BY <3>2, <2>1 DEF WellFormed
        <4>2. \A i \in 1 .. n : /\ k[i] = Then(EncodedKey(t[i].key), c[t[i].item])
                                /\ l[i] = Then(EncodedKey(u[i].key), c[u[i].item])
          BY <3>2, <2>1 DEF Listed, k, l
        <4>3. \A i \in 1 .. n : /\ s[i].item \in Parts(x) /\ s[i].key \in Key
                                /\ r[i].item \in Parts(y) /\ r[i].key \in Key
          BY <3>2, <4>1 DEF Parts, Entries
        <4>4. /\ \A i \in 1 .. n : \E j \in 1 .. n : t[i] = s[j]
              /\ \A j \in 1 .. n : \E i \in 1 .. n : t[i] = s[j]
          <5> HIDE DEF s
          <5> QED
            BY <4>1, SortedEntries
        <4>5. /\ \A i \in 1 .. n : \E j \in 1 .. n : u[i] = r[j]
              /\ \A j \in 1 .. n : \E i \in 1 .. n : u[i] = r[j]
          <5> HIDE DEF r
          <5> QED
            BY <4>1, SortedEntries
        <4>6. Range(s) = {s[j] : j \in 1 .. n} /\ Range(r) = {r[j] : j \in 1 .. n}
          BY <4>1 DEF Entries, Indexed, Range
        <4>7. /\ ValueOf(v, x) = <<"map", {<<e.key, v[e.item]>> : e \in Range(s)}>>
              /\ ValueOf(v, y) = <<"map", {<<e.key, v[e.item]>> : e \in Range(r)}>>
          BY <3>2 DEF ValueOf
        <4> HIDE DEF s, r, t, u, n
        <4>8. \A i \in 1 .. n : /\ t[i].key \in Key /\ t[i].item \in Parts(x)
                                /\ u[i].key \in Key /\ u[i].item \in Parts(y)
          BY <4>3, <4>4, <4>5
        <4>9. ASSUME NEW i \in 1 .. n
              PROVE  /\ Told(k[i], l[i])
                     /\ k[i] = l[i] => t[i].key = u[i].key /\ v[t[i].item] = v[u[i].item]
          <5> DEFINE f == t[i].key
                     g == u[i].key
                     a == c[t[i].item]
                     b == c[u[i].item]
          <5>1. /\ k[i] = Then(EncodedKey(f), a) /\ l[i] = Then(EncodedKey(g), b)
                /\ f \in Key /\ g \in Key /\ a \in Seq(Byte) /\ b \in Seq(Byte) /\ Told(a, b)
                /\ a = b => v[t[i].item] = v[u[i].item]
            BY <4>2, <4>8
          <5> HIDE DEF f, g, a, b
          <5> DEFINE p == EncodedKey(f)
                     q == EncodedKey(g)
          <5>2. p \in Seq(Byte) /\ q \in Seq(Byte) /\ Told(p, q) /\ (p = q => f = g)
            BY <5>1, KeyIs, KeysTold, KeysDiffer
          <5> HIDE DEF p, q
          <5>3. Told(Then(p, a), Then(q, b)) /\ (Then(p, a) = Then(q, b) => p = q /\ a = b)
            BY <5>1, <5>2, ToldNext
          <5> QED
            BY <5>1, <5>2, <5>3 DEF p, q, f, g
        <4>10. ASSUME \A i \in 1 .. n : k[i] = l[i]
               PROVE  ValueOf(v, x) = ValueOf(v, y)
          <5>1. \A i \in 1 .. n : t[i].key = u[i].key /\ v[t[i].item] = v[u[i].item]
            BY <4>9, <4>10
          <5>2. \A i \in 1 .. n : Alike(v, t[i], u[i]) /\ Alike(v, u[i], t[i])
            BY <5>1 DEF Alike
          <5>3. \A j \in 1 .. n : \E i \in 1 .. n : Alike(v, s[j], r[i])
            BY <4>4, <4>5, <5>2, ArrangedAlike
          <5>5. \A j \in 1 .. n : \E i \in 1 .. n : Alike(v, r[j], s[i])
            BY <4>4, <4>5, <5>2, ArrangedAlike
          <5>6. \A e \in Range(s) : \E f \in Range(r) : Alike(v, e, f)
            BY <4>6, <5>3
          <5>7. \A e \in Range(r) : \E f \in Range(s) : Alike(v, e, f)
            BY <4>6, <5>5
          <5> DEFINE A == Range(s)
                     B == Range(r)
          <5>4. {<<e.key, v[e.item]>> : e \in A} = {<<e.key, v[e.item]>> : e \in B}
            <6> HIDE DEF A, B
            <6>1. {<<e.key, v[e.item]>> : e \in A} \subseteq {<<e.key, v[e.item]>> : e \in B}
              BY <5>6, PairsAlike DEF A, B
            <6>2. {<<e.key, v[e.item]>> : e \in B} \subseteq {<<e.key, v[e.item]>> : e \in A}
              BY <5>7, PairsAlike DEF A, B
            <6> QED
              BY <6>1, <6>2
          <5> QED
            BY <4>7, <5>4
        <4> QED
          BY <4>9, <4>10 DEF n
      <3> QED
        BY <1>4, <3>1, <3>2
    <2>5. /\ Told(FlattenSeq(k), FlattenSeq(l))
          /\ FlattenSeq(k) = FlattenSeq(l) => k = l
      <3> HIDE DEF n
      <3> QED
        BY <2>2, <2>4, FlattenTells
    <2> HIDE DEF n
    <2> QED
      BY <2>3, <2>4, <2>5
  <1> QED
    BY <1>1, <1>2, <1>3, <1>4 DEF WellFormed

LEMMA PairTold ==
  ASSUME NEW x, NEW y, WellFormed(x), WellFormed(y), NEW c, NEW v,
         \A p \in Parts(x) : c[p] \in Seq(Byte), \A q \in Parts(y) : c[q] \in Seq(Byte),
         \A p \in Parts(x), q \in Parts(y) : Told(c[p], c[q]) /\ (c[p] = c[q] => v[p] = v[q])
  PROVE  /\ Told(EncodeItem(c, x), EncodeItem(c, y))
         /\ EncodeItem(c, x) = EncodeItem(c, y) => ValueOf(v, x) = ValueOf(v, y)
  <1> DEFINE m == MajorOf(x)
             n == MajorOf(y)
             d == NumberOf(x)
             e == NumberOf(y)
             a == BodyOf(c, x)
             b == BodyOf(c, y)
  <1>1. /\ m \in 0 .. 7 /\ d \in EightBytes /\ a \in Seq(Byte)
        /\ EncodeItem(c, x) = Then(WriteHead(m, d), a)
    BY CodeIs
  <1>2. /\ n \in 0 .. 7 /\ e \in EightBytes /\ b \in Seq(Byte)
        /\ EncodeItem(c, y) = Then(WriteHead(n, e), b)
    BY CodeIs
  <1>3. m = n /\ d = e => x.kind = y.kind
    <2>1. /\ Number(20)[8] = 20 /\ Number(21)[8] = 21 /\ Number(22)[8] = 22
      BY SimpleHead
    <2>2. /\ x.kind = "null" => d[8] = 22
          /\ x.kind = "true" => d[8] = 21
          /\ x.kind = "false" => d[8] = 20
      BY <2>1 DEF NumberOf
    <2>3. /\ y.kind = "null" => e[8] = 22
          /\ y.kind = "true" => e[8] = 21
          /\ y.kind = "false" => e[8] = 20
      BY <2>1 DEF NumberOf
    <2>4. m = IF x.kind \in {"null", "true", "false"} THEN 7 ELSE Major(x.kind)
      BY DEF MajorOf
    <2>5. n = IF y.kind \in {"null", "true", "false"} THEN 7 ELSE Major(y.kind)
      BY DEF MajorOf
    <2> HIDE DEF d, e, m, n
    <2> QED
      BY <2>2, <2>3, <2>4, <2>5 DEF WellFormed, Major
  <1>4. m = n /\ d = e => Told(a, b) /\ (a = b => ValueOf(v, x) = ValueOf(v, y))
    BY <1>3, BodiesTold
  <1> HIDE DEF m, n, d, e, a, b
  <1>5. /\ Told(Then(WriteHead(m, d), a), Then(WriteHead(n, e), b))
        /\ Then(WriteHead(m, d), a) = Then(WriteHead(n, e), b) => m = n /\ d = e /\ a = b
    BY <1>1, <1>2, <1>4, HeadedTold
  <1> QED
    BY <1>1, <1>2, <1>4, <1>5

\* A list of m entries in the order of their encoded keys; the entries of another
\* list are all in it.
Ordered(m, t) ==
    /\ m \in Nat /\ \A i \in 1 .. m : t[i].key \in Key
    /\ \A k, l \in 1 .. m : k < l => Before(EncodedKey(t[k].key), EncodedKey(t[l].key))
Covers(n, u, m, t, v) == \A i \in 1 .. m : \E j \in 1 .. n : Alike(v, t[i], u[j])

\* Two ascending lists of the same entries are the same list.
LEMMA ListedAlike ==
  ASSUME NEW m, NEW n, NEW t, NEW u, NEW v, Ordered(m, t), Ordered(n, u),
         Covers(n, u, m, t, v), Covers(m, t, n, u, v)
  PROVE  \A i \in 1 .. m : i <= n /\ Alike(v, t[i], u[i])
  <1>0. /\ m \in Nat /\ n \in Nat
        /\ \A i \in 1 .. m : t[i].key \in Key
        /\ \A i \in 1 .. n : u[i].key \in Key
        /\ \A k, l \in 1 .. m : k < l => Before(EncodedKey(t[k].key), EncodedKey(t[l].key))
        /\ \A k, l \in 1 .. n : k < l => Before(EncodedKey(u[k].key), EncodedKey(u[l].key))
        /\ \A i \in 1 .. m : \E j \in 1 .. n : Alike(v, t[i], u[j])
        /\ \A j \in 1 .. n : \E i \in 1 .. m : Alike(v, u[j], t[i])
    BY DEF Ordered, Covers
  <1> DEFINE D == {i \in 1 .. m : ~(i <= n /\ Alike(v, t[i], u[i]))}
  <1>1. SUFFICES ASSUME D # {} PROVE FALSE
    OBVIOUS
  <1>2. D \in SUBSET Nat
    BY <1>0
  <1>3. PICK i \in D : \A j \in D : i <= j
    BY <1>1, <1>2, LeastNat
  <1>4. i \in 1 .. m /\ ~(i <= n /\ Alike(v, t[i], u[i]))
    BY <1>3
  <1>5. \A j \in 1 .. m : j < i => j \in 1 .. n /\ Alike(v, t[j], u[j])
    <2>1. \A j \in 1 .. m : j < i => j \notin D
      BY <1>0, <1>2, <1>3
    <2> QED
      BY <1>0, <1>2, <2>1
  <1> HIDE DEF D
  <1> DEFINE e == [k \in 1 .. m |-> EncodedKey(t[k].key)]
             f == [k \in 1 .. n |-> EncodedKey(u[k].key)]
  <1>6. /\ \A k \in 1 .. m : e[k] \in Seq(Byte)
        /\ \A k \in 1 .. n : f[k] \in Seq(Byte)
        /\ \A k, l \in 1 .. m : k < l => Before(e[k], e[l])
        /\ \A k, l \in 1 .. n : k < l => Before(f[k], f[l])
        /\ \A k \in 1 .. m, l \in 1 .. n : Alike(v, t[k], u[l]) => e[k] = f[l]
        /\ \A k \in 1 .. m, l \in 1 .. n : Alike(v, u[l], t[k]) => e[k] = f[l]
    BY <1>0, KeyIs DEF Alike
  <1> HIDE DEF e, f
  <1>7. PICK l \in 1 .. n : Alike(v, t[i], u[l])
    BY <1>0, <1>4
  <1>8. ~(l < i)
    <2>1. ASSUME l < i PROVE FALSE
      <3>1. l \in 1 .. m
        <4>1. l \in Nat /\ i \in Nat /\ 1 <= l /\ i <= m
          BY <1>0, <1>4
        <4> QED
          BY <1>0, <2>1, <4>1
      <3>2. e[l] = f[l] /\ e[i] = f[l] /\ Before(e[l], e[i]) /\ e[i] \in Seq(Byte)
        BY <1>4, <1>5, <1>6, <1>7, <2>1, <3>1
      <3> QED
        BY <3>2, BeforeIrreflexive
    <2> QED
      BY <2>1
  <1>9. i \in 1 .. n /\ i < l
    <2>1. i # l
      BY <1>4, <1>7
    <2>2. i \in Nat /\ l \in Nat /\ n \in Nat /\ 1 <= i /\ l <= n
      BY <1>0, <1>4
    <2>3. i < l
      BY <1>8, <2>1, <2>2
    <2> QED
      BY <2>2, <2>3
  <1>10. PICK h \in 1 .. m : Alike(v, u[i], t[h])
    BY <1>0, <1>9
  <1>11. e[h] = f[i] /\ e[i] = f[l] /\ Before(f[i], f[l]) /\ e[i] \in Seq(Byte) /\ f[i] \in Seq(Byte)
    BY <1>4, <1>6, <1>7, <1>9, <1>10
  <1>12. h # i
    BY <1>11, BeforeIrreflexive
  <1>13. ~(h < i)
    <2>1. ASSUME h < i PROVE FALSE
      <3>1. h \in 1 .. n /\ e[h] = f[h]
        BY <1>5, <1>6, <2>1
      <3>2. Before(f[h], f[i])
        BY <1>6, <1>9, <2>1, <3>1
      <3> QED
        BY <1>11, <3>1, <3>2, BeforeIrreflexive
    <2> QED
      BY <2>1
  <1>14. i < h
    <2>1. i \in Nat /\ h \in Nat
      BY <1>0, <1>4
    <2> QED
      BY <1>12, <1>13, <2>1
  <1>15. Before(e[i], f[i]) /\ Before(f[i], e[i])
    BY <1>4, <1>6, <1>11, <1>14
  <1> QED
    BY <1>11, <1>15, BeforeTransitive, BeforeIrreflexive

LEMMA SortedAlike ==
  ASSUME NEW s, NEW r, NEW v, Entries(s), Entries(r),
         \A i \in 1 .. Len(s) : \E j \in 1 .. Len(r) : Alike(v, s[i], r[j]),
         \A i \in 1 .. Len(r) : \E j \in 1 .. Len(s) : Alike(v, r[i], s[j])
  PROVE  /\ Len(s) = Len(r)
         /\ \A i \in 1 .. Len(s) : Alike(v, Sorted(s)[i], Sorted(r)[i])
  <1> DEFINE m == Len(s)
             n == Len(r)
             t == Sorted(s)
             u == Sorted(r)
  <1>1. /\ m \in Nat /\ n \in Nat
        /\ \A i \in 1 .. m : s[i].key \in Key
        /\ \A i \in 1 .. n : r[i].key \in Key
    BY DEF Entries, Indexed
  <1>2. /\ \A k \in 1 .. m : \E i \in 1 .. m : t[k] = s[i]
        /\ \A i \in 1 .. m : \E k \in 1 .. m : t[k] = s[i]
        /\ \A k, l \in 1 .. m : k < l => Before(EncodedKey(t[k].key), EncodedKey(t[l].key))
    BY SortedEntries
  <1>3. /\ \A k \in 1 .. n : \E i \in 1 .. n : u[k] = r[i]
        /\ \A i \in 1 .. n : \E k \in 1 .. n : u[k] = r[i]
        /\ \A k, l \in 1 .. n : k < l => Before(EncodedKey(u[k].key), EncodedKey(u[l].key))
    BY SortedEntries
  <1>0. /\ \A i \in 1 .. m : \E j \in 1 .. n : Alike(v, s[i], r[j])
        /\ \A i \in 1 .. n : \E j \in 1 .. m : Alike(v, r[i], s[j])
    OBVIOUS
  <1> HIDE DEF m, n, t, u
  <1>4. /\ \A k \in 1 .. m : t[k].key \in Key
        /\ \A k \in 1 .. n : u[k].key \in Key
    BY <1>1, <1>2, <1>3
  <1>5. Ordered(m, t) /\ Ordered(n, u)
    BY <1>1, <1>2, <1>3, <1>4 DEF Ordered
  <1>6. Covers(n, u, m, t, v)
    BY <1>0, <1>2, <1>3 DEF Covers
  <1>7. Covers(m, t, n, u, v)
    BY <1>0, <1>2, <1>3 DEF Covers
  <1>8. \A i \in 1 .. m : i <= n /\ Alike(v, t[i], u[i])
    BY <1>5, <1>6, <1>7, ListedAlike
  <1>9. \A i \in 1 .. n : i <= m /\ Alike(v, u[i], t[i])
    BY <1>5, <1>6, <1>7, ListedAlike
  <1>10. m = n
    <2>1. m <= n
      BY <1>1, <1>8
    <2>2. n <= m
      BY <1>1, <1>9
    <2> QED
      BY <1>1, <2>1, <2>2
  <1> QED
    BY <1>8, <1>10 DEF m, n, t, u

LEMMA PairSays ==
  ASSUME NEW x, NEW y, WellFormed(x), WellFormed(y), NEW c, NEW v,
         ValueOf(v, x) = ValueOf(v, y),
         \A p \in Parts(x), q \in Parts(y) : v[p] = v[q] => c[p] = c[q]
  PROVE  EncodeItem(c, x) = EncodeItem(c, y)
  <1>1. x.kind = y.kind
    BY DEF ValueOf
  <1>2. CASE x.kind \notin {"array", "map"}
    <2>1. x.content = y.content
      BY <1>1, <1>2 DEF ValueOf
    <2> QED
      BY <1>1, <1>2, <2>1 DEF EncodeItem, WellFormed
  <1>3. CASE x.kind = "array"
    <2> DEFINE s == x.content
               r == y.content
    <2>1. /\ DOMAIN s = 1 .. Len(s) /\ DOMAIN r = 1 .. Len(r)
          /\ Len(s) \in Nat /\ Len(r) \in Nat
      BY <1>1, <1>3 DEF WellFormed, Indexed
    <2>2. [i \in DOMAIN s |-> v[s[i]]] = [i \in DOMAIN r |-> v[r[i]]]
      BY <1>1, <1>3 DEF ValueOf
    <2>3. \A i \in DOMAIN s, j \in DOMAIN r : v[s[i]] = v[r[j]] => c[s[i]] = c[r[j]]
      BY <1>1, <1>3, <2>1 DEF Parts
    <2>4. /\ EncodeItem(c, x) = WriteHead(Major("array"), Number(Len(s)))
                                \o FlattenSeq([i \in DOMAIN s |-> c[s[i]]])
          /\ EncodeItem(c, y) = WriteHead(Major("array"), Number(Len(r)))
                                \o FlattenSeq([i \in DOMAIN r |-> c[r[i]]])
      BY <1>1, <1>3 DEF EncodeItem
    <2> HIDE DEF s, r
    <2>5. DOMAIN s = DOMAIN r /\ \A i \in DOMAIN s : v[s[i]] = v[r[i]]
      <3> DEFINE f == [i \in DOMAIN s |-> v[s[i]]]
                 g == [i \in DOMAIN r |-> v[r[i]]]
      <3>1. f = g /\ DOMAIN f = DOMAIN s /\ DOMAIN g = DOMAIN r
        BY <2>2
      <3>2. \A i \in DOMAIN s : f[i] = v[s[i]]
        OBVIOUS
      <3>3. \A i \in DOMAIN r : g[i] = v[r[i]]
        OBVIOUS
      <3> HIDE DEF f, g
      <3> QED
        BY <3>1, <3>2, <3>3
    <2>6. [i \in DOMAIN s |-> c[s[i]]] = [i \in DOMAIN r |-> c[r[i]]]
      BY <2>3, <2>5
    <2>7. Len(s) = Len(r)
      <3> DEFINE m == Len(s)
                 n == Len(r)
      <3>1. m \in Nat /\ n \in Nat /\ 1 .. m = 1 .. n
        BY <2>1, <2>5
      <3> HIDE DEF m, n
      <3>2. m = n
        BY <3>1
      <3> QED
        BY <3>2 DEF m, n
    <2> QED
      BY <2>4, <2>6, <2>7
  <1>4. CASE x.kind = "map"
    <2> DEFINE s == x.content
               r == y.content
               t == Sorted(s)
               u == Sorted(r)
               pair(e) == <<e.key, v[e.item]>>
    <2>1. Entries(s) /\ Entries(r)
      BY <1>1, <1>4 DEF WellFormed
    <2>2. Range(s) = {s[j] : j \in 1 .. Len(s)} /\ Range(r) = {r[j] : j \in 1 .. Len(r)}
      BY <2>1 DEF Entries, Indexed, Range
    <2>3. {pair(e) : e \in Range(s)} = {pair(e) : e \in Range(r)}
      BY <1>1, <1>4 DEF ValueOf
    <2>4. \A i \in 1 .. Len(s), j \in 1 .. Len(r) :
             v[s[i].item] = v[r[j].item] => c[s[i].item] = c[r[j].item]
      BY <1>1, <1>4 DEF Parts
    <2>5. /\ EncodeItem(c, x) = WriteHead(Major("map"), Number(Len(t)))
                \o FlattenSeq([i \in DOMAIN t |-> EncodedKey(t[i].key) \o c[t[i].item]])
          /\ EncodeItem(c, y) = WriteHead(Major("map"), Number(Len(u)))
                \o FlattenSeq([i \in DOMAIN u |-> EncodedKey(u[i].key) \o c[u[i].item]])
      BY <1>1, <1>4 DEF EncodeItem
    <2> HIDE DEF s, r
    <2>6. \A e, f : pair(e) = pair(f) => Alike(v, e, f) /\ Alike(v, f, e)
      BY DEF Alike
    <2> HIDE DEF pair
    <2>7. /\ \A e \in Range(s) : \E f \in Range(r) : Alike(v, e, f)
          /\ \A e \in Range(r) : \E f \in Range(s) : Alike(v, e, f)
      <3>1. ASSUME NEW e \in Range(s) PROVE \E f \in Range(r) : Alike(v, e, f)
        <4>1. \E f \in Range(r) : pair(e) = pair(f)
          BY <2>3
        <4> QED
          BY <2>6, <4>1
      <3>2. ASSUME NEW e \in Range(r) PROVE \E f \in Range(s) : Alike(v, e, f)
        <4>1. \E f \in Range(s) : pair(e) = pair(f)
          BY <2>3
        <4> QED
          BY <2>6, <4>1
      <3> QED
        BY <3>1, <3>2
    <2>8. /\ \A i \in 1 .. Len(s) : \E j \in 1 .. Len(r) : Alike(v, s[i], r[j])
          /\ \A i \in 1 .. Len(r) : \E j \in 1 .. Len(s) : Alike(v, r[i], s[j])
      BY <2>2, <2>7
    <2>9. Len(s) = Len(r) /\ \A i \in 1 .. Len(s) : Alike(v, t[i], u[i])
      BY <2>1, <2>8, SortedAlike
    <2>10. /\ DOMAIN t = 1 .. Len(s) /\ Len(t) = Len(s)
           /\ DOMAIN u = 1 .. Len(r) /\ Len(u) = Len(r)
           /\ \A k \in 1 .. Len(s) : \E i \in 1 .. Len(s) : t[k] = s[i]
           /\ \A k \in 1 .. Len(r) : \E i \in 1 .. Len(r) : u[k] = r[i]
      BY <2>1, SortedEntries, SortedIndexed
    <2> HIDE DEF t, u
    <2>11. \A i \in DOMAIN t : t[i].key = u[i].key /\ c[t[i].item] = c[u[i].item]
      <3> SUFFICES ASSUME NEW i \in 1 .. Len(s)
                   PROVE  t[i].key = u[i].key /\ c[t[i].item] = c[u[i].item]
        BY <2>10
      <3>1. i \in 1 .. Len(r) /\ t[i].key = u[i].key /\ v[t[i].item] = v[u[i].item]
        BY <2>9 DEF Alike
      <3>2. PICK j \in 1 .. Len(s) : t[i] = s[j]
        BY <2>10
      <3>3. PICK k \in 1 .. Len(r) : u[i] = r[k]
        BY <2>10, <3>1
      <3>4. v[s[j].item] = v[r[k].item] => c[s[j].item] = c[r[k].item]
        BY <2>4
      <3> QED
        BY <3>1, <3>2, <3>3, <3>4
    <2>12. [i \in DOMAIN t |-> EncodedKey(t[i].key) \o c[t[i].item]]
           = [i \in DOMAIN u |-> EncodedKey(u[i].key) \o c[u[i].item]]
      BY <2>9, <2>10, <2>11
    <2> QED
      BY <2>5, <2>9, <2>10, <2>12
  <1> QED
    BY <1>2, <1>3, <1>4

\* Codes of items agree with what the items say.
Agree(c, v, x, y) ==
    /\ c[x] \in Seq(Byte) /\ c[y] \in Seq(Byte) /\ Told(c[x], c[y])
    /\ c[x] = c[y] <=> v[x] = v[y]

LEMMA CodesAgree ==
  ASSUME NEW S, NEW depth, NEW n, Composed(S, depth, n)
  PROVE  \A x, y \in S : Agree(Encoding(S), Values(S), x, y)
  <1> DEFINE c == Encoding(S)
             v == Values(S)
  <1>1. \A x \in S : c[x] = EncodeItem(c, x) /\ v[x] = ValueOf(v, x)
    BY EncodingDef, ValuesDef
  <1> HIDE DEF c, v
  <1> DEFINE Upto(m) == {x \in S : depth[x] < m}
             T == {m \in Nat : \A x, y \in Upto(m) : Agree(c, v, x, y)}
  <1>2. /\ n \in Nat /\ \A x \in S : depth[x] \in 0 .. n
        /\ \A x \in S : WellFormed(x) /\ \A y \in Parts(x) : y \in S /\ depth[y] < depth[x]
    BY DEF Composed
  <1>3. 0 \in T
    BY <1>2
  <1>4. ASSUME NEW m \in Nat, m \in T PROVE m + 1 \in T
    <2> SUFFICES ASSUME NEW x \in Upto(m + 1), NEW y \in Upto(m + 1) PROVE Agree(c, v, x, y)
      OBVIOUS
    <2>1. WellFormed(x) /\ WellFormed(y) /\ x \in S /\ y \in S
      BY <1>2
    <2>2. (\A p \in Parts(x) : p \in Upto(m)) /\ (\A q \in Parts(y) : q \in Upto(m))
      BY <1>2
    <2>3. \A p, q \in Upto(m) : Agree(c, v, p, q)
      BY <1>4
    <2> HIDE DEF T, Upto
    <2>4. /\ \A p \in Parts(x) : c[p] \in Seq(Byte)
          /\ \A q \in Parts(y) : c[q] \in Seq(Byte)
          /\ \A p \in Parts(x), q \in Parts(y) : Told(c[p], c[q]) /\ (c[p] = c[q] => v[p] = v[q])
          /\ \A p \in Parts(x), q \in Parts(y) : v[p] = v[q] => c[p] = c[q]
      BY <2>2, <2>3 DEF Agree
    <2>5. /\ Told(EncodeItem(c, x), EncodeItem(c, y))
          /\ EncodeItem(c, x) = EncodeItem(c, y) => ValueOf(v, x) = ValueOf(v, y)
      BY <2>1, <2>4, PairTold
    <2>6. ValueOf(v, x) = ValueOf(v, y) => EncodeItem(c, x) = EncodeItem(c, y)
      <3> SUFFICES ASSUME ValueOf(v, x) = ValueOf(v, y)
                   PROVE  EncodeItem(c, x) = EncodeItem(c, y)
        OBVIOUS
      <3>1. WellFormed(x) /\ WellFormed(y)
        BY <2>1
      <3>2. \A p \in Parts(x), q \in Parts(y) : v[p] = v[q] => c[p] = c[q]
        BY <2>4
      <3>3. ValueOf(v, x) = ValueOf(v, y)
        OBVIOUS
      <3> QED
        BY ONLY <3>1, <3>2, <3>3, PairSays
    <2>7. EncodeItem(c, x) \in Seq(Byte) /\ EncodeItem(c, y) \in Seq(Byte)
      <3>1. ASSUME NEW z, WellFormed(z), \A p \in Parts(z) : c[p] \in Seq(Byte)
            PROVE  EncodeItem(c, z) \in Seq(Byte)
        <4>1. /\ MajorOf(z) \in 0 .. 7 /\ NumberOf(z) \in EightBytes /\ BodyOf(c, z) \in Seq(Byte)
              /\ EncodeItem(c, z) = Then(WriteHead(MajorOf(z), NumberOf(z)), BodyOf(c, z))
          BY <3>1, CodeIs
        <4> QED
          BY <4>1, HeadCode, ThenCode
      <3> QED
        BY <2>1, <2>4, <3>1
    <2> QED
      BY <1>1, <2>1, <2>5, <2>6, <2>7 DEF Agree
  <1>5. n + 1 \in T
    <2>1. n + 1 \in Nat
      BY <1>2
    <2> HIDE DEF T
    <2> QED
      BY <1>3, <1>4, <2>1, Induct
  <1>6. Upto(n + 1) = S
    BY <1>2
  <1>7. \A x, y \in S : Agree(c, v, x, y)
    <2> HIDE DEF Upto
    <2> QED
      BY <1>5, <1>6
  <1> QED
    BY <1>7 DEF c, v

LEMMA PrefixThen ==
  ASSUME NEW a \in Seq(Byte), NEW b \in Seq(Byte)
  PROVE  IsPrefix(a, b) <=> \E w \in Seq(Byte) : b = Then(a, w)
  <1>1. ASSUME NEW w \in Seq(Byte), b = Then(a, w) PROVE IsPrefix(a, b)
    <2>1. Len(b) = Len(a) + Len(w) /\ \A i \in 1 .. Len(a) : b[i] = a[i]
      BY <1>1, ConcatProperties DEF Then
    <2>2. Len(a) \in Nat /\ Len(w) \in Nat /\ Len(b) \in Nat
      OBVIOUS
    <2>3. Len(a) <= Len(b)
      <3> DEFINE p == Len(a)
                 q == Len(w)
                 r == Len(b)
      <3>1. p \in Nat /\ q \in Nat /\ r = p + q
        BY <2>1, <2>2
      <3> HIDE DEF p, q, r
      <3>2. p <= r
        BY <3>1
      <3> QED
        BY <3>2 DEF p, r
    <2>4. SubSeq(a, 1, Len(a)) = SubSeq(b, 1, Len(a))
      BY <2>1, <2>2, <2>3, SubSeqProperties
    <2> QED
      BY <2>3, <2>4 DEF IsPrefix
  <1>2. ASSUME IsPrefix(a, b) PROVE \E w \in Seq(Byte) : b = Then(a, w)
    <2> DEFINE w == SubSeq(b, Len(a) + 1, Len(b))
    <2>1. Len(a) <= Len(b) /\ SubSeq(a, 1, Len(a)) = SubSeq(b, 1, Len(a))
      BY <1>2 DEF IsPrefix
    <2>2. w \in Seq(Byte)
      OBVIOUS
    <2>3. \A i \in 1 .. Len(a) : b[i] = a[i]
      BY <2>1
    <2>4. b = a \o w
      BY <2>1, <2>3
    <2> QED
      BY <2>2, <2>4 DEF Then
  <1> QED
    BY <1>1, <1>2

\* Over any set of items that holds their parts, of any depth, any number of keys
\* and entries and any bytes: an item's encoding is, or begins, that of another just
\* when the two say the same, in whatever order their entries are listed.  Neither a
\* bundle nor what follows it can so be read as another under the same signature.
THEOREM EncodingsCanonical ==
  ASSUME NEW S, NEW depth, NEW n, Composed(S, depth, n), NEW x \in S, NEW y \in S
  PROVE  IsPrefix(Encoding(S)[x], Encoding(S)[y]) <=> Values(S)[x] = Values(S)[y]
  <1> DEFINE a == Encoding(S)[x]
             b == Encoding(S)[y]
             v == Values(S)[x]
             w == Values(S)[y]
  <1>1. a \in Seq(Byte) /\ b \in Seq(Byte) /\ Told(a, b) /\ (a = b <=> v = w)
    BY CodesAgree DEF Agree
  <1> HIDE DEF a, b, v, w
  <1>2. IsPrefix(a, b) <=> \E u \in Seq(Byte) : b = Then(a, u)
    BY <1>1, PrefixThen
  <1>3. <<>> \in Seq(Byte) /\ Then(a, <<>>) = a /\ Then(b, <<>>) = b
    BY <1>1, ThenNothing
  <1>4. ASSUME NEW u \in Seq(Byte), b = Then(a, u) PROVE a = b
    <2> DEFINE z == <<>>
    <2>1. z \in Seq(Byte) /\ Then(a, u) = Then(b, z)
      BY <1>3, <1>4
    <2> HIDE DEF z
    <2> QED
      BY <1>1, <2>1, ToldEqual
  <1>5. IsPrefix(a, b) <=> v = w
    BY <1>1, <1>2, <1>3, <1>4
  <1> QED
    BY <1>5 DEF a, b, v, w

--------------------------------------------------------------------------------
(* The items of the run *)

LEMMA RepeatIsKey ==
  ASSUME NEW n \in {0, 1, 2, 23, 24, 25}
  PROVE  Repeat(97, n) \in Key
  <1> DEFINE r == [i \in 1 .. n |-> 97]
  <1>1. r \in Seq(Byte) /\ Len(r) = n
    BY DEF Byte
  <1>2. n \in Lengths
    BY SMT DEF Lengths
  <1> QED
    BY <1>1, <1>2 DEF Key, Repeat

LEMMA KeysAreKeys == Keys \subseteq Key
  <1>1. 97 \in Byte /\ 98 \in Byte
    BY DEF Byte
  <1>2. 1 \in Lengths /\ 2 \in Lengths
    BY SMT DEF Lengths
  <1>3. <<97>> \in Key /\ <<98>> \in Key
    BY <1>1, <1>2 DEF Key
  <1>4. <<97, 97>> \in Key /\ <<98, 97>> \in Key
    BY <1>1, <1>2 DEF Key
  <1> QED
    BY <1>3, <1>4, RepeatIsKey DEF Keys

LEMMA ObjectEntries ==
  ASSUME NEW S, NEW x \in Objects(S)
  PROVE  /\ x.kind = "map" /\ Entries(x.content) /\ Len(x.content) \in 0 .. 2
         /\ \A i \in 1 .. Len(x.content) : x.content[i].item \in S
  <1> DEFINE Taken == /\ x.kind = "map" /\ Entries(x.content) /\ Len(x.content) \in 0 .. 2
                      /\ \A i \in 1 .. Len(x.content) : x.content[i].item \in S
  <1>1. ASSUME x = Object(<<>>) PROVE Taken
    <2> DEFINE s == <<>>
    <2>1. Indexed(s) /\ Len(s) = 0
      BY DEF Indexed
    <2>2. x.content = s /\ x.kind = "map"
      BY <1>1 DEF Object
    <2> HIDE DEF s
    <2> QED
      BY <2>1, <2>2 DEF Entries
  <1>2. ASSUME NEW k \in Keys, NEW v \in S, x = Object(<<Entry(k, v)>>)
        PROVE  Taken
    <2> DEFINE s == <<Entry(k, v)>>
    <2>1. Indexed(s) /\ Len(s) = 1 /\ s[1].key = k /\ s[1].item = v
      BY DEF Indexed, Entry
    <2>2. x.content = s /\ x.kind = "map"
      BY <1>2 DEF Object
    <2> HIDE DEF s
    <2>3. k \in Key
      BY KeysAreKeys
    <2>4. 1 .. Len(s) = {1}
      BY <2>1
    <2>5. Entries(s)
      BY <2>1, <2>3, <2>4 DEF Entries
    <2>6. Len(s) \in 0 .. 2 /\ \A i \in 1 .. Len(s) : s[i].item \in S
      BY <2>1, <2>4
    <2> QED
      BY <2>2, <2>5, <2>6
  <1>3. ASSUME NEW p \in {q \in Keys \X Keys : q[1] # q[2]}, NEW v \in S, NEW w \in S,
               x = Object(<<Entry(p[1], v), Entry(p[2], w)>>)
        PROVE  Taken
    <2> DEFINE s == <<Entry(p[1], v), Entry(p[2], w)>>
    <2>1. Indexed(s) /\ Len(s) = 2 /\ s[1].key = p[1] /\ s[2].key = p[2]
          /\ s[1].item = v /\ s[2].item = w
      BY DEF Indexed, Entry
    <2>2. x.content = s /\ x.kind = "map"
      BY <1>3 DEF Object
    <2> HIDE DEF s
    <2>3. p[1] \in Key /\ p[2] \in Key /\ p[1] # p[2]
      BY KeysAreKeys
    <2>4. 1 .. Len(s) = {1, 2}
      BY <2>1
    <2>5. Entries(s)
      BY <2>1, <2>3, <2>4 DEF Entries
    <2>6. Len(s) \in 0 .. 2 /\ \A i \in 1 .. Len(s) : s[i].item \in S
      BY <2>1, <2>4
    <2> QED
      BY <2>2, <2>5, <2>6
  <1> HIDE DEF Taken
  <1>4. Taken
    <2>1. \/ x = Object(<<>>)
          \/ \E k \in Keys, v \in S : x = Object(<<Entry(k, v)>>)
          \/ \E p \in {q \in Keys \X Keys : q[1] # q[2]}, v, w \in S :
                x = Object(<<Entry(p[1], v), Entry(p[2], w)>>)
      <3> DEFINE P == {q \in Keys \X Keys : q[1] # q[2]}
                 one(k, v) == Object(<<Entry(k, v)>>)
                 two(p, v, w) == Object(<<Entry(p[1], v), Entry(p[2], w)>>)
      <3>1. x \in {Object(<<>>)} \cup {one(k, v) : k \in Keys, v \in S}
                 \cup {two(p, v, w) : p \in P, v, w \in S}
        BY DEF Objects
      <3> HIDE DEF P, one, two
      <3>2. \/ x = Object(<<>>)
            \/ \E k \in Keys, v \in S : x = one(k, v)
            \/ \E p \in P, v, w \in S : x = two(p, v, w)
        BY <3>1
      <3> QED
        BY <3>2, Zenon DEF P, one, two
    <2> QED
      BY <1>1, <1>2, <1>3, <2>1, Zenon
  <1> QED
    BY <1>4 DEF Taken

LEMMA ItemsTaken == Spec => [](item \in Items)
  <1>1. Null \in Items
    <2>1. Null \in Few
      BY DEF Few
    <2>2. Simple("null") \in Scalars
      BY DEF Scalars
    <2> QED
      BY <2>2 DEF Items, Null
  <1>2. Init => item \in Items
    BY <1>1 DEF Init
  <1>3. item \in Items /\ [Next]_<<leaves, item>> => (item \in Items)'
    BY <1>1 DEF Next, Add, Drop, Take, Put
  <1> QED
    BY <1>2, <1>3, PTL DEF Spec

\* Every object is encoded with its keys in the ascending order of their bytes.
THEOREM ObjectsKeysAscend == Spec => []KeysAscend
  <1>1. item \in Items => KeysAscend
    <2> SUFFICES ASSUME item \in Items, item.kind = "map"
                 PROVE  Entries(item.content)
      BY EntriesAscend DEF KeysAscend
    <2>1. item \in Objects({Null, Text(<<97>>)}) \/ item \in Objects(Inner)
      <3>1. item \notin Scalars
        BY DEF Scalars, Simple, Uint, Text, Bytes
      <3>2. \A S : item \notin Arrays(S)
        BY DEF Arrays, Array
      <3> QED
        BY <3>1, <3>2 DEF Items, Nested
    <2> QED
      BY <2>1, ObjectEntries
  <1> QED
    BY <1>1, ItemsTaken, PTL

LEMMA NumbersAreNumbers == Numbers \subseteq EightBytes
  <1>1. ASSUME NEW n \in {0, 1, 23, 24, 25, 255, 256, 258, 65535, 65536, 16777216, 16909060}
        PROVE  Number(n) \in EightBytes
    <2>1. n \in Lengths
      BY SMT DEF Lengths
    <2> QED
      BY <2>1, NumberFits
  <1>2. 0 .. 7 \subseteq Byte /\ {24, 31, 128, 129, 255} \subseteq Byte
    BY DEF Byte
  <1>3. /\ <<0, 0, 0, 0, 255, 255, 255, 255>> \in EightBytes
        /\ <<0, 0, 0, 1, 0, 0, 0, 0>> \in EightBytes
        /\ <<0, 0, 0, 1, 0, 0, 0, 24>> \in EightBytes
        /\ <<0, 31, 255, 255, 255, 255, 255, 255>> \in EightBytes
        /\ <<0, 0, 0, 0, 128, 1, 2, 3>> \in EightBytes
        /\ <<0, 1, 2, 3, 129, 5, 6, 7>> \in EightBytes
    BY <1>2 DEF EightBytes
  <1> QED
    BY <1>1, <1>3 DEF Numbers

LEMMA StringsAreKeys == Strings \subseteq Key
  <1>1. 96 \in Byte /\ 97 \in Byte /\ 98 \in Byte
    BY DEF Byte
  <1>2. 1 \in Lengths /\ 2 \in Lengths
    BY SMT DEF Lengths
  <1>3. <<98>> \in Key /\ <<96>> \in Key
    BY <1>1, <1>2 DEF Key
  <1>4. <<97, 98>> \in Key /\ <<98, 97>> \in Key /\ <<96, 97>> \in Key
    BY <1>1, <1>2 DEF Key
  <1> QED
    BY <1>3, <1>4, RepeatIsKey DEF Strings

LEMMA ArrayItems ==
  ASSUME NEW S, NEW x \in Arrays(S)
  PROVE  /\ x.kind = "array" /\ Indexed(x.content) /\ Len(x.content) \in 0 .. 2
         /\ \A i \in 1 .. Len(x.content) : x.content[i] \in S
  <1>1. PICK n \in 0 .. 2 : \E s \in [1 .. n -> S] : x = Array(s)
    BY DEF Arrays
  <1>2. PICK s \in [1 .. n -> S] : x = Array(s)
    BY <1>1
  <1>3. Indexed(s) /\ Len(s) = n
    BY IndexedBy
  <1>4. x.kind = "array" /\ x.content = s
    BY <1>2 DEF Array
  <1> QED
    BY <1>3, <1>4

LEMMA FewAreScalars == Few \subseteq Scalars
  <1>1. /\ Number(0) \in Numbers /\ <<97>> \in Strings /\ <<>> \in Strings
    <2>1. Repeat(97, 1) = <<97>> /\ Repeat(97, 0) = <<>>
      BY DEF Repeat
    <2>2. Repeat(97, 1) \in Strings /\ Repeat(97, 0) \in Strings
      BY DEF Strings
    <2> QED
      BY <2>1, <2>2 DEF Numbers
  <1> QED
    BY <1>1 DEF Few, Scalars, Null

LEMMA InnerAreNested == Inner \subseteq Nested
  <1>1. ASSUME NEW n \in 0 .. 2, NEW s \in [1 .. n -> Few] PROVE Array(s) \in Nested
    BY DEF Nested, Arrays
  <1>2. Null \in Few
    BY DEF Few
  <1>3. Array(<<>>) \in Nested
    <2> DEFINE s == <<>>
               n == 0
    <2>1. s \in [1 .. n -> Few] /\ n \in 0 .. 2
      OBVIOUS
    <2> HIDE DEF s, n
    <2>2. Array(s) \in Nested
      BY <1>1, <2>1
    <2> QED
      BY <2>2 DEF s
  <1>4. Array(<<Null>>) \in Nested
    <2> DEFINE s == <<Null>>
    <2>1. s \in [1 .. 1 -> Few]
      BY <1>2
    <2> QED
      BY <1>1, <2>1
  <1>5. Object(<<>>) \in Nested
    BY DEF Nested, Objects
  <1>6. <<97>> \in Keys /\ <<98>> \in Keys /\ <<97>> # <<98>>
    BY DEF Keys
  <1>7. ASSUME NEW p \in {q \in Keys \X Keys : q[1] # q[2]}
        PROVE  Object(<<Entry(p[1], Null), Entry(p[2], Null)>>) \in Nested
    <2> DEFINE W == {Null, Text(<<97>>)}
               P == {q \in Keys \X Keys : q[1] # q[2]}
               two(q, v, w) == Object(<<Entry(q[1], v), Entry(q[2], w)>>)
    <2>1. Null \in W /\ p \in P
      OBVIOUS
    <2>2. {two(q, v, w) : q \in P, v, w \in W} \subseteq Nested
      <3> DEFINE one(k, v) == Object(<<Entry(k, v)>>)
      <3>1. Objects(W) = {Object(<<>>)} \cup {one(k, v) : k \in Keys, v \in W}
                         \cup {two(q, v, w) : q \in P, v, w \in W}
        BY DEF Objects
      <3>2. Objects(W) \subseteq Nested
        BY DEF Nested
      <3> HIDE DEF W, P, one, two
      <3> QED
        BY <3>1, <3>2
    <2> HIDE DEF W, P, two
    <2>3. two(p, Null, Null) \in Nested
      BY <2>1, <2>2
    <2> QED
      BY <2>3 DEF two
  <1>8. /\ Object(<<Entry(<<97>>, Null), Entry(<<98>>, Null)>>) \in Nested
        /\ Object(<<Entry(<<98>>, Null), Entry(<<97>>, Null)>>) \in Nested
    <2> DEFINE a == <<97>>
               b == <<98>>
    <2>1. a \in Keys /\ b \in Keys /\ a # b
      BY <1>6
    <2> HIDE DEF a, b
    <2>2. <<a, b>> \in {q \in Keys \X Keys : q[1] # q[2]}
      BY <2>1
    <2>3. <<b, a>> \in {q \in Keys \X Keys : q[1] # q[2]}
      BY <2>1
    <2>4. Object(<<Entry(a, Null), Entry(b, Null)>>) \in Nested
      BY <1>7, <2>2
    <2>5. Object(<<Entry(b, Null), Entry(a, Null)>>) \in Nested
      BY <1>7, <2>3
    <2> QED
      BY <2>4, <2>5 DEF a, b
  <1> QED
    BY <1>3, <1>4, <1>5, <1>8 DEF Inner

LEMMA ScalarWellFormed ==
  ASSUME NEW x \in Scalars
  PROVE  WellFormed(x) /\ Parts(x) = {} /\ x.kind \notin {"array", "map"}
  BY NumbersAreNumbers, StringsAreKeys
     DEF Scalars, Simple, Uint, Text, Bytes, WellFormed, Parts

LEMMA HoldersWellFormed ==
  ASSUME NEW S, NEW x, x \in Arrays(S) \/ x \in Objects(S)
  PROVE  WellFormed(x) /\ Parts(x) \subseteq S /\ x.kind \in {"array", "map"}
  <1>1. 0 \in Lengths /\ 1 \in Lengths /\ 2 \in Lengths
    BY SMT DEF Lengths
  <1>2. \A n \in 0 .. 2 : n \in Lengths
    BY <1>1
  <1>3. CASE x \in Arrays(S)
    <2>1. /\ x.kind = "array" /\ Indexed(x.content) /\ Len(x.content) \in 0 .. 2
          /\ \A i \in 1 .. Len(x.content) : x.content[i] \in S
      BY <1>3, ArrayItems
    <2> QED
      BY <1>2, <2>1 DEF WellFormed, Parts
  <1>4. CASE x \in Objects(S)
    <2>1. /\ x.kind = "map" /\ Entries(x.content) /\ Len(x.content) \in 0 .. 2
          /\ \A i \in 1 .. Len(x.content) : x.content[i].item \in S
      BY <1>4, ObjectEntries
    <2> QED
      BY <1>2, <2>1 DEF WellFormed, Parts
  <1> QED
    BY <1>3, <1>4

\* The items of the run are composed of those within them, to a depth of two.
LEMMA ItemsComposed == \E depth : Composed(Items, depth, 2)
  <1> DEFINE depth == [x \in Items |-> IF x \in Scalars THEN 0 ELSE IF x \in Nested THEN 1 ELSE 2]
  <1>1. depth \in [Items -> 0 .. 2]
    OBVIOUS
  <1>2. \A x \in Scalars : depth[x] = 0 /\ WellFormed(x) /\ Parts(x) = {}
    BY ScalarWellFormed DEF Items
  <1>3. Nested \subseteq Items /\ Scalars \subseteq Items
    BY DEF Items
  <1>4. ASSUME NEW x \in Nested
        PROVE  depth[x] = 1 /\ WellFormed(x) /\ Parts(x) \subseteq Scalars
    <2>1. /\ WellFormed(x) /\ x.kind \in {"array", "map"}
          /\ Parts(x) \subseteq Few \/ Parts(x) \subseteq {Null, Text(<<97>>)}
      BY HoldersWellFormed DEF Nested
    <2>2. {Null, Text(<<97>>)} \subseteq Few
      BY DEF Few
    <2>3. x \notin Scalars
      BY <2>1, ScalarWellFormed
    <2> QED
      BY <1>3, <2>1, <2>2, <2>3, FewAreScalars
  <1>5. ASSUME NEW x \in Items, x \notin Scalars, x \notin Nested
        PROVE  depth[x] = 2 /\ WellFormed(x) /\ Parts(x) \subseteq Nested
    <2>1. x \in Arrays(Inner) \/ x \in Objects(Inner)
      BY <1>5 DEF Items
    <2>2. WellFormed(x) /\ Parts(x) \subseteq Inner
      BY <2>1, HoldersWellFormed
    <2> QED
      BY <1>5, <2>2, InnerAreNested
  <1> HIDE DEF depth
  <1>6. ASSUME NEW x \in Items
        PROVE  WellFormed(x) /\ \A y \in Parts(x) : y \in Items /\ depth[y] < depth[x]
    BY <1>2, <1>3, <1>4, <1>5
  <1>7. Composed(Items, depth, 2)
    BY <1>1, <1>6 DEF Composed
  <1> QED
    BY <1>7

\* Every item of the run has one encoding, that of no item that says something else.
THEOREM ItemsCanonical == Spec => []CanonicalBytes
  <1>1. item \in Items => CanonicalBytes
    <2> SUFFICES ASSUME item \in Items, NEW y \in Items
                 PROVE  IsPrefix(Code[item], Code[y]) <=> Value[item] = Value[y]
      BY DEF CanonicalBytes, Encodings
    <2> QED
      BY ItemsComposed, EncodingsCanonical DEF Code, Value
  <1> QED
    BY <1>1, ItemsTaken, PTL

\* Every number of the run is encoded in its shortest head.
THEOREM NumbersShortest == Spec => []ShortestHeads
  <1>1. item \in Items => ShortestHeads
    <2> SUFFICES ASSUME item \in Items, item.kind = "uint"
                 PROVE  /\ Code[item] \in Heads(0, item.content)
                        /\ \A h \in Heads(0, item.content) : Len(Code[item]) <= Len(h)
      BY DEF ShortestHeads
    <2>1. PICK depth : Composed(Items, depth, 2)
      BY ItemsComposed
    <2>2. Code[item] = WriteHead(0, item.content)
      BY <2>1, EncodingDef DEF Code, EncodeItem, Major
    <2>3. item.content \in EightBytes
      BY <2>1 DEF Composed, WellFormed
    <2> DEFINE m == 0
    <2>4. m \in 0 .. 7
      OBVIOUS
    <2> HIDE DEF m
    <2>5. /\ WriteHead(m, item.content) \in Heads(m, item.content)
          /\ \A h \in Heads(m, item.content) : Len(WriteHead(m, item.content)) <= Len(h)
      BY <2>3, <2>4, HeadsShortest
    <2> QED
      BY <2>2, <2>5 DEF m
  <1> QED
    BY <1>1, ItemsTaken, PTL
================================================================================
