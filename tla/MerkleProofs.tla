------------------------------ MODULE MerkleProofs ------------------------------
(***************************************************************************)
(* What merkle.py promises of every list of leaves: each leaf's proof is   *)
(* accepted, it proves no other leaf, and no two lists of distinct leaves, *)
(* or of one length, have the same root.                                   *)
(***************************************************************************)
EXTENDS Merkle, WellFoundedInduction, FiniteSetTheorems, FunctionTheorems, TLAPS

--------------------------------------------------------------------------------
(* Induction *)

LEMMA LeastNat ==
  ASSUME NEW S \in SUBSET Nat, S # {}
  PROVE  \E n \in S : \A m \in S : n <= m
  <1> DEFINE R == {ss \in Nat \X Nat : ss[1] < ss[2]}
  <1>1. IsWellFoundedOn(R, Nat)
    BY NatLessThanWellFounded DEF OpToRel
  <1>2. \E x \in S : \A y \in S : ~(<<y, x>> \in R)
    <2> HIDE DEF R
    <2> QED
      BY <1>1, WFMin
  <1>3. PICK x \in S : \A y \in S : ~(<<y, x>> \in R)
    BY <1>2
  <1>4. \A y \in S : <<y, x>> \in R <=> y < x
    OBVIOUS
  <1>5. ASSUME NEW y \in S PROVE x <= y
    <2>1. ~(y < x)
      BY <1>3, <1>4
    <2> QED
      BY <2>1
  <1> QED
    BY <1>5

\* Induction, for a property given as the set of numbers that have it.
LEMMA Induct ==
  ASSUME NEW S, 0 \in S, \A n \in Nat : n \in S => n + 1 \in S
  PROVE  Nat \subseteq S
  <1> SUFFICES ASSUME Nat \ S # {} PROVE FALSE
    OBVIOUS
  <1>1. PICK n \in Nat \ S : \A m \in Nat \ S : n <= m
    BY LeastNat
  <1>2. n # 0 /\ n - 1 \in Nat /\ n - 1 \in S
    BY <1>1
  <1> QED
    BY <1>1, <1>2

\* Induction up to a bound.
LEMMA InductTo ==
  ASSUME NEW h \in Nat, NEW S, 0 \in S, \A k \in 0 .. h - 1 : k \in S => k + 1 \in S
  PROVE  0 .. h \subseteq S
  <1> DEFINE T == {n \in Nat : n > h \/ n \in S}
  <1>1. Nat \subseteq T
    <2>1. 0 \in T
      OBVIOUS
    <2>2. \A n \in Nat : n \in T => n + 1 \in T
      OBVIOUS
    <2> HIDE DEF T
    <2> QED
      BY <2>1, <2>2, Induct
  <1> QED
    BY <1>1

--------------------------------------------------------------------------------
(* Ranks *)

\* A strict total order of n elements, as the set of what is below each.
StrictOrder(n, below) ==
    /\ below \in [1 .. n -> SUBSET (1 .. n)]
    /\ \A i \in 1 .. n : i \notin below[i]
    /\ \A i, j \in 1 .. n : i \in below[j] => below[i] \subseteq below[j]
    /\ \A i, j \in 1 .. n : i # j => i \in below[j] \/ j \in below[i]

\* Its elements are told apart, and put in order, by how many are below them.
LEMMA Ranking ==
  ASSUME NEW n \in Nat, NEW below, StrictOrder(n, below)
  PROVE  /\ \A i \in 1 .. n : Cardinality(below[i]) \in 0 .. n - 1
         /\ \A i, j \in 1 .. n :
               i \in below[j] <=> Cardinality(below[i]) < Cardinality(below[j])
         /\ \A k \in 1 .. n : \E i \in 1 .. n : Cardinality(below[i]) = k - 1
         /\ \A i, j \in 1 .. n : i # j => Cardinality(below[i]) # Cardinality(below[j])
  <1> DEFINE rank == [i \in 1 .. n |-> Cardinality(below[i])]
  <1> USE DEF StrictOrder
  <1>1. IsFiniteSet(1 .. n) /\ Cardinality(1 .. n) = n
        /\ IsFiniteSet(0 .. n - 1) /\ Cardinality(0 .. n - 1) = n
    <2>1. IsFiniteSet(1 .. n) /\ Cardinality(1 .. n) = n
      BY FS_Interval
    <2>2. IsFiniteSet(0 .. n - 1) /\ Cardinality(0 .. n - 1) = n
      <3>1. PICK m \in Int : m = n - 1
        OBVIOUS
      <3>2. IsFiniteSet(0 .. m) /\ Cardinality(0 .. m) = IF 0 > m THEN 0 ELSE m - 0 + 1
        BY FS_Interval
      <3>3. (IF 0 > m THEN 0 ELSE m - 0 + 1) = n
        BY <3>1
      <3> QED
        BY <3>1, <3>2, <3>3
    <2> QED
      BY <2>1, <2>2
  <1>2. ASSUME NEW i \in 1 .. n
        PROVE  IsFiniteSet(below[i]) /\ rank[i] \in 0 .. n - 1
    <2>1. IsFiniteSet((1 .. n) \ {i}) /\ Cardinality((1 .. n) \ {i}) = n - 1
      BY <1>1, FS_RemoveElement
    <2>2. below[i] \in SUBSET ((1 .. n) \ {i})
      OBVIOUS
    <2>3. IsFiniteSet(below[i]) /\ Cardinality(below[i]) <= Cardinality((1 .. n) \ {i})
      BY <2>1, <2>2, FS_Subset
    <2>4. Cardinality(below[i]) \in Nat
      BY <2>3, FS_CardinalityType
    <2> DEFINE c == Cardinality(below[i])
    <2>5. c \in Nat /\ c <= n - 1 /\ rank[i] = c
      BY <2>1, <2>3, <2>4
    <2> HIDE DEF c, rank
    <2> QED
      BY <2>3, <2>5
  <1>3. ASSUME NEW i \in 1 .. n, NEW j \in 1 .. n, i \in below[j]
        PROVE  rank[i] < rank[j]
    <2>1. below[i] \cup {i} \in SUBSET below[j] /\ i \notin below[i]
      BY <1>3
    <2>2. Cardinality(below[i] \cup {i}) = Cardinality(below[i]) + 1
      BY <1>2, <2>1, FS_AddElement
    <2>3. Cardinality(below[i] \cup {i}) <= Cardinality(below[j])
      BY <1>2, <2>1, FS_Subset
    <2> DEFINE c == Cardinality(below[i])
               d == Cardinality(below[j])
    <2>4. rank[i] = c /\ rank[j] = d /\ c + 1 <= d
      BY <2>2, <2>3
    <2>5. c \in Nat /\ d \in Nat
      BY <1>2, <2>4
    <2> HIDE DEF c, d, rank
    <2> QED
      BY <2>4, <2>5
  <1>4. \A i \in 1 .. n : rank[i] = Cardinality(below[i])
    OBVIOUS
  <1> HIDE DEF rank
  <1>5. ASSUME NEW i \in 1 .. n, NEW j \in 1 .. n
        PROVE  (i \in below[j] <=> rank[i] < rank[j]) /\ (i # j => rank[i] # rank[j])
    <2> DEFINE c == rank[i]
               d == rank[j]
    <2>1. c \in Nat /\ d \in Nat
      BY <1>2
    <2>2. (i \in below[j] => c < d) /\ (j \in below[i] => d < c) /\ (i = j => c = d)
          /\ (i = j \/ i \in below[j] \/ j \in below[i])
      BY <1>3
    <2> HIDE DEF c, d
    <2>3. (i \in below[j] <=> c < d) /\ (i # j => c # d)
      BY <2>1, <2>2
    <2> QED
      BY <2>3 DEF c, d
  <1>6. \A k \in 1 .. n : \E i \in 1 .. n : rank[i] = k - 1
    <2>1. rank \in [1 .. n -> 0 .. n - 1]
      BY <1>2 DEF rank
    <2>2. rank \in Injection(1 .. n, 0 .. n - 1)
      BY <1>5, <2>1 DEF Injection, IsInjective
    <2>3. rank \in Surjection(1 .. n, 0 .. n - 1)
      BY <1>1, <2>2, FS_Injection
    <2>4. \A m \in 0 .. n - 1 : \E i \in 1 .. n : rank[i] = m
      BY <2>3 DEF Surjection
    <2>5. \A k \in 1 .. n : k - 1 \in 0 .. n - 1
      OBVIOUS
    <2> QED
      BY <2>4, <2>5
  <1>7. \A i \in 1 .. n : rank[i] \in 0 .. n - 1
    BY <1>2
  <1>8. \A i \in 1 .. n : Cardinality(below[i]) \in 0 .. n - 1
    BY <1>4, <1>7
  <1>9. \A i, j \in 1 .. n : i \in below[j] <=> Cardinality(below[i]) < Cardinality(below[j])
    <2> TAKE i, j \in 1 .. n
    <2>1. i \in below[j] <=> rank[i] < rank[j]
      BY <1>5
    <2>2. rank[i] = Cardinality(below[i]) /\ rank[j] = Cardinality(below[j])
      BY <1>4
    <2> QED
      BY <2>1, <2>2
  <1>10. \A k \in 1 .. n : \E i \in 1 .. n : Cardinality(below[i]) = k - 1
    BY <1>4, <1>6
  <1>11. \A i, j \in 1 .. n : i # j => Cardinality(below[i]) # Cardinality(below[j])
    BY <1>4, <1>5
  <1> QED
    BY <1>8, <1>9, <1>10, <1>11

\* Each element put at its rank: the places hold all elements, in order.
LEMMA Placing ==
  ASSUME NEW n \in Nat, NEW below, StrictOrder(n, below),
         NEW place \in [1 .. n -> 1 .. n],
         \A k \in 1 .. n : Cardinality(below[place[k]]) = k - 1
  PROVE  /\ \A k, l \in 1 .. n : k < l => place[k] \in below[place[l]]
         /\ 1 .. n \subseteq {place[k] : k \in 1 .. n}
  <1> DEFINE rank(i) == Cardinality(below[i])
  <1>1. /\ \A i \in 1 .. n : rank(i) \in 0 .. n - 1
        /\ \A i, j \in 1 .. n : i \in below[j] <=> rank(i) < rank(j)
        /\ \A i, j \in 1 .. n : i # j => rank(i) # rank(j)
    BY Ranking
  <1>2. \A k \in 1 .. n : place[k] \in 1 .. n /\ rank(place[k]) = k - 1
    OBVIOUS
  <1> HIDE DEF rank
  <1>3. ASSUME NEW k \in 1 .. n, NEW l \in 1 .. n, k < l
        PROVE  place[k] \in below[place[l]]
    <2>1. rank(place[k]) < rank(place[l])
      BY <1>2, <1>3
    <2> QED
      BY <1>1, <1>2, <2>1
  <1>4. ASSUME NEW i \in 1 .. n PROVE \E k \in 1 .. n : place[k] = i
    <2>1. rank(i) \in 0 .. n - 1
      BY <1>1
    <2>2. PICK k \in 1 .. n : k - 1 = rank(i)
      <3>1. PICK m \in 0 .. n - 1 : m = rank(i)
        BY <2>1
      <3>2. m + 1 \in 1 .. n /\ (m + 1) - 1 = m
        OBVIOUS
      <3> QED
        BY <3>1, <3>2
    <2>3. place[k] \in 1 .. n /\ rank(place[k]) = rank(i)
      BY <1>2, <2>2
    <2> QED
      BY <1>1, <2>3
  <1> QED
    BY <1>3, <1>4

--------------------------------------------------------------------------------
(* Sequences of hashes *)

\* A function on 1 .. n is a sequence of length n.
Indexed(s) == Len(s) \in Nat /\ s = [i \in 1 .. Len(s) |-> s[i]]

LEMMA IndexedBy ==
  ASSUME NEW n \in Nat, NEW s, s = [i \in 1 .. n |-> s[i]]
  PROVE  Indexed(s) /\ Len(s) = n
  <1>1. s \in Seq({s[i] : i \in 1 .. n})
    OBVIOUS
  <1>2. DOMAIN s = 1 .. n
    OBVIOUS
  <1>3. Len(s) = n
    BY <1>1, <1>2
  <1> QED
    BY <1>3 DEF Indexed

LEMMA SeqIndexed ==
  ASSUME NEW S, NEW s \in Seq(S)
  PROVE  Indexed(s) /\ DOMAIN s = 1 .. Len(s)
  BY DEF Indexed

\* A layer of odd length has its last node twice.
LEMMA PaddedNodes ==
  ASSUME NEW layer, Indexed(layer)
  PROVE  LET n == Len(layer)
             p == Padded(layer)
         IN  /\ Indexed(p) /\ Len(p) = 2 * ((n + 1) \div 2)
             /\ \A i \in 1 .. n : p[i] = layer[i]
             /\ n % 2 = 1 => p[n + 1] = layer[n]
  <1> DEFINE n == Len(layer)
             S == {layer[i] : i \in 1 .. n}
  <1>1. n \in Nat /\ layer \in Seq(S)
    BY DEF Indexed
  <1>2. CASE n % 2 = 1
    <2>1. Padded(layer) = Append(layer, layer[n])
      BY <1>2 DEF Padded
    <2>2. layer[n] \in S
      BY <1>1, <1>2
    <2> HIDE DEF S
    <2>3. /\ Append(layer, layer[n]) \in Seq(S) /\ Len(Append(layer, layer[n])) = n + 1
          /\ \A i \in 1 .. n : Append(layer, layer[n])[i] = layer[i]
          /\ Append(layer, layer[n])[n + 1] = layer[n]
      BY <1>1, <2>2
    <2>4. n + 1 = 2 * ((n + 1) \div 2)
      BY <1>1, <1>2
    <2> QED
      BY <2>1, <2>3, <2>4, SeqIndexed
  <1>3. CASE n % 2 # 1
    <2>1. Padded(layer) = layer
      BY <1>3 DEF Padded
    <2>2. n = 2 * ((n + 1) \div 2)
      BY <1>1, <1>3
    <2> QED
      BY <1>3, <2>1, <2>2
  <1> QED
    BY <1>2, <1>3

\* Half as many parents, rounding up, of two nodes each.
LEMMA ParentNodes ==
  ASSUME NEW layer, Indexed(layer)
  PROVE  LET m == (Len(layer) + 1) \div 2
             p == Padded(layer)
         IN  /\ Indexed(Parents(layer)) /\ Len(Parents(layer)) = m
             /\ \A i \in 1 .. m : Parents(layer)[i] = NodeHash(p[2 * i - 1], p[2 * i])
  <1> DEFINE m == (Len(layer) + 1) \div 2
             p == Padded(layer)
             q == [i \in 1 .. m |-> NodeHash(p[2 * i - 1], p[2 * i])]
  <1>1. m \in Nat /\ Len(p) \div 2 = m
    BY PaddedNodes DEF Indexed
  <1>2. Parents(layer) = q
    BY <1>1 DEF Parents
  <1>3. q = [i \in 1 .. m |-> q[i]]
    OBVIOUS
  <1> HIDE DEF q
  <1>4. Indexed(q) /\ Len(q) = m
    BY <1>1, <1>3, IndexedBy
  <1> QED
    BY <1>1, <1>2, <1>4 DEF q

\* A hash tells what was hashed, and of which kind it was.
LEMMA HashesBind ==
  /\ \A a, b : LeafHash(a) = LeafHash(b) => a = b
  /\ \A a, b, c, d : NodeHash(a, b) = NodeHash(c, d) => a = c /\ b = d
  /\ \A a, b, c : LeafHash(a) # NodeHash(b, c)
  /\ \A a, b : EmptyHash # LeafHash(a) /\ EmptyHash # NodeHash(a, b)
  <1>1. \A a, b : LeafHash(a) = LeafHash(b) => a = b
    BY DEF LeafHash
  <1>2. \A a, b, c, d : NodeHash(a, b) = NodeHash(c, d) => a = c /\ b = d
    BY DEF NodeHash
  <1>3. \A a, b, c : LeafHash(a)[1] = "leaf" /\ NodeHash(b, c)[1] = "node" /\ EmptyHash[1] = "empty"
    BY DEF LeafHash, NodeHash, EmptyHash
  <1>4. "leaf" # "node" /\ "leaf" # "empty" /\ "node" # "empty"
    OBVIOUS
  <1> QED
    BY <1>1, <1>2, <1>3, <1>4

--------------------------------------------------------------------------------
(* The layers of a tree *)

LEMMA LayersDef ==
  ASSUME NEW leaves, Len(leaves) \in Nat
  PROVE  LET n == Len(leaves)
             layers == Layers(leaves)
         IN  /\ DOMAIN layers = 0 .. n
             /\ layers[0] = [i \in DOMAIN leaves |-> LeafHash(leaves[i])]
             /\ \A k \in 1 .. n : layers[k] = Parents(layers[k - 1])
  <1> DEFINE n == Len(leaves)
             base == [i \in DOMAIN leaves |-> LeafHash(leaves[i])]
             IsLayers(f, m) == f = [k \in 0 .. m |-> IF k = 0 THEN base ELSE Parents(f[k - 1])]
             S == {m \in Nat : \E f : IsLayers(f, m)}
  <1>1. Layers(leaves) = CHOOSE f : IsLayers(f, n)
    BY DEF Layers
  <1> HIDE DEF base
  <1>2. 0 \in S
    <2> DEFINE f == [k \in 0 .. 0 |-> base]
    <2>1. IsLayers(f, 0)
      OBVIOUS
    <2> QED
      BY <2>1
  <1>3. ASSUME NEW m \in Nat, m \in S PROVE m + 1 \in S
    <2>1. PICK f : IsLayers(f, m)
      BY <1>3
    <2> DEFINE g == [k \in 0 .. m + 1 |-> IF k = 0 THEN base ELSE Parents(f[k - 1])]
    <2>2. \A k \in 0 .. m : g[k] = f[k]
      BY <2>1
    <2>3. \A k \in 0 .. m + 1 : k # 0 => k - 1 \in 0 .. m /\ g[k - 1] = f[k - 1]
      BY <2>2
    <2>4. IsLayers(g, m + 1)
      BY <2>3
    <2> HIDE DEF g, IsLayers
    <2> QED
      BY <2>4
  <1> HIDE DEF IsLayers
  <1>4. n \in S
    <2> HIDE DEF S
    <2> QED
      BY <1>2, <1>3, Induct
  <1>5. IsLayers(Layers(leaves), n)
    BY <1>1, <1>4
  <1> QED
    BY <1>5 DEF IsLayers, base

LEMMA Halves ==
  ASSUME NEW m \in Nat, m > 0
  PROVE  /\ (m + 1) \div 2 \in Nat /\ (m + 1) \div 2 > 0
         /\ m = 1 => (m + 1) \div 2 = 1
         /\ m > 1 => (m + 1) \div 2 < m
  OBVIOUS

\* Layers shrink, rounding up, to one node.
LEMMA LayerSizes ==
  ASSUME NEW leaves, Indexed(leaves), Len(leaves) > 0
  PROVE  LET n == Len(leaves)
             layers == Layers(leaves)
         IN  /\ \A k \in 0 .. n : Indexed(layers[k]) /\ Len(layers[k]) > 0
             /\ Len(layers[0]) = n
             /\ \A k \in 1 .. n : Len(layers[k]) = (Len(layers[k - 1]) + 1) \div 2
             /\ \A k \in 0 .. n - 1 : Len(layers[k]) <= n - k
  <1> DEFINE n == Len(leaves)
             layers == Layers(leaves)
             S == {k \in 0 .. n : Indexed(layers[k]) /\ Len(layers[k]) > 0}
             T == {k \in 0 .. n - 1 : Len(layers[k]) <= n - k}
  <1>1. n \in Nat /\ n > 0 /\ DOMAIN leaves = 1 .. n
    BY DEF Indexed
  <1>2. Indexed(layers[0]) /\ Len(layers[0]) = n
    <2> DEFINE base == [i \in 1 .. n |-> LeafHash(leaves[i])]
    <2>1. layers[0] = base
      BY <1>1, LayersDef
    <2>2. base = [i \in 1 .. n |-> base[i]]
      OBVIOUS
    <2> HIDE DEF base
    <2> QED
      BY <1>1, <2>1, <2>2, IndexedBy
  <1>3. \A k \in 1 .. n : layers[k] = Parents(layers[k - 1])
    BY <1>1, LayersDef
  <1> HIDE DEF layers
  <1>4. 0 .. n \subseteq S
    <2>1. 0 \in S
      BY <1>1, <1>2
    <2>2. ASSUME NEW k \in 0 .. n - 1, k \in S PROVE k + 1 \in S
      <3>1. layers[k + 1] = Parents(layers[k])
        BY <1>1, <1>3
      <3>2. Indexed(layers[k]) /\ Len(layers[k]) \in Nat /\ Len(layers[k]) > 0
        BY <2>2 DEF Indexed
      <3>3. Indexed(layers[k + 1]) /\ Len(layers[k + 1]) = (Len(layers[k]) + 1) \div 2
        BY <3>1, <3>2, ParentNodes
      <3>4. Len(layers[k + 1]) > 0
        BY <3>2, <3>3, Halves
      <3>5. k + 1 \in 0 .. n
        BY <1>1
      <3> HIDE DEF n
      <3> QED
        BY <3>3, <3>4, <3>5
    <2> HIDE DEF S
    <2> QED
      BY <1>1, <2>1, <2>2, InductTo
  <1>5. \A k \in 1 .. n : Len(layers[k]) = (Len(layers[k - 1]) + 1) \div 2
    <2> SUFFICES ASSUME NEW k \in 1 .. n
                 PROVE  Len(layers[k]) = (Len(layers[k - 1]) + 1) \div 2
      OBVIOUS
    <2>1. k - 1 \in 0 .. n
      BY <1>1
    <2>2. Indexed(layers[k - 1]) /\ layers[k] = Parents(layers[k - 1])
      BY <1>3, <1>4, <2>1
    <2> QED
      BY <2>2, ParentNodes
  <1>6. 0 .. n - 1 \subseteq T
    <2>1. 0 \in T
      BY <1>1, <1>2
    <2>2. ASSUME NEW k \in 0 .. (n - 1) - 1, k \in T PROVE k + 1 \in T
      <3>1. k \in 0 .. n /\ k + 1 \in 1 .. n /\ k + 1 \in 0 .. n - 1
        BY <1>1
      <3>2. Len(layers[k]) \in Nat /\ Len(layers[k]) > 0 /\ Len(layers[k]) <= n - k
        BY <1>4, <2>2, <3>1 DEF Indexed
      <3>3. Len(layers[k + 1]) = (Len(layers[k]) + 1) \div 2
        <4>1. (k + 1) - 1 = k
          BY <1>1
        <4> QED
          BY <1>5, <3>1, <4>1
      <3>4. Len(layers[k + 1]) <= n - (k + 1)
        <4> DEFINE l == Len(layers[k])
        <4>1. (l + 1) \div 2 \in Nat /\ (l = 1 => (l + 1) \div 2 = 1)
              /\ (l > 1 => (l + 1) \div 2 < l)
          BY <3>2, Halves
        <4>2. n - (k + 1) >= 1 /\ l \in Nat /\ l > 0 /\ l <= n - k
          BY <1>1, <3>1, <3>2
        <4> HIDE DEF l, n
        <4>3. (l + 1) \div 2 <= n - (k + 1)
          BY <1>1, <3>1, <4>1, <4>2
        <4> QED
          BY <3>3, <4>3 DEF l
      <3> HIDE DEF n
      <3> QED
        BY <3>1, <3>4
    <2> HIDE DEF T
    <2>3. n - 1 \in Nat
      BY <1>1
    <2> QED
      BY <2>1, <2>2, <2>3, InductTo
  <1>7. \A k \in 0 .. n - 1 : Len(layers[k]) <= n - k
    BY <1>6
  <1>8. \A k \in 0 .. n : Indexed(layers[k]) /\ Len(layers[k]) > 0
    BY <1>4
  <1> HIDE DEF n, S, T
  <1> QED
    BY <1>2, <1>5, <1>7, <1>8 DEF n, layers

\* The loop ends: there is a first layer of one node.
LEMMA HeightDef ==
  ASSUME NEW leaves, Indexed(leaves), Len(leaves) > 0
  PROVE  LET layers == Layers(leaves)
             h == Height(layers)
         IN  /\ h \in 0 .. Len(leaves) /\ Len(layers[h]) = 1
             /\ \A j \in 0 .. h - 1 : Len(layers[j]) > 1
  <1> DEFINE n == Len(leaves)
             layers == Layers(leaves)
             ones == {k \in 0 .. n : Len(layers[k]) = 1}
  <1>1. n \in Nat /\ n > 0 /\ DOMAIN layers = 0 .. n
    BY LayersDef DEF Indexed
  <1>2. \A k \in 0 .. n : Len(layers[k]) \in Nat /\ Len(layers[k]) > 0
    BY LayerSizes DEF Indexed
  <1>3. Len(layers[n - 1]) <= 1
    BY <1>1, LayerSizes
  <1> HIDE DEF layers, n
  <1>4. n - 1 \in ones
    <2>1. n - 1 \in 0 .. n
      BY <1>1
    <2>2. Len(layers[n - 1]) \in Nat /\ Len(layers[n - 1]) > 0
      BY <1>2, <2>1
    <2>3. Len(layers[n - 1]) = 1
      <3> DEFINE l == Len(layers[n - 1])
      <3>1. l \in Nat /\ l > 0 /\ l <= 1
        BY <1>3, <2>2
      <3> HIDE DEF l
      <3>2. l = 1
        BY <3>1
      <3> QED
        BY <3>2 DEF l
    <2> QED
      BY <2>1, <2>3
  <1>5. PICK k \in ones : \A m \in ones : k <= m
    <2>1. ones \in SUBSET Nat /\ ones # {}
      BY <1>1, <1>4
    <2> HIDE DEF ones
    <2> QED
      BY <2>1, LeastNat
  <1>6. ASSUME NEW j \in 0 .. k - 1 PROVE Len(layers[j]) > 1
    <2>1. j \in 0 .. n /\ ~(k <= j)
      BY <1>1, <1>5
    <2>2. Len(layers[j]) # 1
      BY <1>5, <2>1
    <2>3. Len(layers[j]) \in Nat /\ Len(layers[j]) > 0
      BY <1>2, <2>1
    <2> DEFINE l == Len(layers[j])
    <2>4. l \in Nat /\ l > 0 /\ l # 1
      BY <2>2, <2>3
    <2> HIDE DEF l
    <2>5. l > 1
      BY <2>4
    <2> QED
      BY <2>5 DEF l
  <1>7. Len(layers[k]) = 1 /\ k \in DOMAIN layers
    BY <1>1, <1>5
  <1> QED
    BY <1>1, <1>6, <1>7 DEF Height, layers, n

LEMMA TreeDef ==
  ASSUME NEW leaves, Indexed(leaves), Len(leaves) > 0
  PROVE  LET h == Height(Layers(leaves))
             tree == BuildTree(leaves)
         IN  /\ h \in Nat /\ Indexed(tree) /\ Len(tree) = h + 1
             /\ \A k \in 1 .. h + 1 : tree[k] = Layers(leaves)[k - 1]
             /\ GetRoot(tree) = Layers(leaves)[h][1]
  <1> DEFINE h == Height(Layers(leaves))
             tree == [k \in 1 .. h + 1 |-> Layers(leaves)[k - 1]]
  <1>1. leaves # <<>>
    OBVIOUS
  <1>2. BuildTree(leaves) = tree
    BY <1>1 DEF BuildTree
  <1>3. h \in Nat
    BY HeightDef DEF Indexed
  <1> HIDE DEF h
  <1>4. tree = [k \in 1 .. h + 1 |-> tree[k]] /\ \A k \in 1 .. h + 1 : tree[k] = Layers(leaves)[k - 1]
    OBVIOUS
  <1> HIDE DEF tree
  <1>5. Indexed(tree) /\ Len(tree) = h + 1
    BY <1>3, <1>4, IndexedBy
  <1>6. GetRoot(tree) = Layers(leaves)[h][1]
    BY <1>3, <1>4, <1>5 DEF GetRoot
  <1> QED
    BY <1>2, <1>3, <1>4, <1>5, <1>6 DEF h

--------------------------------------------------------------------------------
(* Proofs of inclusion *)

LEMMA WayDef ==
  ASSUME NEW index, NEW n \in Nat
  PROVE  /\ n > 0 => Way(index, n)[1] = index
         /\ \A k \in 2 .. n : Way(index, n)[k] = Way(index, n)[k - 1] \div 2
  <1> DEFINE IsWay(f, m) == f = [k \in 1 .. m |-> IF k = 1 THEN index ELSE f[k - 1] \div 2]
             S == {m \in Nat : \E f : IsWay(f, m)}
  <1>1. Way(index, n) = CHOOSE f : IsWay(f, n)
    BY DEF Way
  <1>2. 0 \in S
    <2> DEFINE f == [k \in 1 .. 0 |-> index]
    <2>1. IsWay(f, 0)
      OBVIOUS
    <2> HIDE DEF f, IsWay
    <2> QED
      BY <2>1
  <1>3. ASSUME NEW m \in Nat, m \in S PROVE m + 1 \in S
    <2>1. PICK f : IsWay(f, m)
      BY <1>3
    <2> DEFINE g == [k \in 1 .. m + 1 |-> IF k = 1 THEN index ELSE f[k - 1] \div 2]
    <2>2. \A k \in 1 .. m : g[k] = f[k]
      BY <2>1
    <2>3. \A k \in 1 .. m + 1 : k # 1 => k - 1 \in 1 .. m /\ g[k - 1] = f[k - 1]
      <3> HIDE DEF g
      <3> QED
        BY <2>2
    <2>4. IsWay(g, m + 1)
      BY <2>3
    <2> HIDE DEF g, IsWay
    <2> QED
      BY <2>4
  <1> HIDE DEF IsWay
  <1>4. n \in S
    <2> HIDE DEF S
    <2> QED
      BY <1>2, <1>3, Induct
  <1>5. IsWay(Way(index, n), n)
    BY <1>1, <1>4
  <1> QED
    BY <1>5 DEF IsWay

LEMMA AscentDef ==
  ASSUME NEW hash, NEW proof, Len(proof) \in Nat
  PROVE  LET current == Ascent(hash, proof) IN
         /\ current[0] = hash
         /\ \A k \in 1 .. Len(proof) :
               current[k] = IF proof[k].s = "left" THEN NodeHash(proof[k].h, current[k - 1])
                                                   ELSE NodeHash(current[k - 1], proof[k].h)
  <1> DEFINE n == Len(proof)
             Step(k, c) == IF proof[k].s = "left" THEN NodeHash(proof[k].h, c)
                                                  ELSE NodeHash(c, proof[k].h)
             IsAscent(f, m) == f = [k \in 0 .. m |-> IF k = 0 THEN hash ELSE Step(k, f[k - 1])]
             S == {m \in Nat : \E f : IsAscent(f, m)}
  <1>1. Ascent(hash, proof) = CHOOSE f : IsAscent(f, n)
    BY DEF Ascent
  <1> HIDE DEF Step
  <1>2. 0 \in S
    <2> DEFINE f == [k \in 0 .. 0 |-> hash]
    <2>1. IsAscent(f, 0)
      OBVIOUS
    <2> HIDE DEF f, IsAscent
    <2> QED
      BY <2>1
  <1>3. ASSUME NEW m \in Nat, m \in S PROVE m + 1 \in S
    <2>1. PICK f : IsAscent(f, m)
      BY <1>3
    <2> DEFINE g == [k \in 0 .. m + 1 |-> IF k = 0 THEN hash ELSE Step(k, f[k - 1])]
    <2>2. \A k \in 0 .. m : g[k] = f[k]
      BY <2>1
    <2>3. \A k \in 0 .. m + 1 : k # 0 => k - 1 \in 0 .. m /\ g[k - 1] = f[k - 1]
      BY <2>2
    <2>4. IsAscent(g, m + 1)
      BY <2>3
    <2> HIDE DEF g, IsAscent
    <2> QED
      BY <2>4
  <1> HIDE DEF IsAscent
  <1>4. n \in S
    <2> HIDE DEF S
    <2> QED
      BY <1>2, <1>3, Induct
  <1>5. IsAscent(Ascent(hash, proof), n)
    BY <1>1, <1>4
  <1>6. /\ Ascent(hash, proof)[0] = hash
        /\ \A k \in 1 .. n : Ascent(hash, proof)[k] = Step(k, Ascent(hash, proof)[k - 1])
    BY <1>5 DEF IsAscent
  <1> QED
    BY <1>6 DEF Step

\* A proof has one step for each layer below the root.
LEMMA ProofDef ==
  ASSUME NEW leaves, Indexed(leaves), Len(leaves) > 0, NEW index
  PROVE  LET layers == Layers(leaves)
             h      == Height(layers)
             proof  == GetProof(BuildTree(leaves), index)
         IN  /\ Len(proof) = h
             /\ \A k \in 1 .. h :
                   LET nodes == Padded(layers[k - 1])
                       i     == Way(index, h + 1)[k]
                   IN  proof[k] = IF i % 2 = 0 THEN [h |-> nodes[i + 2], s |-> "right"]
                                               ELSE [h |-> nodes[i], s |-> "left"]
  <1> DEFINE h    == Height(Layers(leaves))
             tree == BuildTree(leaves)
             e(k) == LET nodes == Padded(tree[k])
                         i     == Way(index, h + 1)[k]
                     IN  IF i % 2 = 0 THEN [h |-> nodes[i + 2], s |-> "right"]
                                      ELSE [h |-> nodes[i], s |-> "left"]
             proof == [k \in 1 .. h |-> e(k)]
  <1>1. h \in Nat /\ Len(tree) = h + 1 /\ \A k \in 1 .. h + 1 : tree[k] = Layers(leaves)[k - 1]
    BY TreeDef
  <1>2. (h + 1) - 1 = h
    BY <1>1
  <1> HIDE DEF h, tree
  <1>3. GetProof(tree, index) = proof
    BY <1>1, <1>2 DEF GetProof
  <1>4. Len(proof) = h
    <2> HIDE DEF e
    <2>1. proof = [k \in 1 .. h |-> proof[k]]
      OBVIOUS
    <2> HIDE DEF proof
    <2> QED
      BY <1>1, <2>1, IndexedBy
  <1>5. \A k \in 1 .. h : proof[k] = e(k) /\ tree[k] = Layers(leaves)[k - 1]
    BY <1>1
  <1> HIDE DEF proof
  <1> QED
    BY <1>3, <1>4, <1>5 DEF h, tree

\* The proof of a leaf retraces the tree's nodes from it up to the root.
LEMMA AscentInTree ==
  ASSUME NEW leaves, Indexed(leaves), Len(leaves) > 0, NEW index \in 0 .. Len(leaves) - 1
  PROVE  LET layers == Layers(leaves)
             h      == Height(layers)
             proof  == GetProof(BuildTree(leaves), index)
         IN  Ascent(LeafHash(leaves[index + 1]), proof)[h] = layers[h][1]
  <1> DEFINE n       == Len(leaves)
             layers  == Layers(leaves)
             h       == Height(layers)
             proof   == GetProof(BuildTree(leaves), index)
             current == Ascent(LeafHash(leaves[index + 1]), proof)
             at      == Way(index, h + 1)
             S == {k \in 0 .. h : /\ at[k + 1] \in 0 .. Len(layers[k]) - 1
                                  /\ current[k] = layers[k][at[k + 1] + 1]}
  <1>1. n \in Nat /\ n > 0 /\ DOMAIN leaves = 1 .. n
    BY DEF Indexed
  <1>2. h \in 0 .. n /\ Len(layers[h]) = 1
    BY HeightDef
  <1>3. Len(proof) = h
    BY ProofDef
  <1>4. /\ current[0] = LeafHash(leaves[index + 1])
        /\ \A k \in 1 .. h :
              current[k] = IF proof[k].s = "left" THEN NodeHash(proof[k].h, current[k - 1])
                                                  ELSE NodeHash(current[k - 1], proof[k].h)
    BY <1>1, <1>2, <1>3, AscentDef
  <1>5. at[1] = index /\ \A k \in 2 .. h + 1 : at[k] = at[k - 1] \div 2
    BY <1>1, <1>2, WayDef
  <1>6. /\ layers[0] = [i \in 1 .. n |-> LeafHash(leaves[i])]
        /\ \A k \in 1 .. n : layers[k] = Parents(layers[k - 1])
    BY <1>1, LayersDef
  <1>7. /\ Len(layers[0]) = n
        /\ \A k \in 0 .. n : Indexed(layers[k]) /\ Len(layers[k]) > 0
    BY LayerSizes
  <1>8. \A k \in 1 .. h :
           LET nodes == Padded(layers[k - 1])
           IN  proof[k] = IF at[k] % 2 = 0 THEN [h |-> nodes[at[k] + 2], s |-> "right"]
                                           ELSE [h |-> nodes[at[k]], s |-> "left"]
    BY ProofDef
  <1> HIDE DEF layers, h, proof, current, at, n
  <1>9. 0 \in S
    <2>1. index \in 0 .. n - 1 /\ layers[0][index + 1] = LeafHash(leaves[index + 1])
      BY <1>1, <1>6 DEF n
    <2> QED
      BY <1>1, <1>2, <1>4, <1>5, <1>7, <2>1
  <1>10. ASSUME NEW k \in 0 .. h - 1, k \in S PROVE k + 1 \in S
    <2> DEFINE a     == at[k + 1]
               layer == layers[k]
               m     == Len(layers[k])
               nodes == Padded(layer)
               b     == a \div 2
    <2>1. /\ k \in 0 .. n /\ k + 1 \in 1 .. n /\ k + 1 \in 1 .. h /\ k + 1 \in 0 .. h
          /\ k + 2 \in 2 .. h + 1 /\ (k + 1) - 1 = k /\ (k + 2) - 1 = k + 1
          /\ (k + 1) + 1 = k + 2
      BY <1>1, <1>2
    <2>2. m \in Nat /\ a \in 0 .. m - 1 /\ current[k] = layer[a + 1] /\ Indexed(layer)
      BY <1>7, <1>10, <2>1 DEF Indexed
    <2>3. at[k + 2] = b
      BY <1>5, <2>1
    <2>4. layers[k + 1] = Parents(layer)
      BY <1>6, <2>1
    <2>5. /\ \A i \in 1 .. m : nodes[i] = layer[i]
          /\ Len(Parents(layer)) = (m + 1) \div 2
          /\ \A i \in 1 .. (m + 1) \div 2 :
                Parents(layer)[i] = NodeHash(nodes[2 * i - 1], nodes[2 * i])
      BY <2>2, PaddedNodes, ParentNodes
    <2>6. proof[k + 1] = IF a % 2 = 0 THEN [h |-> nodes[a + 2], s |-> "right"]
                                      ELSE [h |-> nodes[a], s |-> "left"]
      BY <1>8, <2>1
    <2>7. current[k + 1] = IF proof[k + 1].s = "left" THEN NodeHash(proof[k + 1].h, current[k])
                                                      ELSE NodeHash(current[k], proof[k + 1].h)
      BY <1>4, <2>1
    <2>8. /\ b \in 0 .. (m + 1) \div 2 - 1 /\ b + 1 \in 1 .. (m + 1) \div 2
          /\ a % 2 = 0 => 2 * (b + 1) - 1 = a + 1 /\ 2 * (b + 1) = a + 2
          /\ a % 2 # 0 => 2 * (b + 1) - 1 = a /\ 2 * (b + 1) = a + 1
      <3> HIDE DEF a, m
      <3> QED
        BY <2>2
    <2>9. Parents(layer)[b + 1] = NodeHash(nodes[2 * (b + 1) - 1], nodes[2 * (b + 1)])
      BY <2>5, <2>8
    <2>10. nodes[a + 1] = current[k]
      BY <2>2, <2>5
    <2> HIDE DEF a, m, nodes, layer, b
    <2>11. current[k + 1] = Parents(layer)[b + 1]
      <3>1. CASE a % 2 = 0
        BY <2>6, <2>7, <2>8, <2>9, <2>10, <3>1
      <3>2. CASE a % 2 # 0
        BY <2>6, <2>7, <2>8, <2>9, <2>10, <3>2
      <3> QED
        BY <3>1, <3>2
    <2>12. b \in 0 .. Len(layers[k + 1]) - 1 /\ current[k + 1] = layers[k + 1][b + 1]
      BY <2>4, <2>5, <2>8, <2>11
    <2> QED
      BY <2>1, <2>3, <2>12
  <1>11. h \in S
    <2>1. h \in Nat
      BY <1>1, <1>2
    <2> HIDE DEF S
    <2>2. 0 .. h \subseteq S
      BY <1>9, <1>10, <2>1, InductTo
    <2> QED
      BY <2>1, <2>2
  <1>12. at[h + 1] = 0
    <2>1. at[h + 1] \in 0 .. Len(layers[h]) - 1
      BY <1>11
    <2>2. at[h + 1] \in 0 .. 1 - 1
      BY <1>2, <2>1
    <2> QED
      BY <2>2
  <1>13. current[h] = layers[h][at[h + 1] + 1]
    BY <1>11
  <1> QED
    BY <1>12, <1>13 DEF current, proof, h, layers

\* Each leaf's proof is accepted, for every list of leaves: get_proof pads odd layers
\* and halves the index just as build_tree builds the layers.
THEOREM EveryProofVerifies ==
  ASSUME NEW S, NEW leaves \in Seq(S), NEW i \in DOMAIN leaves
  PROVE  VerifyProof(leaves[i], GetProof(BuildTree(leaves), i - 1), GetRoot(BuildTree(leaves)))
  <1> DEFINE h     == Height(Layers(leaves))
             proof == GetProof(BuildTree(leaves), i - 1)
  <1>1. Indexed(leaves) /\ Len(leaves) > 0 /\ i - 1 \in 0 .. Len(leaves) - 1 /\ (i - 1) + 1 = i
    BY SeqIndexed
  <1>2. Ascent(LeafHash(leaves[i]), proof)[h] = Layers(leaves)[h][1]
    BY <1>1, AscentInTree
  <1>3. Len(proof) = h /\ GetRoot(BuildTree(leaves)) = Layers(leaves)[h][1]
    BY <1>1, ProofDef, TreeDef
  <1> QED
    BY <1>2, <1>3 DEF VerifyProof, VerifyFromHash

\* A proof leads from one hash only to a root: what is accepted with one for one leaf
\* is refused for every other, whatever the proof and the root are.
THEOREM NoProofOfTwo ==
  ASSUME NEW x, NEW y, x # y, NEW proof, Len(proof) \in Nat, NEW root,
         VerifyProof(x, proof, root)
  PROVE  ~VerifyProof(y, proof, root)
  <1> DEFINE n == Len(proof)
             a == Ascent(LeafHash(x), proof)
             b == Ascent(LeafHash(y), proof)
             S == {k \in 0 .. n : a[k] # b[k]}
  <1>1. /\ a[0] = LeafHash(x)
        /\ \A k \in 1 .. n : a[k] = IF proof[k].s = "left" THEN NodeHash(proof[k].h, a[k - 1])
                                                           ELSE NodeHash(a[k - 1], proof[k].h)
    BY AscentDef
  <1>2. /\ b[0] = LeafHash(y)
        /\ \A k \in 1 .. n : b[k] = IF proof[k].s = "left" THEN NodeHash(proof[k].h, b[k - 1])
                                                           ELSE NodeHash(b[k - 1], proof[k].h)
    BY AscentDef
  <1> HIDE DEF a, b
  <1>3. 0 \in S
    BY <1>1, <1>2, HashesBind
  <1>4. ASSUME NEW k \in 0 .. n - 1, k \in S PROVE k + 1 \in S
    <2>1. k + 1 \in 1 .. n /\ k + 1 \in 0 .. n /\ (k + 1) - 1 = k
      OBVIOUS
    <2>2. a[k + 1] = IF proof[k + 1].s = "left" THEN NodeHash(proof[k + 1].h, a[k])
                                                ELSE NodeHash(a[k], proof[k + 1].h)
      BY <1>1, <2>1
    <2>3. b[k + 1] = IF proof[k + 1].s = "left" THEN NodeHash(proof[k + 1].h, b[k])
                                                ELSE NodeHash(b[k], proof[k + 1].h)
      BY <1>2, <2>1
    <2> QED
      BY <1>4, <2>1, <2>2, <2>3, HashesBind
  <1>5. n \in S
    <2> HIDE DEF S
    <2>1. 0 .. n \subseteq S
      BY <1>3, <1>4, InductTo
    <2> QED
      BY <2>1
  <1> QED
    BY <1>5 DEF VerifyProof, VerifyFromHash, a, b

--------------------------------------------------------------------------------
(* Roots *)

Distinct(s) == \A i, j \in 1 .. Len(s) : i # j => s[i] # s[j]

LEMMA SameIndexed ==
  ASSUME NEW s, NEW t, Indexed(s), Indexed(t), Len(s) = Len(t),
         \A i \in 1 .. Len(s) : s[i] = t[i]
  PROVE  s = t
  BY DEF Indexed

LEMMA SameHalf ==
  ASSUME NEW k \in Nat, NEW l \in Nat, (k + 1) \div 2 = (l + 1) \div 2, k < l
  PROVE  /\ k % 2 = 1 /\ l = k + 1 /\ 2 * ((k + 1) \div 2) = l
         /\ k \in 1 .. k /\ k \in 1 .. l /\ l \in 1 .. l
  OBVIOUS

\* The parents tell the children of layers of one length, or without repetition: then a
\* repeated last node is the padding's.
LEMMA ParentsBind ==
  ASSUME NEW s, NEW t, Indexed(s), Indexed(t), Parents(s) = Parents(t),
         Len(s) = Len(t) \/ (Distinct(s) /\ Distinct(t))
  PROVE  s = t
  <1> DEFINE p == Padded(s)
             q == Padded(t)
             m == (Len(s) + 1) \div 2
  <1>1. /\ Len(s) \in Nat /\ Len(t) \in Nat
        /\ \A i \in 1 .. Len(s) : p[i] = s[i]
        /\ \A i \in 1 .. Len(t) : q[i] = t[i]
        /\ Len(s) % 2 = 1 => p[Len(s) + 1] = s[Len(s)]
        /\ Len(t) % 2 = 1 => q[Len(t) + 1] = t[Len(t)]
    BY PaddedNodes DEF Indexed
  <1>2. /\ (Len(t) + 1) \div 2 = m
        /\ \A i \in 1 .. m : Parents(s)[i] = NodeHash(p[2 * i - 1], p[2 * i])
        /\ \A i \in 1 .. m : Parents(t)[i] = NodeHash(q[2 * i - 1], q[2 * i])
    BY ParentNodes
  <1>3. \A i \in 1 .. m : p[2 * i - 1] = q[2 * i - 1] /\ p[2 * i] = q[2 * i]
    BY <1>2, HashesBind
  <1>4. \A j \in 1 .. 2 * m : p[j] = q[j]
    <2> TAKE j \in 1 .. 2 * m
    <2>1. PICK i \in 1 .. m : j = 2 * i - 1 \/ j = 2 * i
      <3> DEFINE i == (j + 1) \div 2
      <3>1. m \in Nat
        BY <1>1
      <3> HIDE DEF m
      <3>2. i \in 1 .. m /\ (j = 2 * i - 1 \/ j = 2 * i)
        BY <3>1
      <3> QED
        BY <3>2
    <2> QED
      BY <1>3, <2>1
  <1>5. Len(s) = Len(t)
    <2> SUFFICES ASSUME Len(s) # Len(t) PROVE FALSE
      OBVIOUS
    <2>1. CASE Len(s) < Len(t)
      <3>1. /\ Len(s) % 2 = 1 /\ Len(t) = Len(s) + 1 /\ 2 * m = Len(t)
            /\ Len(s) \in 1 .. Len(s) /\ Len(s) \in 1 .. Len(t) /\ Len(t) \in 1 .. Len(t)
        <4>1. Len(s) \in Nat /\ Len(t) \in Nat /\ (Len(s) + 1) \div 2 = (Len(t) + 1) \div 2
          BY <1>1, <1>2
        <4> QED
          BY <1>2, <4>1, <2>1, SameHalf
      <3>2. t[Len(t)] = t[Len(s)]
        BY <1>1, <1>4, <3>1
      <3> QED
        BY <3>1, <3>2, <2>1 DEF Distinct
    <2>2. CASE Len(t) < Len(s)
      <3>1. /\ Len(t) % 2 = 1 /\ Len(s) = Len(t) + 1 /\ 2 * m = Len(s)
            /\ Len(t) \in 1 .. Len(t) /\ Len(t) \in 1 .. Len(s) /\ Len(s) \in 1 .. Len(s)
        <4>1. Len(s) \in Nat /\ Len(t) \in Nat /\ (Len(t) + 1) \div 2 = (Len(s) + 1) \div 2
          BY <1>1, <1>2
        <4> QED
          BY <1>2, <4>1, <2>2, SameHalf
      <3>2. s[Len(s)] = s[Len(t)]
        BY <1>1, <1>4, <3>1
      <3> QED
        BY <3>1, <3>2, <2>2 DEF Distinct
    <2> QED
      BY <1>1, <2>1, <2>2
  <1>6. \A j \in 1 .. Len(s) : j \in 1 .. 2 * m
    BY <1>1
  <1>7. \A j \in 1 .. Len(s) : s[j] = t[j]
    BY <1>1, <1>4, <1>5, <1>6
  <1> QED
    BY <1>5, <1>7, SameIndexed

\* Layers without repetition have parents without repetition.
LEMMA ParentsDistinct ==
  ASSUME NEW s, Indexed(s), Distinct(s)
  PROVE  Distinct(Parents(s))
  <1> DEFINE m == (Len(s) + 1) \div 2
             p == Padded(s)
  <1>1. Len(s) \in Nat /\ \A i \in 1 .. Len(s) : p[i] = s[i]
    BY PaddedNodes DEF Indexed
  <1>2. /\ Len(Parents(s)) = m
        /\ \A i \in 1 .. m : Parents(s)[i] = NodeHash(p[2 * i - 1], p[2 * i])
    BY ParentNodes
  <1>3. \A i \in 1 .. m : 2 * i - 1 \in 1 .. Len(s)
    BY <1>1
  <1>4. ASSUME NEW i \in 1 .. m, NEW j \in 1 .. m, i # j PROVE Parents(s)[i] # Parents(s)[j]
    <2>1. 2 * i - 1 # 2 * j - 1
      BY <1>1, <1>4
    <2>2. p[2 * i - 1] # p[2 * j - 1]
      BY <1>1, <1>3, <2>1 DEF Distinct
    <2> QED
      BY <1>2, <2>2, HashesBind
  <1> QED
    BY <1>2, <1>4 DEF Distinct

LEMMA LayersDistinct ==
  ASSUME NEW s, Indexed(s), Len(s) > 0, Distinct(s)
  PROVE  \A k \in 0 .. Len(s) : Distinct(Layers(s)[k])
  <1> DEFINE n == Len(s)
             layers == Layers(s)
             S == {k \in 0 .. n : Distinct(layers[k])}
  <1>1. n \in Nat /\ DOMAIN s = 1 .. n
    BY DEF Indexed
  <1>2. /\ layers[0] = [i \in 1 .. n |-> LeafHash(s[i])]
        /\ \A k \in 1 .. n : layers[k] = Parents(layers[k - 1])
    BY <1>1, LayersDef
  <1>3. Len(layers[0]) = n /\ \A k \in 0 .. n : Indexed(layers[k])
    BY LayerSizes
  <1> HIDE DEF layers
  <1>4. 0 \in S
    <2>1. \A i \in 1 .. n : layers[0][i] = LeafHash(s[i])
      BY <1>2
    <2>2. Distinct(layers[0])
      BY <1>3, <2>1, HashesBind DEF Distinct
    <2> QED
      BY <1>1, <2>2
  <1>5. ASSUME NEW k \in 0 .. n - 1, k \in S PROVE k + 1 \in S
    <2>1. k \in 0 .. n /\ k + 1 \in 1 .. n /\ k + 1 \in 0 .. n /\ (k + 1) - 1 = k
      BY <1>1
    <2>2. layers[k + 1] = Parents(layers[k]) /\ Indexed(layers[k]) /\ Distinct(layers[k])
      BY <1>2, <1>3, <1>5, <2>1
    <2>3. Distinct(layers[k + 1])
      BY <2>2, ParentsDistinct
    <2> QED
      BY <2>1, <2>3
  <1>6. 0 .. n \subseteq S
    <2> HIDE DEF S
    <2> QED
      BY <1>1, <1>4, <1>5, InductTo
  <1> QED
    BY <1>6 DEF layers

LEMMA LayersSameLength ==
  ASSUME NEW s, Indexed(s), Len(s) > 0, NEW t, Indexed(t), Len(s) = Len(t)
  PROVE  /\ \A k \in 0 .. Len(s) : Len(Layers(s)[k]) = Len(Layers(t)[k])
         /\ Height(Layers(s)) = Height(Layers(t))
  <1> DEFINE n == Len(s)
             a == Layers(s)
             b == Layers(t)
             S == {k \in 0 .. n : Len(a[k]) = Len(b[k])}
  <1>1. n \in Nat /\ DOMAIN a = 0 .. n /\ DOMAIN b = 0 .. n
    BY LayersDef DEF Indexed
  <1>2. Len(a[0]) = n /\ \A k \in 1 .. n : Len(a[k]) = (Len(a[k - 1]) + 1) \div 2
    BY LayerSizes
  <1>3. Len(b[0]) = n /\ \A k \in 1 .. n : Len(b[k]) = (Len(b[k - 1]) + 1) \div 2
    BY LayerSizes
  <1> HIDE DEF a, b
  <1>4. 0 \in S
    BY <1>1, <1>2, <1>3
  <1>5. ASSUME NEW k \in 0 .. n - 1, k \in S PROVE k + 1 \in S
    <2>1. k + 1 \in 1 .. n /\ k + 1 \in 0 .. n /\ (k + 1) - 1 = k
      BY <1>1
    <2>2. /\ Len(a[k + 1]) = (Len(a[k]) + 1) \div 2
          /\ Len(b[k + 1]) = (Len(b[k]) + 1) \div 2
      BY <1>2, <1>3, <2>1
    <2> QED
      BY <1>5, <2>1, <2>2
  <1>6. 0 .. n \subseteq S
    <2> HIDE DEF S
    <2> QED
      BY <1>1, <1>4, <1>5, InductTo
  <1>7. \A k \in 0 .. n : Len(a[k]) = Len(b[k])
    BY <1>6
  <1>8. Height(a) = Height(b)
    <2>1. \A k \in 0 .. n : \A j \in 0 .. k - 1 : j \in 0 .. n
      BY <1>1
    <2>2. \A k \in 0 .. n :
             (Len(a[k]) = 1 /\ \A j \in 0 .. k - 1 : Len(a[j]) > 1)
             <=> (Len(b[k]) = 1 /\ \A j \in 0 .. k - 1 : Len(b[j]) > 1)
      BY <1>7, <2>1
    <2> QED
      BY <1>1, <2>2 DEF Height
  <1> QED
    BY <1>7, <1>8 DEF a, b

\* Trees with the same root have the same layers, as far down as both reach.
LEMMA LayersBind ==
  ASSUME NEW s, Indexed(s), Len(s) > 0, NEW t, Indexed(t), Len(t) > 0,
         Len(s) = Len(t) \/ (Distinct(s) /\ Distinct(t)),
         GetRoot(BuildTree(s)) = GetRoot(BuildTree(t)),
         NEW m \in Nat, m <= Height(Layers(s)), m <= Height(Layers(t))
  PROVE  Layers(s)[Height(Layers(s)) - m] = Layers(t)[Height(Layers(t)) - m]
  <1> DEFINE a == Layers(s)
             b == Layers(t)
             g == Height(a)
             h == Height(b)
             S == {d \in 0 .. m : a[g - d] = b[h - d]}
  <1>1. /\ Len(s) \in Nat /\ g \in 0 .. Len(s) /\ Len(a[g]) = 1
        /\ Len(t) \in Nat /\ h \in 0 .. Len(t) /\ Len(b[h]) = 1
    BY HeightDef DEF Indexed
  <1>2. a[g][1] = b[h][1]
    BY TreeDef
  <1>3. /\ \A k \in 0 .. Len(s) : Indexed(a[k])
        /\ \A k \in 0 .. Len(t) : Indexed(b[k])
    BY LayerSizes
  <1>4. /\ \A k \in 1 .. Len(s) : a[k] = Parents(a[k - 1])
        /\ \A k \in 1 .. Len(t) : b[k] = Parents(b[k - 1])
    BY <1>1, LayersDef
  <1>5. \/ g = h /\ \A k \in 0 .. Len(s) : Len(a[k]) = Len(b[k])
        \/ /\ \A k \in 0 .. Len(s) : Distinct(a[k])
           /\ \A k \in 0 .. Len(t) : Distinct(b[k])
    BY LayersDistinct, LayersSameLength
  <1>6. m <= g /\ m <= h
    OBVIOUS
  <1> HIDE DEF a, b, g, h
  <1>7. 0 \in S
    <2>1. Indexed(a[g]) /\ Indexed(b[h])
      BY <1>1, <1>3
    <2>2. a[g] = b[h]
      BY <1>1, <1>2, <2>1, SameIndexed
    <2> QED
      BY <1>1, <2>2
  <1>8. ASSUME NEW d \in 0 .. m - 1, d \in S PROVE d + 1 \in S
    <2> DEFINE k == g - (d + 1)
               l == h - (d + 1)
    <2>1. /\ k \in 0 .. Len(s) /\ k + 1 \in 1 .. Len(s) /\ g - d = k + 1 /\ (k + 1) - 1 = k
          /\ l \in 0 .. Len(t) /\ l + 1 \in 1 .. Len(t) /\ h - d = l + 1 /\ (l + 1) - 1 = l
          /\ d + 1 \in 0 .. m
          /\ g = h => k = l
      BY <1>1, <1>6
    <2>2. a[g - d] = b[h - d]
      BY <1>8
    <2> HIDE DEF k, l
    <2>3. Parents(a[k]) = Parents(b[l])
      BY <1>4, <2>1, <2>2
    <2>4. Indexed(a[k]) /\ Indexed(b[l])
      BY <1>3, <2>1
    <2>5. Len(a[k]) = Len(b[l]) \/ (Distinct(a[k]) /\ Distinct(b[l]))
      BY <1>5, <2>1
    <2>6. a[k] = b[l]
      BY <2>3, <2>4, <2>5, ParentsBind
    <2> QED
      BY <2>1, <2>6 DEF k, l
  <1>9. m \in S
    <2> HIDE DEF S
    <2>1. 0 .. m \subseteq S
      BY <1>7, <1>8, InductTo
    <2> QED
      BY <2>1
  <1> QED
    BY <1>9 DEF a, b, g, h

\* The nodes of the lowest layer are hashes of leaves, those of the others are not.
LEMMA FirstNodes ==
  ASSUME NEW s, Indexed(s), Len(s) > 0
  PROVE  /\ Layers(s)[0][1] = LeafHash(s[1])
         /\ \A k \in 1 .. Len(s) : \E a, b : Layers(s)[k][1] = NodeHash(a, b)
         /\ \A i \in 1 .. Len(s) : Layers(s)[0][i] = LeafHash(s[i])
  <1> DEFINE n == Len(s)
             layers == Layers(s)
  <1>1. n \in Nat /\ DOMAIN s = 1 .. n /\ 1 \in 1 .. n
    BY DEF Indexed
  <1>2. /\ layers[0] = [i \in 1 .. n |-> LeafHash(s[i])]
        /\ \A k \in 1 .. n : layers[k] = Parents(layers[k - 1])
    BY <1>1, LayersDef
  <1>3. \A k \in 0 .. n : Indexed(layers[k]) /\ Len(layers[k]) > 0
    BY LayerSizes
  <1> HIDE DEF layers
  <1>4. ASSUME NEW k \in 1 .. n PROVE \E a, b : layers[k][1] = NodeHash(a, b)
    <2> DEFINE layer == layers[k - 1]
    <2>1. k - 1 \in 0 .. n /\ layers[k] = Parents(layer)
      BY <1>1, <1>2
    <2>2. Indexed(layer) /\ Len(layer) \in Nat /\ Len(layer) > 0
      BY <1>3, <2>1 DEF Indexed
    <2>3. (Len(layer) + 1) \div 2 \in Nat /\ (Len(layer) + 1) \div 2 > 0
      BY <2>2, Halves
    <2>4. 1 \in 1 .. (Len(layer) + 1) \div 2
      <3> DEFINE q == (Len(layer) + 1) \div 2
      <3>1. q \in Nat /\ q > 0
        BY <2>3
      <3> HIDE DEF q
      <3>2. 1 \in 1 .. q
        BY <3>1
      <3> QED
        BY <3>2 DEF q
    <2> HIDE DEF layer
    <2>5. Parents(layer)[1] = NodeHash(Padded(layer)[2 * 1 - 1], Padded(layer)[2 * 1])
      BY <2>2, <2>4, ParentNodes
    <2> QED
      BY <2>1, <2>5
  <1> QED
    BY <1>1, <1>2, <1>4 DEF layers

\* No two lists of leaves have the same root: not lists of one length, and not lists
\* without repetition, a shorter and a longer one among them (of lists with repetition,
\* <<x>> and <<x, x>> have different roots, but <<x, y, z>> and <<x, y, z, z>> do not).
THEOREM RootsBind ==
  ASSUME NEW S, NEW s \in Seq(S), NEW t \in Seq(S),
         Len(s) = Len(t) \/ (Distinct(s) /\ Distinct(t)),
         GetRoot(BuildTree(s)) = GetRoot(BuildTree(t))
  PROVE  s = t
  <1>1. /\ Indexed(s) /\ Len(s) \in Nat /\ (Len(s) = 0 => s = <<>>)
        /\ Indexed(t) /\ Len(t) \in Nat /\ (Len(t) = 0 => t = <<>>)
    BY SeqIndexed
  <1>2. \A u \in Seq(S) : Len(u) > 0 =>
           /\ Height(Layers(u)) \in 0 .. Len(u)
           /\ GetRoot(BuildTree(u)) = Layers(u)[Height(Layers(u))][1]
           /\ GetRoot(BuildTree(u)) # EmptyHash
    <2> TAKE u \in Seq(S)
    <2> HAVE Len(u) > 0
    <2>1. Indexed(u) /\ Len(u) \in Nat
      BY SeqIndexed
    <2>2. Height(Layers(u)) \in 0 .. Len(u)
      BY <2>1, HeightDef
    <2>3. GetRoot(BuildTree(u)) = Layers(u)[Height(Layers(u))][1]
      BY <2>1, TreeDef
    <2>4. Height(Layers(u)) = 0 \/ Height(Layers(u)) \in 1 .. Len(u)
      BY <2>1, <2>2
    <2> QED
      BY <2>1, <2>2, <2>3, <2>4, FirstNodes, HashesBind
  <1>3. GetRoot(BuildTree(<<>>)) = EmptyHash
    <2>1. BuildTree(<<>>) = << <<EmptyHash>> >>
      BY DEF BuildTree
    <2>2. PICK e : e = EmptyHash
      OBVIOUS
    <2>3. Len(<< <<e>> >>) = 1 /\ << <<e>> >>[1] = <<e>> /\ <<e>>[1] = e
      OBVIOUS
    <2>4. BuildTree(<<>>) = << <<e>> >>
      BY <2>1, <2>2
    <2> QED
      BY <2>2, <2>3, <2>4 DEF GetRoot
  <1>4. CASE Len(s) = 0 \/ Len(t) = 0
    BY <1>1, <1>2, <1>3, <1>4
  <1>5. CASE Len(s) > 0 /\ Len(t) > 0
    <2> DEFINE a == Layers(s)
               b == Layers(t)
               g == Height(a)
               h == Height(b)
    <2>1. g \in 0 .. Len(s) /\ h \in 0 .. Len(t) /\ g \in Nat /\ h \in Nat
      BY <1>1, <1>2, <1>5
    <2>2. /\ a[0][1] = LeafHash(s[1]) /\ \A k \in 1 .. Len(s) : \E x, y : a[k][1] = NodeHash(x, y)
          /\ b[0][1] = LeafHash(t[1]) /\ \A k \in 1 .. Len(t) : \E x, y : b[k][1] = NodeHash(x, y)
          /\ \A i \in 1 .. Len(s) : a[0][i] = LeafHash(s[i])
          /\ \A i \in 1 .. Len(t) : b[0][i] = LeafHash(t[i])
      BY <1>1, <1>5, FirstNodes
    <2>3. \A m \in Nat : m <= g /\ m <= h => a[g - m] = b[h - m]
      BY <1>1, <1>5, LayersBind
    <2>4. Len(a[0]) = Len(s) /\ Len(b[0]) = Len(t)
      BY <1>1, <1>5, LayerSizes
    <2> HIDE DEF a, b, g, h
    <2>5. CASE g < h
      <3>1. a[0] = b[h - g] /\ h - g \in 1 .. Len(t)
        <4>1. g - g = 0 /\ g <= g /\ g <= h /\ h - g \in 1 .. Len(t)
          BY <1>1, <2>1, <2>5
        <4> QED
          BY <2>1, <2>3, <4>1
      <3> QED
        BY <2>2, <3>1, HashesBind
    <2>6. CASE h < g
      <3>1. b[0] = a[g - h] /\ g - h \in 1 .. Len(s)
        <4>1. h - h = 0 /\ h <= h /\ h <= g /\ g - h \in 1 .. Len(s)
          BY <1>1, <2>1, <2>6
        <4> QED
          BY <2>1, <2>3, <4>1
      <3> QED
        BY <2>2, <3>1, HashesBind
    <2>7. CASE g = h
      <3>1. a[0] = b[0]
        <4>1. g - g = 0 /\ h - g = 0 /\ g <= g /\ g <= h
          BY <2>1, <2>7
        <4> QED
          BY <2>1, <2>3, <4>1
      <3>2. Len(s) = Len(t) /\ \A i \in 1 .. Len(s) : s[i] = t[i]
        BY <2>2, <2>4, <3>1, HashesBind
      <3> QED
        BY <1>1, <3>2, SameIndexed
    <2> QED
      BY <2>1, <2>5, <2>6, <2>7
  <1> QED
    BY <1>1, <1>4, <1>5
================================================================================
