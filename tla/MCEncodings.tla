------------------------------ MODULE MCEncodings ------------------------------
(***************************************************************************)
(* Merkle's operators over every sequence of distinct leaves up to a       *)
(* length (the leaves of a bundle are distinct, since its DIDs are), and   *)
(* CanonicalCbor's over the boundaries of its heads and small nested       *)
(* items.  One input changes at a time.                                    *)
(***************************************************************************)
EXTENDS Merkle, CanonicalCbor

CONSTANTS Leaf,       \* leaf data
          MaxLeaves   \* bound on the number of leaves

VARIABLES leaves, item

--------------------------------------------------------------------------------
(* Items *)

\* Both sides of every boundary of writeHead, up to the largest safe integer, numbers
\* whose bytes differ, and one whose lower half is negative to JavaScript's shifts.
Numbers ==
    {Number(n) : n \in {0, 1, 23, 24, 25, 255, 256, 258, 65535, 65536, 16777216, 16909060}}
    \cup {<<0, 0, 0, 0, 128, 1, 2, 3>>, <<0, 1, 2, 3, 129, 5, 6, 7>>}
    \cup {<<0, 0, 0, 0, 255, 255, 255, 255>>, <<0, 0, 0, 1, 0, 0, 0, 0>>,
          <<0, 0, 0, 1, 0, 0, 0, 24>>, <<0, 31, 255, 255, 255, 255, 255, 255>>}

\* Strings of one repeated byte, about the lengths where the head grows, and short
\* ones of different bytes, the bytes of heads among them.
Repeat(b, n) == [i \in 1 .. n |-> b]
Strings == {Repeat(97, n) : n \in {0, 1, 2, 23, 24, 25}}
           \cup {<<98>>, <<97, 98>>, <<98, 97>>, <<96>>, <<96, 97>>}
Keys == {<<97>>, <<98>>, <<97, 97>>, Repeat(97, 23), Repeat(97, 24), <<98, 97>>}

Scalars == {Simple(k) : k \in {"null", "true", "false"}} \cup {Uint(d) : d \in Numbers}
           \cup {Text(s) : s \in Strings} \cup {Bytes(s) : s \in Strings}
Null    == Simple("null")
Few     == {Null, Uint(Number(0)), Text(<<97>>), Bytes(<<97>>), Text(<<>>)}

\* Arrays and objects of up to two items, and the same once more around those; the
\* entries of an object in every order.
Arrays(S)  == {Array(s) : s \in UNION {[1 .. n -> S] : n \in 0 .. 2}}
Objects(S) == {Object(<<>>)} \cup {Object(<<Entry(k, v)>>) : k \in Keys, v \in S}
              \cup {Object(<<Entry(p[1], v), Entry(p[2], w)>>) :
                       p \in {q \in Keys \X Keys : q[1] # q[2]}, v, w \in S}
Nested == Arrays(Few) \cup Objects({Null, Text(<<97>>)})
Inner  == {Array(<<>>), Object(<<>>), Array(<<Null>>),
           Object(<<Entry(<<97>>, Null), Entry(<<98>>, Null)>>),
           Object(<<Entry(<<98>>, Null), Entry(<<97>>, Null)>>)}
Items  == Scalars \cup Nested \cup Arrays(Inner) \cup Objects(Inner)

--------------------------------------------------------------------------------
Init == leaves = <<>> /\ item = Null

Add  == /\ item = Null /\ Len(leaves) < MaxLeaves
        /\ \E x \in Leaf \ Range(leaves) : leaves' = Append(leaves, x)
        /\ UNCHANGED item
Drop == leaves # <<>> /\ leaves' = Front(leaves) /\ UNCHANGED item
Take == leaves = <<>> /\ item = Null /\ item' \in Items \ {Null} /\ UNCHANGED leaves
Put  == item # Null /\ item' = Null /\ UNCHANGED leaves

Next == Add \/ Drop \/ Take \/ Put
Spec == Init /\ [][Next]_<<leaves, item>>

--------------------------------------------------------------------------------
(* Properties of the Merkle tree *)

Root(s)     == GetRoot(BuildTree(s))
Proof(s, i) == GetProof(BuildTree(s), i - 1)

\* get_proof's proof of each leaf is accepted, for every number of leaves: it
\* pads odd layers just as build_tree does.
ProofsVerify ==
    \A i \in DOMAIN leaves : VerifyProof(leaves[i], Proof(leaves, i), Root(leaves))

\* The proof of one leaf proves nothing of another.
ProofsBind ==
    \A i \in DOMAIN leaves : \A x \in Leaf \ {leaves[i]} :
        ~VerifyProof(x, Proof(leaves, i), Root(leaves))

\* Leaves left out, added or exchanged change the root.
Others ==
    {RemoveAt(leaves, i) : i \in DOMAIN leaves}
    \cup {Append(leaves, x) : x \in Leaf \ Range(leaves)}
    \cup {[leaves EXCEPT ![i] = x] : i \in DOMAIN leaves, x \in Leaf}
    \cup {[leaves EXCEPT ![i] = leaves[j], ![j] = leaves[i]] : i, j \in DOMAIN leaves}
RootBinds == \A s \in Others \ {leaves} : Root(s) # Root(leaves)

--------------------------------------------------------------------------------
(* Properties of the encoding *)

\* What an item says, its parts saying what value tells: the entries of an object have
\* no order.
ValueOf(value, x) ==
    << x.kind,
       CASE x.kind = "array" -> [i \in DOMAIN x.content |-> value[x.content[i]]]
         [] x.kind = "map"   -> {<<e.key, value[e.item]>> : e \in Range(x.content)}
         [] OTHER            -> x.content >>
Values(S) == LET value[x \in S] == ValueOf(value, x) IN value

Value      == Values(Items)
Code       == Encoding(Items)
Encodings  == {[value |-> Value[x], bytes |-> Code[x]] : x \in Items}

\* An item's encoding is that of every item that says the same, in whatever order
\* the decoder listed an object's entries, and it is not, nor does it begin, that
\* of any other: a signature over the bytes is one over what the bundle says, for
\* the worker, which encodes anew what it decoded, as for Python.
CanonicalBytes ==
    LET bytes == Code[item]
        value == Value[item]
    IN  \A e \in Encodings : IsPrefix(bytes, e.bytes) <=> value = e.value

\* The heads that CBOR allows for a number: in the first byte, or in 1, 2, 4 or 8
\* bytes after a first byte that says how many.
Widths == <<1, 2, 4, 8>>
LowBytes(d, n) == SubSeq(d, Digits - n + 1, Digits)
Heads(major, d) ==
    {<<32 * major + n>> : n \in {m \in 0 .. 23 : Number(m) = d}}
    \cup {<<32 * major + 23 + k>> \o LowBytes(d, Widths[k]) :
             k \in {e \in 1 .. 4 : Fits(d, Widths[e])}}

\* A number's encoding is the shortest of its heads, as canonical CBOR demands, on
\* both sides of every boundary, and the bytes that follow are the number's: also
\* above 2^32, where JavaScript shifts the two halves one after the other, and
\* where a shift takes a half for a negative number.
ShortestHeads == item.kind = "uint" =>
    /\ Code[item] \in Heads(0, item.content)
    /\ \A h \in Heads(0, item.content) : Len(Code[item]) <= Len(h)

\* The entries of an object come in ascending order of their encoded keys, byte by
\* byte: so cbor2 sorts them, whether it compares lengths first or not.
Ascending(a, b) == \E n \in 1 .. Len(b) :
    /\ n > Len(a) \/ a[n] < b[n]
    /\ \A m \in 1 .. n - 1 : m <= Len(a) /\ a[m] = b[m]
KeysAscend == item.kind = "map" =>
    LET entries == Sorted(item.content)
    IN  \A i, j \in DOMAIN entries : i < j =>
           Ascending(EncodedKey(entries[i].key), EncodedKey(entries[j].key))
================================================================================
