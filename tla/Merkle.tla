-------------------------------- MODULE Merkle --------------------------------
(***************************************************************************)
(* The Merkle tree of src/decpki/merkle.py and the proof check of          *)
(* browser/src/crypto.js.  SHA-256 is a free constructor: two hashes are   *)
(* equal exactly when what was hashed is, and the prefixes 0x00 and 0x01   *)
(* are the two tags.                                                       *)
(***************************************************************************)
EXTENDS Naturals, Sequences

EmptyHash         == <<"empty">>
LeafHash(data)    == <<"leaf", data>>
NodeHash(l, r)    == <<"node", l, r>>

\* Mutant of Padded: the last node of a longer odd layer is dropped.
PaddedDropsLast(layer) ==
    CASE Len(layer) % 2 = 0 -> layer
      [] Len(layer) = 1     -> <<layer[1], layer[1]>>
      [] OTHER              -> SubSeq(layer, 1, Len(layer) - 1)

\* A layer of odd length has its last node twice.
Padded(layer) ==
    IF Len(layer) % 2 = 1 THEN Append(layer, layer[Len(layer)]) ELSE layer

Parents(layer) ==
    LET nodes == Padded(layer)
    IN  [i \in 1 .. Len(nodes) \div 2 |-> NodeHash(nodes[2 * i - 1], nodes[2 * i])]

\* The hashes of the leaves, and of each layer's parents, as far up as asked.
Layers(leaves) ==
    LET layer[k \in 0 .. Len(leaves)] ==
            IF k = 0 THEN [i \in DOMAIN leaves |-> LeafHash(leaves[i])]
                     ELSE Parents(layer[k - 1])
    IN  layer

\* The first layer of one node, with which the loop ends.
Height(layers) ==
    CHOOSE k \in DOMAIN layers :
        Len(layers[k]) = 1 /\ \A j \in 0 .. k - 1 : Len(layers[j]) > 1

\* The layers from the leaves to the root.
BuildTree(leaves) ==
    IF leaves = <<>>
    THEN << <<EmptyHash>> >>
    ELSE LET layers == Layers(leaves)
         IN  [k \in 1 .. Height(layers) + 1 |-> layers[k - 1]]

GetRoot(tree) == tree[Len(tree)][1]

\* Mutant of GetProof: the index is not halved from layer to layer.
GetProofSameIndex(tree, index) ==
    [k \in 1 .. Len(tree) - 1 |->
        LET nodes == Padded(tree[k])
        IN  IF index % 2 = 0
            THEN [h |-> nodes[((index + 1) % Len(nodes)) + 1], s |-> "right"]
            ELSE [h |-> nodes[((index - 1) % Len(nodes)) + 1], s |-> "left"]]

\* The index, counted from 0, of the ancestor of leaf number index in each of n layers.
Way(index, n) ==
    LET at[k \in 1 .. n] == IF k = 1 THEN index ELSE at[k - 1] \div 2
    IN  at

\* The sibling of each node on the way from leaf number index.
GetProof(tree, index) ==
    [k \in 1 .. Len(tree) - 1 |->
        LET nodes == Padded(tree[k])
            i     == Way(index, Len(tree))[k]
        IN  IF i % 2 = 0
            THEN [h |-> nodes[i + 2], s |-> "right"]
            ELSE [h |-> nodes[i], s |-> "left"]]

\* Mutant of VerifyFromHash: only the lengths of the two hashes are compared.
VerifyFromHashLengths(hash, proof, root) == TRUE

\* The hashes that a proof's steps make of a leaf's.
Ascent(hash, proof) ==
    LET current[k \in 0 .. Len(proof)] ==
            IF k = 0 THEN hash
            ELSE IF proof[k].s = "left" THEN NodeHash(proof[k].h, current[k - 1])
                                        ELSE NodeHash(current[k - 1], proof[k].h)
    IN  current

\* verifyMerkleProofFromHash.
VerifyFromHash(hash, proof, root) == Ascent(hash, proof)[Len(proof)] = root

VerifyProof(data, proof, root) == VerifyFromHash(LeafHash(data), proof, root)
================================================================================
