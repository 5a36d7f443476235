SPECIFICATION Spec
CONSTANTS
    Leaf = {1, 2, 3, 4, 5, 6}
    MaxLeaves = 6
INVARIANTS RootBinds ProofsVerify ProofsBind CanonicalBytes ShortestHeads KeysAscend
