\* One of three signatures is modified on the way, and the browser stores the bundle.
SPECIFICATION Spec
CONSTANTS
    v1 = v1
    v2 = v2
    v3 = v3
    Did = {1, 2, 3}
    Validator = {v1, v2, v3}
    Signers <- SpareSigners
    Threshold = 2
    GraceArg = {0, 1}
    MaxRecords = 3
    MaxBundles = 1
    MaxTime = 1
    MaxDamage = 1
    None = None
INVARIANT AllSignaturesVerify
