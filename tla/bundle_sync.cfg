SPECIFICATION Spec
CONSTANTS
    Did = {d1}
    Tab = {t1}
    Slot = {s1, s2}
    Grace = 1
    MaxTime = 3
    MaxBundles = 2
    None = None
    Torn = Torn
SYMMETRY Symmetry
INVARIANTS TypeOK RevocationBounded TabsInformed
PROPERTY NeverBackwards
