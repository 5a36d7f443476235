SPECIFICATION FairSpec
CONSTANTS
    Did = {d1}
    Tab = {t1}
    Slot = {s1, s2}
    Grace = 1
    MaxTime = 2
    MaxBundles = 1
    None = None
    Torn = Torn
PROPERTY SyncEnds
