\* One session, refreshed and revoked by two threads at once, with restarts.
SPECIFICATION Spec
CONSTANTS
    DID = {d1}
    Challenge = {c1}
    RefreshToken = {t1}
    Jti = {j1, j2}
    Thread = {h1, h2}
    Bundle <- OnBundle
    None = None
    ChallengeTtl = 1
    SessionLifetime = 2
    RefreshLifetime = 2
    LockWait = 1
    MaxTime = 4
SYMMETRY Symmetry
INVARIANTS TypeOK RevocationEffective
PROPERTIES ClosedForever RestartKeepsAnswers
