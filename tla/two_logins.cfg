\* Two DIDs log in and refresh on two threads while the bundle lists or drops them.
SPECIFICATION Spec
CONSTANTS
    DID = {d1, d2}
    Challenge = {c1, c2}
    RefreshToken = {t1, t2}
    Jti = {j1, j2}
    Thread = {h1, h2}
    Bundle <- OnOffBundles
    None = None
    ChallengeTtl = 1
    SessionLifetime = 1
    RefreshLifetime = 2
    LockWait = 1
    MaxTime = 0
SYMMETRY Symmetry
INVARIANT OneSessionPerChallenge
PROPERTY InactiveDidMintsNothing ImplementsRegistry
