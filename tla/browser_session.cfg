SPECIFICATION MCSpec
CONSTANTS
    Tab = {k1, k2}
    RefreshToken = {t1, t2}
    Jti = {j1, j2}
    Call = {c1, c2}
    None = None
INVARIANTS TypeOK TokensTogether KeptFresh LoggedOutStaysOut
PROPERTIES LoginKept SilentRefresh RevocationNoticed LogoutQuiets
