SPECIFICATION Spec
CONSTANTS
    Did = {d1, d2}
    Drawn = {d1}
    Validator = {v1}
    Credential = {k1}
    Challenge = {c1}
    Request = {r1}
    Handler = {h1}
    Process = {p1, p2}
    Threshold = 1
    None = None
    Torn = Torn
SYMMETRY Symmetry
INVARIANTS RevocationFinal
