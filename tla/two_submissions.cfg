\* Two ceremonies submitted by two BFF threads, one command at a time.
SPECIFICATION Spec
CONSTANTS
    Did = {d1, d2}
    Drawn = {d1, d2}
    Validator = {v1}
    Credential = {k1, k2}
    Challenge = {c1, c2}
    Request = {r1, r2}
    Handler = {h1, h2}
    Process = {p1}
    Threshold = 1
    None = None
    Torn = Torn
SYMMETRY Symmetry
INVARIANTS TypeOK OneRequestPerCeremony DuplicateRefused PromotedInLedger RevocationFinal LedgerWellFormed
