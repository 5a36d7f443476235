SPECIFICATION Spec
CONSTANTS
    Did = {d1}
    Drawn = {d1}
    Validator = {v1, v2}
    Credential = {k1}
    Challenge = {c1}
    Request = {r1}
    Handler = {h1}
    Process = {p1, p2}
    Threshold = 2
    None = None
    Torn = Torn
SYMMETRY Symmetry
INVARIANTS QuorumBacked LoginKeyApproved LedgerWellFormed
