\* Two paths, three edits in flight, one path also written by other programs,
\* every single failure, no failing rollback.
CONSTANTS
    Paths = {p1, p2}
    Writers = {p1}
    Edits = {e1, e2, e3}
    Versions = {v1, v2, v3, v4}
    Selectors = {s1, s2, s3}
    None = None
    ViewFails = FALSE
    RollbackFails = FALSE
SPECIFICATION Spec
SYMMETRY Symmetry
CHECK_DEADLOCK FALSE
INVARIANTS
    NoSilentLoss
    PhaseMatchesSession
    SelectorAgreement
    PendingReachable
