\* A source rewritten by another program while its session is suspended again.
CONSTANTS
    Paths = {p1, p2}
    Writers = {p1}
    Edits = {e1, e2}
    Versions = {v1, v2, v3, v4}
    Selectors = {s1, s2, s3}
    None = None
    ViewFails = FALSE
    RollbackFails = FALSE
SPECIFICATION Spec
SYMMETRY Symmetry
CHECK_DEADLOCK FALSE
INVARIANTS
    SelectorIsLive
