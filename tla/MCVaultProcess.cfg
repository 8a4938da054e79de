\* Two paths and three edits under crashes, quits and restarts.
CONSTANTS
    Paths = {p1, p2}
    Writers = {p1}
    Edits = {e1, e2, e3}
    Versions = {v1, v2, v3, v4}
    Selectors = {s1, s2, s3}
    None = None
    ViewFails = TRUE
    RollbackFails = FALSE
SPECIFICATION ProcessSpec
SYMMETRY Symmetry
INVARIANTS
    PendingNeverShadowed
PROPERTIES
    CleanExitLosesNothing
