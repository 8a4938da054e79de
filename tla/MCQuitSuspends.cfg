\* The promise of main.py about quitting, with a decision open or not.
CONSTANTS
    Paths = {p1, p2}
    Writers = {p1}
    Edits = {e1, e2}
    Versions = {v1, v2, v3, v4}
    Selectors = {s1, s2, s3}
    None = None
    ViewFails = FALSE
    RollbackFails = FALSE
SPECIFICATION ProcessSpec
SYMMETRY Symmetry
INVARIANTS
    QuitSuspends
