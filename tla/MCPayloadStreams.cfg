\* Two consumers of two-chunk payloads, one vault, one fork and two failures.
CONSTANTS
    Readers = {r1, r2}
    Blocks = 2
    CloseAttempts = 2
    Named = TRUE
    MaxFaults = 2
    None = None
SPECIFICATION Spec
SYMMETRY Symmetry
INVARIANTS
    StreamsAreTrue
    OpenIsIntact
    ClosedIsReleased
