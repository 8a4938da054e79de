SPECIFICATION Spec
CONSTANTS
    Processes = {p, q}
    Ids = {r1, r2, r3}
    None = none
    MaxSlot = 2
    MaxSaves = 3
    MaxWrites = 2
    MaxCrashes = 1
    MaxHarm = 1
CHECK_DEADLOCK FALSE
INVARIANTS
    PredecessorRetained
    AdvertisedExists
    OneRecovery
    AnswerIsTrue
PROPERTIES
    NoLostUpdate
SYMMETRY Symmetry
