\* Files of every kind the reader tells apart; two operations, two edits or faults.
CONSTANTS
    Sources <- MCSources
    MaxRecords = 3
    MaxFields = 16
    MaxText = 10
    Strange = {"strange"}
    MaxEdits = 2
    MaxMoves = 1
    MaxTasks = 2
    MaxFaults = 2
    MaxEvents = 2
    None = None
SPECIFICATION Spec
CHECK_DEADLOCK FALSE
INVARIANTS
    EvidenceIsExact
    WriterAgreesWithReader
    NothingIsLeft
PROPERTIES
    OtherFieldsKept
    PublishedIsTheRevision
