\* Two edits, two service operations, one failing close or one foreign write.
CONSTANTS
    Edits = {e1, e2}
    Earlier = {e1}
    MaxDocs = 5
    MaxVaults = 3
    MaxJobs = 2
    MaxMishaps = 1
    Span = Span
    None = None
SPECIFICATION Spec
CHECK_DEADLOCK FALSE
INVARIANTS
    LeasesAreOwned
    NothingIsForgotten
    LiveIsReadable
    CleanIsPublished
    NeverStaysFrozen
    SlotIsResumable
PROPERTIES
    SecretsAreWiped
