\* Three commands: two durability commands and one that copies to the clipboard.
\* The terminal operation needs no clipboard, as the ones of the tests.
CONSTANTS
    Tasks = {save, suspend, copy}
    Drains = {save, suspend}
    Invoking = {copy}
    Terminal = Terminal
    None = None
SPECIFICATION Spec
CHECK_DEADLOCK FALSE
INVARIANTS
    TerminalAlone
    ClaimedOnce
    NothingIsCutOff
PROPERTIES
    ShutdownEnds
    TasksSettle
