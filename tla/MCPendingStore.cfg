CONSTANTS
    Ids = {i1, i2, i3}
    None = None
SPECIFICATION Spec
CHECK_DEADLOCK FALSE
INVARIANTS
    ConfirmedSurvives
    SelectorAnswers
PROPERTY KeepsPromise
