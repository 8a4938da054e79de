\* Four commands, any texts between them, one clipboard shared with the world.
CONSTANTS
    Queries = {q1, q2}
    Nonces = {n1, n2}
    Foreign = Foreign
    None = None
    MaxAsked = 4
    MaxTyped = 3
SPECIFICATION Spec
SYMMETRY Symmetry
CHECK_DEADLOCK FALSE
INVARIANTS
    ActsOnWhatWasChosen
    SecretIsTimed
    SecretsHaveOwners
    SuspensionIsDrained
    IdleIsWatched
    AnswersCome
