\* A returned port that the test cannot bind.
CONSTANTS
    FirstUserPort = 1024
    MinEphemeral <- MCMinEphemeral
    MaxTries = 10
    MaxCalls = 3
    TakenChoices <- MCTakenChoices
    Exhausted = Exhausted
SPECIFICATION Spec
CHECK_DEADLOCK FALSE
INVARIANT BindSucceeds
