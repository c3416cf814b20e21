CONSTANTS
    c1 = c1
    c2 = c2
    NoSnap = NoSnap
    NoResult = NoResult
    NoCaller = NoCaller
    NoVal = NoVal
    Scripts <- MCScripts
    Behave <- MCBehave
    G0 = 0
    Empty = "empty"
    WarmUps = 10
    Fields <- MCFields
    Flatten = TRUE
    Callers <- MCTwoCallers
    Batches <- MCBatches
SPECIFICATION Spec
INVARIANT
    TypeOK
PROPERTY
    ImplementsEngineSafety
