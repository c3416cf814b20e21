\* Spec 3 and 6: a non-local uri forbids an inline source. The loader fetches it
\* and ignores the source.
CONSTANTS
    FirstUserPort = 1024
    MinEphemeral <- MCHarnessMinEphemeral
    MaxTries = 10
    MaxCalls = 2
    TakenChoices <- MCHarnessTaken
    Exhausted = Exhausted
    MaxRetries = 3
    TestRpcs = 2
    ForeignReplies <- MCForeignReplies
    LocalUri = LocalUri
    RemoteUri = RemoteUri
    SchemelessUri = SchemelessUri
    MalformedUri = MalformedUri
    NoUri = NoUri
    NotAMap = NotAMap
SPECIFICATION HarnessSpec
CHECK_DEADLOCK FALSE
INVARIANT ConfigurationLoadMatchesSpec
