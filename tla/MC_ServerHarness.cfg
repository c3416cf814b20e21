\* The server test's SetUp, test cases and TearDown against the server process.
CONSTANTS
    FirstUserPort = 1024
    MinEphemeral <- MCHarnessMinEphemeral
    MaxTries = 10
    MaxCalls = 2
    TakenChoices <- MCHarnessTaken
    Exhausted = Exhausted
    MaxRetries = 3
    TestRpcs = 2
    ForeignReplies <- MCForeignReplies
    LocalUri = LocalUri
    RemoteUri = RemoteUri
    SchemelessUri = SchemelessUri
    MalformedUri = MalformedUri
    NoUri = NoUri
    NotAMap = NotAMap
SPECIFICATION HarnessSpec
\* The test binary ends; its final states have no successor.
CHECK_DEADLOCK FALSE
PROPERTIES
    TestBinaryEnds
