SPECIFICATION FairSpec
CONSTANTS
    c1 = c1
    c2 = c2
    p1 = p1
    w1 = w1
    w2 = w2
    NoCommand = NoCommand
    Commands <- MCOneEach
    PureCommands <- MCPureCommands
    Workers <- MCWorkers
    MaxAttempts = 2
    MaxFaults = 2
INVARIANTS
    TypeOK
    ExclusiveHolder
    AckedIsDurable
    DeadIsExhausted
    CompletesAtMostOnce
PROPERTIES
    ReleasedOnlyWhenSettled
    ImplementsLifecycle
    ImplementsFairLifecycle
