SPECIFICATION Spec
CONSTANTS
    c1 = c1
    c2 = c2
    p1 = p1
    w1 = w1
    w2 = w2
    NoCommand = NoCommand
    Commands <- MCCommands
    PureCommands <- MCPureCommands
    Workers <- MCOneWorker
    MaxAttempts = 2
    MaxFaults = 2
INVARIANT
    CommandsSurviveRestarts
