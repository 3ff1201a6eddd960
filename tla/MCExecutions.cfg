SPECIFICATION Spec
CONSTANTS
    w1 = w1  w2 = w2  c1 = c1  c2 = c2  i1 = i1  f = f  t = t
    Workers = {w1, w2}
    API = API
    Scheduler = Scheduler
    Commands = {c1, c2}
    KnownItems = {i1}
    ItemOf <- MCItemOf
    RepositoryOf <- MCRepositoryOf
    NoRepository = NoRepository
    Signals <- MCSignals
    PolicySet <- MCPolicySet
    ExecutorAnswers <- MCAnswers
    Targets <- MCTargets
    VerifyRequests <- MCVerifyRequests
    HasSpaces = TRUE
    MaxAttempts = 2
    MaxRequests = 2
    MaxCrashes = 1
    Absent = Absent
    None = None
    Files = {f, t}
    TestFiles = {t}
    RuledFiles = {}
INVARIANTS
    TypeOK
    LocksFollowExecutions
    AcknowledgedIsRecorded
    AnnouncedPullRequestExists
PROPERTIES
    EndedIsFinal
    
