SPECIFICATION Spec
CONSTANTS
    f = f  t = t  p1 = p1  p2 = p2  r1 = r1  r2 = r2  c1 = c1
    q = q  d = d  s = s  x1 = x1
    Files = {f, t}
    TestFiles = {t}
    RuledFiles = {}
    MaxRetries = 2
    EngineAnswers = {"completed", "failed"}
    EngineCrashes = 1
    MaxReports = 2
    Nothing = Nothing
    OrchAnswers = {"completed", "failed", "malformed"}
    OrchReports <- MCReports
    HasPullRequestPort = TRUE
    HasProjectRepository = TRUE
    MaxEdits = 1
    Sessions = {s1, s2}
    Keys = {k1, k2}
    Owner = Owner
    MaxUnits = 2
    NoPlan = NoPlan
    NoTransaction = NoTransaction
    Trees <- MCTrees
    Packages <- MCPackages
    TestModules <- MCTestModules
    CoreModules <- MCPackages
    Revisions = {v1}
    CodeStores = {"postgres", "memory"}
    MaxBuilds = 2
    CanonicalRows <- MCRows
    FirstRows <- MCFirstRows
    Projects = {p1, p2}
    CodeRepository = CodeRepository
    NoRevision = NoRevision
    NoJob = NoJob
    MaxProjections = 2
    MaxRowEdits = 1
    FailurePoints = {0, 3}
    Entities = {q, d, s}
    TypeOf <- MCTypeOf
    TestEntities = {}
    Tokens <- MCTokens
    LexicalScore <- MCLexical
    VectorScore <- MCVector
    SymbolScore <- MCSymbolScore
    NodeTokens = 2
    Task = Task
    TaskTokens = 3
    RequirementRefs = {q}
    PastExecutions <- MCPast
    RequestsForContext <- MCRequests
    SearchLimit = 2
    HasEmbeddings = TRUE
    NoBuild = NoBuild
    MaxVersion = 2
    MaxIndexings = 2
CHECK_DEADLOCK FALSE
INVARIANTS
    TypeOK
    
    PullRequestHasChanges
    KeyedSavesSucceed
    LookupsAreSingle
    
    CapsuleKeepsBest
PROPERTIES
    EndedWorkflowIsStill
    EngineFollowsGraph
    WorkflowsEnd
    
