SPECIFICATION DispatchFairSpec
CONSTANTS
    repo = repo  file = file  t1 = t1  t2 = t2  t3 = t3  t4 = t4
    w1 = w1  w2 = w2  a = a  b = b  g1 = g1
    Resource <- MCResource
    Parent <- MCParent
    Capacity <- MCCapacity
    NoResource = NoResource
    Retired = {}
    Task = {t1}
    Worker = {w1}
    RunId = {r1}
    Sha = {s1}
    Plan = {p1}
    System = {g1}
    ExtId = {x1}
    Claims <- WriteClaims
    ClaimKinds = {FALSE}
    Expansions = {}
    NULL = NULL
    MaxLife = 2
    Proc = {a, b}
    WorkerOf <- SameWorker
    Caps = {"repository"}
    ProcCaps <- MCProcCaps
    TaskCaps <- MCTaskCaps
    TaskOrder <- MCTaskOrder
    Deps <- MCDeps
    Children <- MCChildren
    Independent = {}
    Autonomous = {t1}
    Bridge = {}
    BroadScope = {}
    Strict = FALSE
    MaxActive = 1
    Grabowski = g1
    EditStates = {"ready", "verified"}
    Endings = {"completed", "failed"}
    Dedupe = TRUE
    Scenario <- LiveScenarios
    BlockedSets <- NothingOpen
CHECK_DEADLOCK FALSE
INVARIANTS
    NoOrphanWhileExecuting
PROPERTIES
    ImplementsRunStore
    ReconcileRecovers
