SPECIFICATION DispatchSpec
CONSTANTS
    repo = repo  file = file  t1 = t1  t2 = t2  t3 = t3  t4 = t4
    w1 = w1  w2 = w2  a = a  b = b  g1 = g1
    Resource <- MCResource
    Parent <- MCParent
    Capacity <- MCCapacity
    NoResource = NoResource
    Retired = {}
    Task = {t1, t2, t3, t4}
    Worker = {w1, w2}
    RunId = {r1, r2}
    Sha = {s1, s2}
    Plan = {p1, p2}
    System = {g1}
    ExtId = {x1, x2}
    Claims <- ReadClaims
    ClaimKinds = {FALSE}
    Expansions = {}
    NULL = NULL
    MaxLife = 2
    Proc = {a, b}
    WorkerOf <- OwnWorker
    Caps = {"repository"}
    ProcCaps <- MCProcCaps
    TaskCaps <- MCTaskCaps
    TaskOrder <- MCTaskOrder
    Deps <- MCDeps
    Children <- MCChildren
    Independent = {}
    Autonomous = {t1, t2, t4}
    Bridge = {t3}
    BroadScope = {}
    Strict = FALSE
    MaxActive = 1
    Grabowski = g1
    EditStates = {"ready", "verified", "superseded"}
    Endings = {"completed", "interrupted"}
    Dedupe = FALSE
    Scenario <- CheckoutScenarios
    BlockedSets <- AllOrNothing
CHECK_DEADLOCK FALSE
SYMMETRY RunSymmetry
INVARIANTS
    BoundToOwnRequest
PROPERTIES
    ClaimsUnlocked
