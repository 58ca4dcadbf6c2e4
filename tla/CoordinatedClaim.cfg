SPECIFICATION CoordSpec
CONSTANTS
    repo = repo  t1 = t1  t2 = t2  w1 = w1  w2 = w2  q1 = q1  q2 = q2  k2 = k2  lease = lease
    Resource <- MCResource
    Parent <- MCParent
    Capacity <- MCCapacity
    NoResource = NoResource
    Retired = {}
    Task = {t1, t2}
    Worker = {w1, w2}
    RunId = {r1, r2}
    Sha = {s1, s2}
    Plan = {p1, p2}
    System = {}
    ExtId = {}
    Claims <- ReadClaims
    ClaimKinds = {TRUE}
    Expansions = {}
    NULL = NULL
    MaxLife = 2
    Caller = {a, b}
    Request = {q1, q2}
    RequestWorker <- MCWorker
    RequestTasks <- MCTasks
    ExplicitKey <- MCExplicit
    LeaseKey = {lease}
    KeysOf <- MCKeys
    Scenario <- MCScenario
    MaxRenewal = 1
CHECK_DEADLOCK FALSE
SYMMETRY CallerSymmetry
INVARIANTS
    ClaimsExclusive
PROPERTIES
    CommitsAreCurrent CoordImplementsRunStore
