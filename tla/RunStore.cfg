SPECIFICATION MCSpec
CONSTANTS
    repo = repo  file = file  gpu = gpu
    t1 = t1  t2 = t2  w1 = w1  w2 = w2  r1 = r1  r2 = r2  r3 = r3
    s1 = s1  s2 = s2  p1 = p1  g1 = g1  x1 = x1  x2 = x2
    Resource <- MCResource
    Parent <- MCParent
    Capacity <- MCCapacity
    NoResource = NoResource
    Retired = {}
    Task = {t1, t2}
    Worker = {w1, w2}
    RunId = {r1, r2}
    Sha = {s1, s2}
    Plan = {p1}
    System = {g1}
    ExtId = {x1}
    Claims <- MCClaims
    ClaimKinds = {TRUE, FALSE}
    Expansions <- MCExpansions
    NULL = NULL
    MaxLife = 3
SYMMETRY Symmetry
CHECK_DEADLOCK FALSE
INVARIANTS
    OneActiveRun ReservationsSound CapacityRespected  OrphanHistory

    
