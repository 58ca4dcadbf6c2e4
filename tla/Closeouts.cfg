SPECIFICATION CloseSpec
CONSTANTS
    repo = repo
    Resource <- MCResource
    Parent <- MCParent
    Capacity <- MCCapacity
    NoResource = NoResource
    Retired = {}
    Task = {t1}
    Worker = {w1}
    RunId = {r1}
    Sha = {s1, s2}
    Plan = {p1, p2}
    System = {g1}
    ExtId = {x1}
    Claims <- MCClaims
    ClaimKinds = {TRUE}
    Expansions = {}
    NULL = NULL
    MaxLife = 2
    Closer = {c1, c2}
    MaxRev = 3
    MaxGit = 1
    EvRun = {1}
    Observer = {1, 2}
    MaxContent = 3
    MaxTxn = 2
    MaxFile = 5
    MaxAttested = 2
    EvCriteria <- McCriteria
    EvBundles <- McBundles
    PullState <- McPulls
    Tick = 50
    MaxClock = 50
    NrTask = {1}
    NrClient = {1, 2}
    NrReviewer = {"p", "r"}
    NrCriteria <- McNrCriteria
    NrBundles <- McNrBundles
    NrTimes = {0, 97}
    MaxBody = 2
    MaxPlan = 2
SYMMETRY Symmetry
CHECK_DEADLOCK FALSE
INVARIANTS
    EvidenceKept AttestedCloseout ClosedAsShown
PROPERTIES
    CertifiesCurrent ClosePathImplementsRunStore
