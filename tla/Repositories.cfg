SPECIFICATION ReposSpec
CONSTANTS
    repo = repo
    Resource = {repo}
    Parent <- MCParent
    Capacity <- MCCapacity
    NoResource = NoResource
    Retired = {}
    Task = {t1}
    Worker = {w1}
    RunId = {r1}
    Sha = {s1}
    Plan = {p1}
    System = {}
    ExtId = {}
    Claims <- ReadClaims
    ClaimKinds = {TRUE}
    Expansions = {}
    NULL = NULL
    MaxLife = 2
    Proc = {a, b}
    MaxCommits = 1
    v1 = v1
    v2 = v2
    Wt = {v1, v2}
    WtOrder <- Worktrees
    Detached = {v2}
    NewCommit = {n1}
    MaxPlans = 2
    MaxChurn = 3
    c1 = c1
    c2 = c2
    d2 = d2
    Commit = {c1, c2, d2}
    NoCommit = NoCommit
    Descends <- History
    Content <- Documents
    Caller = {a, b}
    MaxMoves = 2
SYMMETRY ProcSymmetry
PROPERTIES
    CleanupExact RemovedAsReviewed FetchedAsReviewed WsImplementsRunStore
