SPECIFICATION TasksSpec
CONSTANTS
    t1 = t1
    old = old
    old2 = old2
    new = new
    r1 = r1
    Task = {t1}
    TaskOrder <- OneTask
    Body = {old, old2, new}
    Executable = {new}
    CallerKey = {k1, k2}
    Result = {r1}
    Observation = {o1}
    Doc <- AllDocs
    NULL = NULL
    MaxRev = 3
    MaxGit = 1
    l1 = l1
    l2 = l2
    LTask = {l1, l2}
    LTaskOrder <- LeaseTasks
    MaxBatch = 2
    MaxEdits = 3
    RTask = {x1, x2}
    RDoc <- Bindings
    MaxRebinds = 2
    MaxTurns = 3
SYMMETRY MCSymmetry
INVARIANTS
    
    ReceiptsAuthenticated
    ReplayMatches
    RevisionsAuthorised
PROPERTIES
    MigratedAsReviewed ReboundAsPlanned
