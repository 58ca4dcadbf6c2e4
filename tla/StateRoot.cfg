SPECIFICATION RootSpec
CONSTANTS
    r1 = r1
    r2 = r2
    t1 = t1
    i1 = i1
    Run = {r1, r2}
    Task = {t1}
    Initiative = {i1}
    TaskOf <- SameTask
    InitiativeOf <- SameInitiative
    Operator = {o1, o2}
    NULL = NULL
    MaxEvents = 7
    EntryName = {1, 2}
    Migrator = {m1, m2}
    MaxInode = 3
    BoundRow = {1}
    MaxNow = 2
    MaxGeneration = 3
    MaxVersion = 1
    RecentSeconds = 0
    RecentMax = 1
    Tiers <- OneTier
    RestoreMaxAge = 1
SYMMETRY Symmetric
INVARIANTS
    ReplayVerifies
PROPERTIES
    RepairIsReviewed
    
    RecoveryKept
CHECK_DEADLOCK FALSE
