SPECIFICATION StateEventsSpec
CONSTANTS
    r1 = r1
    r2 = r2
    t1 = t1
    i1 = i1
    Run = {r1, r2}
    Task = {t1}
    Initiative = {i1}
    TaskOf <- SameTask
    InitiativeOf <- SameInitiative
    Operator = {o1, o2}
    NULL = NULL
    MaxEvents = 4
SYMMETRY Symmetric
INVARIANT DeterministicReplay
CHECK_DEADLOCK FALSE
