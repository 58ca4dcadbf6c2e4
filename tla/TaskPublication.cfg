SPECIFICATION Spec
CONSTANTS
  NULL = NULL
  c1 = c1
  t1 = t1
  t2 = t2
  x = x
  Content = {c1}
  NamedId = {n1}
  Key = {k1, k2}
  Caller = {a, b}
  MaxEvent = 3
  PTask = {t1, t2}
  Path = {f}
  Publisher = {x, y}
  MaxPRev = 2
  MaxGrant = 2
  TaskOf <- McTaskOf
  ca = ca
  cb = cb
  cc = cc
  n1 = n1
  Catalog <- McCatalog
  NormalOrder <- McNormal
  Conflict <- McConflict
  Profile <- McProfile
  Floor = 2
  RefillTarget = 3
  MaxNew = 2
  BucketTicks = 2
  Cycle = {x, y}
  NoPlan = NoPlan
  MaxClock = 2
  MaxHead = 1
  MaxCycles = 2
  MaxMoves = 1
  i1 = i1
  ta = ta
  tb = tb
  Initiative = {i1}
  WorkItem = {ta, tb}
  OwnerOf <- McOwner
  DependsOn <- McAfter
  Children <- McAfter
  Bridge = {tb}
  Operator = {a, b}
  NoRow = NoRow
  Report = Report
  MaxBody = 2
  MaxPlan = 2
  MaxEdit = 2
SYMMETRY Symm
INVARIANTS
  CandidateHistory
PROPERTY
  PublicationAccounted RefillAccounted 
CHECK_DEADLOCK FALSE
