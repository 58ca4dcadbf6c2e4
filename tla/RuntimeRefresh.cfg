SPECIFICATION MCSpec
CONSTANTS
  NULL = NULL
  ta = ta
  tb = tb
  i1 = i1
  i2 = i2
  p1 = p1
  p2 = p2
  Task = {ta, tb}
  Protected = {tb}
  Intent = {i1, i2}
  Proc = {p1, p2}
  MaxMain = 2
  MaxLease = 2
  Unit = {1, 2}
  Required = 1
  MaxConverge = 2
INVARIANTS SuccessAccounted 
PROPERTY AuthoritySingleUse
CHECK_DEADLOCK FALSE
SYMMETRY Sym
