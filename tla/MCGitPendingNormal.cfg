SPECIFICATION Spec
CONSTANTS
  i1 = i1
  i2 = i2
  w1 = w1
  w2 = w2
  Owner = Owner
  NoWrite = NoWrite
  Insts = {i1}
  Writes = {w1, w2}
  Kind <- MCKind
  Policy <- MCPolicy
  Budgets <- AloneBudgets
INVARIANT
  PendingNormalIsVisible
CHECK_DEADLOCK FALSE
