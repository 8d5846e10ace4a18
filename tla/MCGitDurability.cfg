SPECIFICATION FairSpec
CONSTANTS
  i1 = i1
  i2 = i2
  w1 = w1
  w2 = w2
  Owner = Owner
  NoWrite = NoWrite
  Insts = {i1, i2}
  Writes = {w1, w2}
  Kind <- MCKind
  Policy <- MCPolicy
  Budgets <- MCBudgets
INVARIANTS
  PointerBeforePush
  ReportedIsRemote
  DiagnosticsAreTruthful
  RecordedIsClocked
PROPERTIES
  NormalReachesRemote
CHECK_DEADLOCK FALSE
