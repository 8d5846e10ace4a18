SPECIFICATION Spec
CONSTANTS
  m1 = m1
  m2 = m2
  t1 = t1
  t2 = t2
  None = None
  Asks = {m1, m2}
  Tools = {t1, t2}
  Batches <- MCBatches
  MaxCalls = 5
  MaxFaults = 1
INVARIANTS
  TypeOK
  ConversationIsGenuine
  PublishedIsHeard
  OrderlyTurnsSucceed
PROPERTIES
  OverIsOver
SYMMETRY MCSymmetry
CHECK_DEADLOCK FALSE
