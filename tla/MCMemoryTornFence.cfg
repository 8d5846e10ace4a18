SPECIFICATION FairSpec
CONSTANTS
  p1 = p1
  p2 = p2
  r1 = r1
  o1 = o1
  o2 = o2
  cat = cat
  obj = obj
  ep = ep
  missing = missing
  c0 = c0
  c1 = c1
  c2 = c2
  x1 = x1
  e0 = e0
  e1 = e1
  e2 = e2
  None = None
  Torn = Torn
  Free = Free
  Stale = Stale
  Missing = missing
  CatalogFile = cat
  Procs = {p1}
  Readers = {}
  Ops = {o1, o2}
  Files = {cat, obj, ep}
  Contents = {missing, c0, c1, c2, x1, e0, e1, e2}
  Binary = {ep}
  Writes <- MCWrites
  After <- MCAfter
  InitFiles <- MCInitFiles
  Direct <- MCDirect
  MaxFaults = 1
PROPERTY
  FenceIsLowered
CHECK_DEADLOCK FALSE
