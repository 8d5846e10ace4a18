SPECIFICATION Spec
CONSTANTS
  p1 = p1
  p2 = p2
  r1 = r1
  t1 = t1
  t2 = t2
  missing = missing
  a0 = a0
  a1 = a1
  a2 = a2
  b1 = b1
  x = x
  n0 = n0
  n1 = n1
  n2 = n2
  None = None
  Free = Free
  Stale = Stale
  Missing = missing
  Procs = {p1, p2}
  Runs = {r1}
  Revisions = {1, 2}
  Targets = {t1, t2}
  Texts = {missing, a0, a1, a2, b1, x}
  Names = {n0, n1, n2}
  Recipe <- MCRecipe
  Identity <- MCIdentity
  InitFiles <- MCInitFiles
  InitName = n0
  InitRevision = 1
  Edits <- MCEdits
  MaxOps = 2
  MaxCalls = 3
  MaxFaults = 1
  MaxEvents = 3
INVARIANTS
  OpenMeansInstalled
  RunsKeepTheirInstallation
PROPERTIES
  OriginalsAreKept
  OnlyInstallationOpens
  RevocationIsFinal
CHECK_DEADLOCK FALSE
SYMMETRY CallSymmetry
