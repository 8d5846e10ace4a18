SPECIFICATION Spec
CONSTANTS
  i2 = i2
  i3 = i3
  k1 = k1
  s1 = s1
  s2 = s2
  p1 = p1
  p2 = p2
  pol = pol
  u = u
  w = w
  e1 = e1
  e2 = e2
  x = x
  y = y
  open = open
  closed = closed
  nofile = nofile
  g0 = g0
  noview = noview
  None = None
  Paths = {p1, p2, pol}
  PolicyPath = pol
  Declared = {p1, p2}
  Cognition = {u, w}
  Open = open
  Gone = nofile
  NoView = noview
  Ops = {i3, i2, k1, s1, s2}
  Ingests = {i3, i2}
  Corrects = {k1}
  Syncs = {s1, s2}
  Page <- MCPage
  Events <- MCEvents
  Late = {i3}
  Texts <- MCTexts
  Batches <- MCBatches
  InitTree <- MCInitTree
  Scenarios <- MCScenarios
  MaxCommits = 4
  MaxCalls = 2
  MaxCites = 1
INVARIANTS
  TypeOK
  CheckpointCoversArchive
  OneLine
  FencedCatalogIsStable
  PublishedIsSynchronized
  CognitionRestsOnCurrent
  NothingForgotten
  ProgressIsReadable
  ViewIsCurrent
  AnsweredIsRemote
  ReleasedIsRecoverable
SYMMETRY Interchangeable
CHECK_DEADLOCK FALSE
