SPECIFICATION Spec
CONSTANTS
  p1 = p1
  p2 = p2
  r1 = r1
  None = None
  Procs = {p1, p2}
  Readers = {r1}
  Versions <- MCVersions
  Applies <- MCApplies
  Outcomes <- MCOutcomes
  Status <- MCStatus
  Updated <- MCUpdated
  Prediction <- MCPrediction
  Inputs <- MCInputs
  Advice <- MCAdvice
  Sourced <- MCSourced
INVARIANTS
  EpisodeStaysReadable
  AnsweredIsSaved
  ReadWasCurrent
PROPERTIES
  CompareAndSet
