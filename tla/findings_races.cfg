SPECIFICATION MCSpec
CONSTANTS
  Threads = {t1, t2}
  Devices = {d1}
  Titles = {n1, n2}
  Policies = {p1}
  NoPolicy = NoPolicy
  ForeignKeys = FALSE
  Faults = TRUE
  MaxEvaluations = 3
  MaxOperations = 2
  MaxFailed = 1
SYMMETRY Symmetry
INVARIANTS
  FindingsInv
  OccurrencesHaveEvidence
  FailuresAreFound
  OneActiveFinding
  FindingsAreAlerted
  OneNewAlert
PROPERTIES
  EvidenceKept
CHECK_DEADLOCK FALSE
