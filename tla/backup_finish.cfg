SPECIFICATION FairSpec
CONSTANTS
  Workers = {j1, j2}
  Devices = {d1, d2}
  Deletable = {}
  Configs = {c1}
  Torn = Torn
  Names = {n1}
  Roots = {r1}
  ForeignKeys = TRUE
  Faults = FALSE
  MaxVersions = 4
PROPERTIES JobsFinish
CHECK_DEADLOCK FALSE
