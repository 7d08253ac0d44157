SPECIFICATION FairSpec
CONSTANTS
  Workers = {j1}
  Devices = {d1, d2}
  Deletable = {d1}
  Configs = {c1}
  Torn = Torn
  Names = {n1}
  Roots = {r1}
  ForeignKeys = FALSE
  Faults = FALSE
  MaxVersions = 2
PROPERTIES JobsFinish
CHECK_DEADLOCK FALSE
