SPECIFICATION StoreSpec
CONSTANTS
  Workers = {w1, w2}
  Devices = {d1}
  Configs = {c1, c2}
  Torn = Torn
  Names = {n1}
  Roots = {r1}
  ForeignKeys = FALSE
  Faults = FALSE
  MaxVersions = 3
INVARIANTS NoRepeatedVersion
CHECK_DEADLOCK FALSE
