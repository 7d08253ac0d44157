SPECIFICATION Spec
CONSTANTS
  Workers = {j1, j2}
  Devices = {d1, d2}
  Deletable = {d1, d2}
  Configs = {c1}
  Torn = Torn
  Names = {n1}
  Roots = {r1, r2}
  ForeignKeys = TRUE
  Faults = TRUE
  MaxVersions = 2
SYMMETRY Symmetry
INVARIANTS
  BackupInv
  SuccessMeansBackedUp
  FinishedCoversScope
  
  
PROPERTIES
  ImplementsBatch
CHECK_DEADLOCK FALSE
