SPECIFICATION Spec
CONSTANTS
  Schedules = {s1}
  Devices = {d1}
  Deletable = {d1}
  Periods = {2, 3}
  Runners = {r1, r2}
  Manual = {m1}
  Restarts = TRUE
  MaxTime = 3
SYMMETRY Symmetry
INVARIANTS
  TypeOK
  
  
  
CHECK_DEADLOCK FALSE
