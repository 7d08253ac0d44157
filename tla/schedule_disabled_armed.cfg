SPECIFICATION Spec
CONSTANTS
  Schedules = {s1}
  Devices = {d1}
  Deletable = {}
  Periods = {2}
  Runners = {r1}
  Manual = {}
  Restarts = FALSE
  MaxTime = 3
INVARIANTS DisabledIsDisarmed
CHECK_DEADLOCK FALSE
