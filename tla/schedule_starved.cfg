SPECIFICATION FairSpec
CONSTANTS
  Schedules = {s1, s2}
  Devices = {d1}
  Deletable = {d1}
  Periods = {2}
  Runners = {r1}
  Manual = {}
  Restarts = FALSE
  MaxTime = 3
PROPERTIES DueIsServed
CHECK_DEADLOCK FALSE
