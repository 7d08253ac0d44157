SPECIFICATION Spec
CONSTANTS
  Hours = {0, 2, 23}
  Minutes = {0, 59}
  Starts = {0, 119, 120, 121, 1439, 1440, 7000, 10079}
  Late = {0, 1, 59, 1500}
  Horizon = 21000
INVARIANTS ArmedIsFirst
PROPERTIES NeverDrifts
CHECK_DEADLOCK FALSE
