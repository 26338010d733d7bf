SPECIFICATION Spec
CONSTANTS
  MaxStarts = 2
  MaxStops = 3
INVARIANTS
  StopReleasesEverything
CHECK_DEADLOCK FALSE
