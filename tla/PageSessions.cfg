SPECIFICATION Spec
CONSTANTS
  MaxStarts = 3
  MaxStops = 5
INVARIANTS
  TypeOK
  NothingLeaks
  FailedStartIsClean
  CredentialsMatchSession
  MuteSilencesEveryTrack
  NeverStuckStarting
CHECK_DEADLOCK FALSE
