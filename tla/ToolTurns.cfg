SPECIFICATION FairSpec
CONSTANTS
  Calls = {c1, c2, c3}
  MaxTurns = 3
  MaxConnections = 2
INVARIANTS
  TypeOK
  InProgressAgrees
  PendingIsFlushed
  NoRefusedCreate
PROPERTIES
  OutputIsAnswered
CHECK_DEADLOCK FALSE
