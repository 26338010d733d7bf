SPECIFICATION Spec
CONSTANTS
  Workers = {w1, w2}
  SessionIds = {s1}
  Owners = {o1}
  Providers = {p1}
  EventKinds = {"done"}
  EventStates = {"speaking"}
  LoggingModes = {"off", "structured", "transcript"}
  Lifetimes = {}
  DefaultTTL = 1
  LogMayFail = TRUE
  NoSession = NoSession
  NoRequest = NoRequest
  MaxTime = 1
  MaxTokens = 2
  MaxEvents = 2
  MaxCrashes = 1
SYMMETRY WorkerSymmetry
INVARIANTS
  TranscriptHasEvent
  MemoryFollowsLog
  AcknowledgedIsLogged
  OffModeKeepsNoText
  StateIsLogged
  HandoffNotLost
CHECK_DEADLOCK FALSE
