SPECIFICATION Spec
CONSTANTS
  Workers = {w1}
  SessionIds = {s1}
  Owners = {o1}
  Providers = {p1}
  EventKinds = {"other"}
  EventStates = {"speaking", "ended"}
  LoggingModes = {"structured"}
  Lifetimes = {}
  DefaultTTL = 2
  LogMayFail = FALSE
  NoSession = NoSession
  NoRequest = NoRequest
  MaxTime = 0
  MaxTokens = 1
  MaxEvents = 2
  MaxCrashes = 0
INVARIANTS
  EndedTokenIsInvalid
CHECK_DEADLOCK FALSE
