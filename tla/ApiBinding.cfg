SPECIFICATION MCProxySpec
CONSTANTS
  Workers = {w1, w2}
  SessionIds = {s1}
  Owners = {o1, o2}
  Providers = {p1, p2}
  Sockets = {k1}
  ProxyProvider = p2
  p1 = p1
  p2 = p2
  NoMessage = NoMessage
  EventKinds = {"other"}
  EventStates = {"speaking"}
  LoggingModes = {"structured"}
  Lifetimes = {}
  DefaultTTL = 2
  LogMayFail = FALSE
  NoSession = NoSession
  NoRequest = NoRequest
  MaxTime = 0
  MaxTokens = 2
  MaxEvents = 1
  MaxCrashes = 1
SYMMETRY WorkerSymmetry
INVARIANTS
  LoggedWorkIsAuthorised
  ProxyTypeOK
  UpstreamIsAuthorised
  HandoffNotLost
  RelaysFitContract
CHECK_DEADLOCK FALSE
