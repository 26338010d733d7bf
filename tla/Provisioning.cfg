SPECIFICATION ProvisioningSpec
CONSTANTS
  Workers = {w1, w2, w3}
  Hosts = {h1, h2}
  AllowedHosts = {h1}
  Limit = 2
  MaxAdmitted = 5
  Environments <- EveryEnvironment
SYMMETRY WorkerSymmetry
INVARIANTS
  CountIsABound
  ProvisioningTypeOK
  DiagnosticsAgree
  SessionsArePaidFor
PROPERTIES
  ImplementsGate
CHECK_DEADLOCK FALSE
