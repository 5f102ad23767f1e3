SPECIFICATION Spec
CONSTANTS
  Slots = {x1, x2, x3}
  Latencies = {0, 1}
  Policies <- MCPolicies
  MaxRequests <- MCMaxRequests
  MaxNow <- MCMaxNow
SYMMETRY SlotSymmetry
INVARIANTS
  TypeOK
  SlotsMatchAttempts
  ProbeNeverLockedOut
  RecoveryIsBounded
  HealthMatchesCounters
PROPERTIES
  SerialMeetsContract
