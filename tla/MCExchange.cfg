SPECIFICATION Spec
CONSTANTS
  Conns = {c1, c2}
  Configs <- MCConfigs
  Kinds <- MCKinds
  Statuses = {200, 503}
  CurlResults = {"ok", "connect", "write", "recv"}
  Bodies = {"object"}
  Operated = {1}
  MaxRequests = 3
  MaxNow = 1
SYMMETRY ConnSymmetry
INVARIANTS
  TypeOK
  ClaimsAreHeld
  EngineCountsExchanges
  OneAnswerOneVoice
PROPERTIES
  AttemptsAreFresh
CHECK_DEADLOCK FALSE
