SPECIFICATION Spec
CONSTANTS
  Conns = {c1, c2}
  Configs <- MCConfigs
  Kinds <- MCKinds
  Statuses = {200, 503}
  CurlResults = {"ok", "connect", "write", "recv"}
  Bodies = {"object"}
  Operated = {}
  MaxRequests = 3
  MaxNow = 1
SYMMETRY ConnSymmetry
PROPERTIES
  ErrorBodyIsRelayed
CHECK_DEADLOCK FALSE
