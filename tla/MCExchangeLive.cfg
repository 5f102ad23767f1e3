SPECIFICATION FairSpec
CONSTANTS
  Conns = {c1, c2}
  Configs <- LiveConfigs
  Kinds <- LiveKinds
  Statuses = {200, 503}
  CurlResults = {"ok", "connect", "write", "recv"}
  Bodies = {"object", "junk", "large", "brim"}
  Operated = {}
  MaxRequests = 2
  MaxNow = 0
PROPERTIES
  EveryRequestEnds
CHECK_DEADLOCK FALSE
