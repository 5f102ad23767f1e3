SPECIFICATION FairSpec
CONSTANTS
  MaxRestarts = 1
  Window = 1
  BaseBackoff = 1
  MaxBackoff = 1
  Grace = 1
  TermWait = 1
  StartupTimeout = 1
  RequestTimeout = 1
  MaxCalls = 5
  Lists <- OneList
  Configs <- LiveConfigs
  GraceMax = 1
  KillWait = 1
  MaxId = 2
PROPERTIES
  StopEnds
  WaitEnds
CHECK_DEADLOCK FALSE
