SPECIFICATION Spec
CONSTANTS
  MaxRestarts = 2
  Window = 2
  BaseBackoff = 1
  MaxBackoff = 1
  Grace = 1
  TermWait = 1
  StartupTimeout = 1
  RequestTimeout = 1
  MaxCalls = 5
  Lists <- MCLists
  Configs <- MCConfigs
  GraceMax = 1
  KillWait = 1
  MaxId = 5
INVARIANTS
  TypeOK
  OneProcess
  NothingForgotten
  ViewIsLive
  CallsAreFew
  SpawnsAreBounded
  ShutdownInsists
PROPERTIES
  StopIsKept
  LatchHolds
  CleanExitRests
  RetiredStaysRetired
CHECK_DEADLOCK FALSE
