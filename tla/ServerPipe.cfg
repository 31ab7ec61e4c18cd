SPECIFICATION FairSpec
CONSTANTS
  memory_pool_size = 6
  reactor_num = 1
  factory_num = 1
  max_connections = 10
  RingCap = 2
  PipeCap = 2
  Attempts = 2
  MaxSend = 1
  CtlFails = FALSE
  MaxFails = 0
PROPERTIES FdsReachReactor
CHECK_DEADLOCK FALSE
