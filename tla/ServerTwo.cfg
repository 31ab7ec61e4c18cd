SPECIFICATION Spec
CONSTANTS
  memory_pool_size = 5
  reactor_num = 2
  factory_num = 1
  max_connections = 10
  RingCap = 1
  PipeCap = 1
  Attempts = 2
  MaxSend = 1
  CtlFails = TRUE
  MaxFails = 0
INVARIANTS TypeOK    PipeEventAvailable
CHECK_DEADLOCK FALSE
