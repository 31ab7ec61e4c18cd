SPECIFICATION Spec
CONSTANTS
  memory_pool_size = 7
  reactor_num = 2
  factory_num = 1
  max_connections = 10
  RingCap = 2
  PipeCap = 2
  Attempts = 2
  MaxSend = 1
  CtlFails = FALSE
  MaxFails = 0
INVARIANTS QueueIntact
CHECK_DEADLOCK FALSE
