SPECIFICATION FairSpec
CONSTANTS
  memory_pool_size = 4
  reactor_num = 1
  factory_num = 1
  max_connections = 0
  RingCap = 2
  PipeCap = 1
  Attempts = 2
  MaxSend = 2
  CtlFails = FALSE
  MaxFails = 1
 
PROPERTIES ChunksDelivered CloseDelivered
CHECK_DEADLOCK FALSE
