SPECIFICATION Spec
CONSTANTS
  N = 3
  fsz = 2
  Talkers = {1}
  MaxSend = 2
INVARIANTS TypeOK InOrder 
CHECK_DEADLOCK FALSE
