SPECIFICATION TablesSpec
CONSTANTS
  EP_SIZE = 3
  MaxFd = 5
  MayFail = FALSE
INVARIANTS TablesTypeOK WritesInside 
