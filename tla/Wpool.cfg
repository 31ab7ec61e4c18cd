SPECIFICATION FairSpec
CONSTANTS
  Num = 2
  Reactors = 2
  Cap = 1
  MaxPush = 2
INVARIANTS TypeOK NoLostWakeup FreedWhenQuiet
PROPERTIES EveryItemHandled DestroyReturns
CHECK_DEADLOCK FALSE
