SPECIFICATION Spec
CONSTANTS
  rsz = 2
  fsz = 2
  MayFail = {"srv", "event_pool", "epevents", "read_waits", "write_waits", "epfd", "rp", "pipe0", "sfd"}
  MaxConns = 3
INVARIANTS TypeOK  FreesItsOwn NothingLeft
CHECK_DEADLOCK FALSE
