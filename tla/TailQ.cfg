SPECIFICATION Spec
CONSTANTS
  NULL = NULL
  Bases = {b1, b2}
  Events = {e1, e2, e3}
INVARIANTS TypeOK LinksAgree
PROPERTY QueueSpec
