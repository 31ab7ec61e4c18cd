SPECIFICATION Spec
CONSTANTS
  Sizes <- MCSizes
  ItemSizes <- MCItemSizes
  Byte <- MCByte
INVARIANTS TypeOK Accounting HeadersIntact NeverExits
PROPERTY FifoSpec
