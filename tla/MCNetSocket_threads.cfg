SPECIFICATION FairSpec
CONSTANTS
  Threads = {t1}
  Loop = loop
  Buffers = {b1, b2, b3}
  None = none
  allowHalfOpen = FALSE
  asserts = FALSE
  Reads = {"data"}
  MaxData = 1
  MaxFlow = 0
  MaxEnd = 0
INVARIANTS WritesInOrder NoStrandedBuffer NoLostWakeup WireInOrder
PROPERTIES EveryWriteHanded StreamSpec
CHECK_DEADLOCK FALSE
