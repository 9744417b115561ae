SPECIFICATION Spec
CONSTANTS
  Threads = {t1}
  Loop = loop
  Buffers = {b1, b2}
  None = none
  allowHalfOpen = FALSE
  asserts = FALSE
  Reads = {}
  MaxData = 0
  MaxFlow = 0
  MaxEnd = 1
PROPERTIES EndSendsData
CHECK_DEADLOCK FALSE
