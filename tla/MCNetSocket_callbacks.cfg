SPECIFICATION FairSpec
CONSTANTS
  Threads = {}
  Loop = loop
  Buffers = {b1, b2}
  None = none
  allowHalfOpen = FALSE
  asserts = TRUE
  Reads = {"eof", "reset", "error"}
  MaxData = 0
  MaxFlow = 2
  MaxEnd = 1
INVARIANTS TypeOK CloseIsLast ResumeHolds
PROPERTIES EndSendsData ShutdownLeadsToClose
CHECK_DEADLOCK FALSE
