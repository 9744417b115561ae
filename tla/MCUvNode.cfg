SPECIFICATION FairSpec
CONSTANTS
  Threads = {t1}
  Loop = loop
  None = none
  Queries = {q1}
  Servers = {s1, s2}
  Hosted = {s2}
  Watched = {s2}
INVARIANTS NoEventLost
PROPERTIES CreatedIsInit LoopLookupAnswered PendingCloseEnds
CHECK_DEADLOCK FALSE
