SPECIFICATION FairSpec
CONSTANTS
  Threads = {t1}
  Loop = loop
  None = none
  Queries = {q1}
  Servers = {}
  Hosted = {}
  Watched = {}
PROPERTIES LookupAnswered
CHECK_DEADLOCK FALSE
