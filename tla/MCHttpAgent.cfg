SPECIFICATION FairSpec
CONSTANTS
  MaxRequests = 4
  Sockets = {s1, s2, s3}
  None = none
  max_sockets = 2
  max_free_sockets = 1
  Peers = {{}, {"refuse", "drop"}, {"unasked", "empty"}, {"early"}}
INVARIANTS PoolBounded PooledAreUsable WaitingMeansFull StartedInOrder AnsweredOnce CrashHasCause
PROPERTIES AllAnswered StartedIsTold
CHECK_DEADLOCK FALSE
