SPECIFICATION MCSpec
CONSTANT Length = 4
INVARIANTS
  TreeNeverFaults
  CursorFollows
  TreeIsDocument
  JsonReadsValue
  PathsIntact
  ConfigIsMeaning
PROPERTIES
  CallsNest
  EveryStepAdvances
