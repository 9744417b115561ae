SPECIFICATION MCSpec
CONSTANTS
  Keys <- MCKeys
  Values <- MCValues
  Parts = {m}
  MaxCalls = 3
  Symbols <- MCSymbols
  URLs <- MCURLs
INVARIANTS
  HeadIsAsCalled
  UrlTakenApart
CHECK_DEADLOCK FALSE
