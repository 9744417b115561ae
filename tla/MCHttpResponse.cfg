SPECIFICATION Spec
CONSTANTS
  Responses <- MCResponses
  MaxSegments = 4
INVARIANTS DeliveredIsBody  FinishedIsComplete LengthExact
CHECK_DEADLOCK FALSE
