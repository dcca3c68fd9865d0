SPECIFICATION FairSpec
CONSTANTS
  MaxRequests = 3
  RequestCap = 2
  TimerCap = 2
  MaxChunks = 1
  None = None
INVARIANTS FileAtRest WaitIsTimed OwnUntilTimeout
PROPERTIES EveryRequestAnswered
CHECK_DEADLOCK FALSE
