SPECIFICATION FairSpec
CONSTANTS
  Coros = {c1, c2}
  NoCoro = NoCoro
  SqEntries = 2
  MapCapacity = 2
  IdSpace = 8
  FirstId = 5
  MaxCalls = 5
PROPERTIES CompletionIsDelivered TimeoutEndsWait
CHECK_DEADLOCK FALSE
