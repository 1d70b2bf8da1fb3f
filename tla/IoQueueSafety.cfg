SPECIFICATION Spec
CONSTANTS
  Coros = {c1, c2}
  NoCoro = NoCoro
  SqEntries = 2
  MapCapacity = 2
  IdSpace = 8
  FirstId = 5
  MaxCalls = 6
SYMMETRY Symmetry
INVARIANTS
  TypeOK NoDanglingCompleter NoLostCompletion LastSqeIsQueued
  TimeoutFollowsItsOperation
PROPERTIES ResumedByOwnOperation NotCalledAfterCancel AwaitedIsNotSkipped
CHECK_DEADLOCK FALSE
