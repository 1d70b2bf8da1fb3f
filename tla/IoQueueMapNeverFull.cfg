SPECIFICATION Spec
CONSTANTS
  Coros = {c1, c2, c3}
  NoCoro = NoCoro
  SqEntries = 2
  MapCapacity = 2
  IdSpace = 10
  FirstId = 0
  MaxCalls = 7
SYMMETRY Symmetry
INVARIANT MapNeverFull
CHECK_DEADLOCK FALSE
