SPECIFICATION FairSpec
CONSTANTS
  Producers = {p1, p2}
  Nodes = {n1, n2, n3}
  Stub = Stub
  Null = Null
  MaxValues = 4
INVARIANTS NoUseAfterFree ListIsOrder
PROPERTIES ImplementsFifo NothingOnlyIfBusy EveryValueConsumed
