SPECIFICATION Spec
CONSTANTS
  Keys = {0, 1, 3, 4, 6}
  Values = {c1, c2}
  Empty = Empty
  Tombstone = Tombstone
  Primes <- MCPrimes
  NumEntries = 2
  WordSize = 64
  Hash <- MCHash
INVARIANTS TypeOK LiveKeysFindable SizeCountsLive
PROPERTY ImplementsMap
CHECK_DEADLOCK FALSE
