SPECIFICATION Spec
CONSTANTS
  Values = {v1, v2}
  Raw = Raw
  MaxSize = 6
INVARIANTS NewIndexIsFresh GrowthMovesNoRaw
PROPERTY ImplementsStore
CHECK_DEADLOCK FALSE
