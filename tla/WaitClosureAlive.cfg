SPECIFICATION Spec
CONSTANT MaxChildren = 2
INVARIANT ClosureAlive
CHECK_DEADLOCK FALSE
