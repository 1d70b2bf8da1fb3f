SPECIFICATION Spec
CONSTANT MaxChildren = 3
INVARIANTS AwaitKeepsPromise NoStaleResume AwaitedWaiterIsSafe
PROPERTY WaitEnds
CHECK_DEADLOCK FALSE
