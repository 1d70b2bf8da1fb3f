SPECIFICATION FutureSpec
CONSTANTS
  Workers = {w1, w2}
  Free = Free
  MaxTasks = 2
  ValueTasks = {1}
INVARIANTS TaskRunsOnce FutureTypeOK LoopNeverBlocks
PROPERTIES EveryTaskRuns StopReachesWorkers WaitReturns
CHECK_DEADLOCK FALSE
