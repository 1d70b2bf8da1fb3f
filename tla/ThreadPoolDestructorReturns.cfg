SPECIFICATION FairSpec
CONSTANTS
  Workers = {w1, w2}
  Free = Free
  MaxTasks = 1
PROPERTY DestructorReturns
CHECK_DEADLOCK FALSE
