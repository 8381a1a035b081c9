SPECIFICATION Spec
CONSTANTS
  t1 = t1
  t2 = t2
  t3 = t3
  Tasks <- MCTasks
  Delay = 2
  MaxTime = 5
INVARIANT SecondDeletes
PROPERTIES SecondDeleteComes StopReturns
CHECK_DEADLOCK FALSE
