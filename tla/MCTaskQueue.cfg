\* Three workers and three posts, in both modes; the queue holds the last pointer to one task.
CONSTANTS
  w1 = w1
  w2 = w2
  w3 = w3
  t1 = t1
  t2 = t2
  t3 = t3
  Workers <- ThreeWorkers
  Tasks <- ThreeTasks
  Owned <- SomeOwned
SPECIFICATION Spec
CHECK_DEADLOCK FALSE
INVARIANT
  PoolIsSound
PROPERTIES
  CloseIsJoined
  FifoSpec
