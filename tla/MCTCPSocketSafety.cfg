\* Both sides at once, with every way the connection may end, and an error callback.
CONSTANTS
  w1 = w1
  w2 = w2
  Workers <- TwoWorkers
  MaxLoop = 1
  IovMax = 1
  HighWaterSize = 0
  FlushCb = TRUE
  ErrorCb = TRUE
  CloseCb = TRUE
  BufLen = 1
  Capacity = 1
  MaxRecv = 2
  MaxMsg = 1
  MaxBytes = 2
  MaxRx = 1
  Breaks <- AnyBreak
  Methods <- AllMethods
SPECIFICATION Safety
\* A connection on which nothing is sent and nothing called may rest for ever.
CHECK_DEADLOCK FALSE
SYMMETRY WorkerSymmetry
INVARIANTS
  OneWorkerAtATime
  IdleMeansNothingToDo
  NothingLost
  CloseIsLast
PROPERTY
  SendsAsByteStream
