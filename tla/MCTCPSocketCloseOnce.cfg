\* The promise that the close callback is called once.
CONSTANTS
  w1 = w1
  w2 = w2
  Workers <- TwoWorkers
  MaxLoop = 1
  IovMax = 2
  HighWaterSize = 0
  FlushCb = FALSE
  ErrorCb = FALSE
  CloseCb = TRUE
  BufLen = 1
  Capacity = 1
  MaxRecv = 1
  MaxMsg = 0
  MaxBytes = 0
  MaxRx = 1
  Breaks <- NoBreaks
  Methods <- OnlyClose
SPECIFICATION Safety
\* A connection on which nothing is sent and nothing called may rest for ever.
CHECK_DEADLOCK FALSE
INVARIANTS
  CloseOnce
