\* Both sides at once: what arrives is read, what is sent is written, in order.  While the
\* socket is open one Do task is there at a time, so that one worker is enough.
CONSTANTS
  w1 = w1
  w2 = w2
  Workers <- OneWorker
  MaxLoop = 1
  IovMax = 1
  HighWaterSize = 1
  FlushCb = FALSE
  ErrorCb = FALSE
  CloseCb = TRUE
  BufLen = 1
  Capacity = 1
  MaxRecv = 3
  MaxMsg = 2
  MaxBytes = 3
  MaxRx = 2
  Breaks <- NoBreaks
  Methods <- NoMethods
SPECIFICATION Spec
\* A connection on which nothing is sent and nothing called may rest for ever.
CHECK_DEADLOCK FALSE
INVARIANTS
  OrderKept
PROPERTIES
  ArrivedIsRead
  SentIsWritten
