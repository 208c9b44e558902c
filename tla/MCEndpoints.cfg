\* Connect and ConnectWithTimeout to the end; two workers, three connections, one passing
\* error, two Starts.
CONSTANTS
  w1 = w1
  w2 = w2
  Workers <- TwoWorkers
  MaxConn = 3
  MaxErrors = 1
  MaxStart = 2
SPECIFICATION BothSpec
INVARIANTS
  ConnectOutcome
  OneAcceptor
PROPERTIES
  ConnectEnds
  ArrivedIsAccepted
\* A listener may be stopped, and an attempt to connect ends.
CHECK_DEADLOCK FALSE
