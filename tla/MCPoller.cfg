\* Two sockets and a connector on two numbers, to the end of Run.
CONSTANTS
  s1 = s1
  s2 = s2
  h1 = h1
  f1 = f1
  f2 = f2
  Fds <- TwoFds
  Sockets <- TwoSockets
  Connectors <- OneConnector
  Listeners = {}
  Handshakes = {}
SPECIFICATION MCSpec
INVARIANT
  RegistrationsSound
PROPERTIES
  RemovedIsReleased
  StopEndsRun
\* After Stop nothing is left to do.
CHECK_DEADLOCK FALSE
