\* Up to four asynchronous commands and one message; two addresses, connects and cuts.
CONSTANTS
  SendBuffer = 1
  MaxNews = 1
  Scripts <- AllScripts
  DISCARD = 16
  Addresses = 2
  REDIS_CONNECT_RETRIES = 2
  MaxCuts = 2
  MaxConnects = 2
SPECIFICATION BothSpec
INVARIANTS
  RepliesMatch
  OwnReply
  FaultsOnlyThen
  CommandsAsMeant
  RepliesInOrder
PROPERTIES
  DisconnectIsLast
  EndsCalled
  CloseFrees
  ReplyComes
\* When every command is answered, or the connection over, nothing is left to do.
CHECK_DEADLOCK FALSE
