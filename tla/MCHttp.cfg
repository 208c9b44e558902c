\* Two sessions, two reads that end early; or the parser alone, pieces of seven bytes.
CONSTANTS
  ULLONG_MAX = 999
  HTTP_MAX_HEADER_SIZE = 99
  StreamHeaderSize = 60
  MaxPiece = 7
  MaxCuts = 2
  Talks <- AllTalks
SPECIFICATION BothSpec
INVARIANTS
  MessagesWhole
  Decoded
  Judged
  AssertionsHold
  UrlSplit
PROPERTIES
  Answered
\* When everything is read and answered nothing is left to do.
CHECK_DEADLOCK FALSE
