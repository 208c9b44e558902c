CONSTANTS
  ULLONG_MAX = 999
  HTTP_MAX_HEADER_SIZE = 99
  MaxCuts = 1
  Talks <- AllTalks
SPECIFICATION Spec
INVARIANT
  HeadersWhole
CHECK_DEADLOCK FALSE
