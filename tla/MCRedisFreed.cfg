CONSTANTS
  SendBuffer = 1
  MaxNews = 1
  Scripts <- AllScripts
SPECIFICATION Spec
INVARIANT
  NotTouchedAfterFree
CHECK_DEADLOCK FALSE
