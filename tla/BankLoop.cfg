\* Five commands and three requests, at a terminal or through a pipe.
CONSTANTS
  MaxLines = 5
  MaxRequests = 3
SPECIFICATION LoopSpec
INVARIANT
  NothingLostAtEof
PROPERTIES
  RequestsAreServed
  CommandsAreProcessed
CHECK_DEADLOCK FALSE
