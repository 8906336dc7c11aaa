SPECIFICATION FairSpec
CONSTANTS
  Requests <- OneDefect
  BufLen = 2
  MayLeave = TRUE
CHECK_DEADLOCK FALSE
INVARIANTS Orderly Upgraded AcceptKeyRight ExampleAnswered
PROPERTIES OpeningEnds
