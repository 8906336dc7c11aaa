SPECIFICATION FairSpec
CONSTANTS
  BUFFSIZE = 5
  Prefix = 1
  MaxLine = 3
  Characters = 8
CHECK_DEADLOCK FALSE
INVARIANTS TypeOK NothingHeld Consecutive
PROPERTIES RelaysLines LineShown
