SPECIFICATION Spec
CONSTANTS
  Requests <- OneGood
  BufLen = 2
  MayLeave = FALSE
CHECK_DEADLOCK FALSE
INVARIANTS OpeningAsserted
