SPECIFICATION Spec
CONSTANTS
  Scripts <- WireScripts
  Tokens = 2
  PipeCap = 1
  Pipelined = TRUE
  Split = TRUE
  MayLeave = TRUE
  MayFail = FALSE
  Writes <- WireWrites
  EarlyClose <- OutOnly
CHECK_DEADLOCK FALSE
INVARIANTS TypeOK InputOrder CloseAnswered InHand LineIntegrity StoppedDrained ExitJustified
PROPERTIES RelaysOutput
