SPECIFICATION EchoSpec
CONSTANTS
  Banner = 5
  Scripts <- EchoScripts
  Tokens = 9
  PipeCap = 2
  Pipelined = FALSE
  Split = FALSE
  MayLeave = TRUE
  MayFail = TRUE
  Writes <- StdoutOnly
  EarlyClose <- NoStreams
CHECK_DEADLOCK FALSE
INVARIANTS EchoTypeOK EchoKept OneLineAhead
PROPERTIES EchoReturns CloseEndsBoth CloseTold
