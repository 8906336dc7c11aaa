SPECIFICATION FairSpec
CONSTANTS
  Scripts <- SilentScript
  Tokens = 1
  PipeCap = 1
  Pipelined = FALSE
  Split = FALSE
  MayLeave = TRUE
  MayFail = FALSE
  Writes <- StdoutOnly
  EarlyClose <- NoStreams
CHECK_DEADLOCK FALSE
PROPERTIES SessionEnds
