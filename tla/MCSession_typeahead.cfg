SPECIFICATION Spec
CONSTANTS
  Scripts <- TypingScripts
  Tokens = 0
  PipeCap = 2
  Pipelined = TRUE
  Split = FALSE
  MayLeave = FALSE
  MayFail = FALSE
  Writes <- AllWrites
  EarlyClose <- NoStreams
CHECK_DEADLOCK FALSE
INVARIANTS InputKept
