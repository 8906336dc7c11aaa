SPECIFICATION FairSpec
CONSTANTS
  Scripts <- MixedScripts
  Tokens = 3
  PipeCap = 2
  Pipelined = FALSE
  Split = FALSE
  MayLeave = FALSE
  MayFail = TRUE
  Writes <- AllWrites
  EarlyClose <- NoStreams
CHECK_DEADLOCK FALSE
INVARIANTS InputKept DrainedAtExit CountTracksApp Ending AbortCause
PROPERTIES SessionEnds
