SPECIFICATION Spec
CONSTANTS
  ClientFrames <- AllFrames
  Inside <- AnyHeader
  RecvSizes <- Sizes
  Places <- Starts
  DataLengths <- LineLengths
  BUF_LEN = 300
CHECK_DEADLOCK FALSE
CONSTRAINT Near
INVARIANTS ParseSound LineReadable
