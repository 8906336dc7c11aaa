SPECIFICATION Spec
CONSTANTS
  ClientFrames <- LongFrames
  Inside <- AnyHeader
  RecvSizes <- LongSizes
  Places <- Starts
  DataLengths <- LineLengths
  BUF_LEN = 300
CHECK_DEADLOCK FALSE
CONSTRAINT Near
INVARIANTS LongDelivered
