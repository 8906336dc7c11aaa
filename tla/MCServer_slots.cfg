SPECIFICATION FairSpec
CONSTANTS
  MAXCONNS = 2
  MaxFd = 2
  Attempts = 2
  InitialTables <- Uninitialised
  AcceptMayFail = TRUE
  ThreadMayFail = TRUE
  ForkMayFail = TRUE
  DaemonMayFail = TRUE
CHECK_DEADLOCK FALSE
INVARIANTS TypeOK SlotExclusive OwnClientOnly SocketsKept SlotReturned Bookkeeping
PROPERTIES Released FreeSlotFound
