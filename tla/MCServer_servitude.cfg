SPECIFICATION Spec
CONSTANTS
  MAXCONNS = 2
  MaxFd = 3
  Attempts = 2
  InitialTables <- NoneFree
  AcceptMayFail = FALSE
  ThreadMayFail = FALSE
  ForkMayFail = FALSE
  DaemonMayFail = FALSE
CHECK_DEADLOCK FALSE
INVARIANTS InServitude
