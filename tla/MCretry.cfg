\* Two runs in turn on two cores, one crash: the threads stop when all runs are over.
SPECIFICATION Spec
CONSTANTS
  c1 = c1
  c2 = c2
  r1 = r1
  r2 = r2
  Cores = {c1, c2}
  Runs = {r1, r2}
  NStreams = 1
  RetryLimit = 1
  NoRun = NoRun
  NoRes = NoRes
  NoCore = NoCore
  MaxCrash = 1
  MaxMove = 0
  MaxTimeout = 0
  MaxHerod = 0
  MaxCpu = 0
  SettleDelay = TRUE
SYMMETRY Symmetry
CHECK_DEADLOCK FALSE
INVARIANTS
  TypeOK
  OneProcessPerCore
  ProcessWatched
  CoreAccounted
  ProcessReachable
PROPERTIES
  RetriesKept
  ImplementsLease
