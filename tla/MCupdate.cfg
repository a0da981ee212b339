\* Processes of two cores each, while one CPU is taken from the machine or comes back.
SPECIFICATION Spec
CONSTANTS
  c1 = c1
  c2 = c2
  c3 = c3
  c4 = c4
  r1 = r1
  Cores = {c1, c2, c3, c4}
  Runs = {r1}
  NStreams = 2
  RetryLimit = 1
  NoRun = NoRun
  NoRes = NoRes
  NoCore = NoCore
  MaxCrash = 1
  MaxMove = 0
  MaxTimeout = 1
  MaxHerod = 0
  MaxCpu = 1
  SettleDelay = TRUE
SYMMETRY Symmetry
CHECK_DEADLOCK FALSE
INVARIANTS
  ProcessReachable
  CoreAccounted
