\* The end of a run while the ResourceRanger restarts a process of it.
SPECIFICATION Spec
CONSTANTS
  c1 = c1
  c2 = c2
  r1 = r1
  Cores = {c1, c2}
  Runs = {r1}
  NStreams = 1
  RetryLimit = 1
  NoRun = NoRun
  NoRes = NoRes
  NoCore = NoCore
  MaxCrash = 1
  MaxMove = 0
  MaxTimeout = 0
  MaxHerod = 0
  MaxCpu = 0
  SettleDelay = FALSE
SYMMETRY Symmetry
CHECK_DEADLOCK FALSE
PROPERTIES
  EndedRunStaysEnded
