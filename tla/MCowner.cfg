\* A run that was to be shut down ends by itself; the next run gets its cores.
SPECIFICATION Spec
CONSTANTS
  c1 = c1
  c2 = c2
  c3 = c3
  r1 = r1
  r2 = r2
  Cores = {c1, c2, c3}
  Runs = {r1, r2}
  NStreams = 2
  RetryLimit = 1
  NoRun = NoRun
  NoRes = NoRes
  NoCore = NoCore
  MaxCrash = 1
  MaxMove = 0
  MaxTimeout = 0
  MaxHerod = 0
  MaxCpu = 0
  SettleDelay = TRUE
SYMMETRY Symmetry
ACTION_CONSTRAINTS OneObjectPerGroup OneWaitForEnd
CHECK_DEADLOCK FALSE
INVARIANTS
  OneProcessPerCore
