\* Core files moved by hand, a join that gives up.
SPECIFICATION Spec
CONSTANTS
  c1 = c1
  c2 = c2
  r1 = r1
  Cores = {c1, c2}
  Runs = {r1}
  NStreams = 1
  RetryLimit = 1
  NoRun = NoRun
  NoRes = NoRes
  NoCore = NoCore
  MaxCrash = 1
  MaxMove = 2
  MaxTimeout = 1
  MaxHerod = 0
  MaxCpu = 0
  SettleDelay = FALSE
SYMMETRY Symmetry
ACTION_CONSTRAINTS OneObjectPerGroup OneWaitForEnd
CHECK_DEADLOCK FALSE
INVARIANTS
  LockOwned
  RunsInOrder
