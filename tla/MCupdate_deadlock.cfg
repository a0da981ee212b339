\* The CPU of a crashed process is taken from the machine.
SPECIFICATION FairSpec
CONSTANTS
  c1 = c1
  r1 = r1
  Cores = {c1}
  Runs = {r1}
  NStreams = 1
  RetryLimit = 1
  NoRun = NoRun
  NoRes = NoRes
  NoCore = NoCore
  MaxCrash = 1
  MaxMove = 0
  MaxTimeout = 0
  MaxHerod = 0
  MaxCpu = 1
  SettleDelay = TRUE
CHECK_DEADLOCK FALSE
PROPERTIES
  HandlersReturn
