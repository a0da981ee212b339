\* One run whose processes crash until its cores are quarantined.
SPECIFICATION FairSpec
CONSTANTS
  c1 = c1
  c2 = c2
  r1 = r1
  Cores = {c1, c2}
  Runs = {r1}
  NStreams = 1
  RetryLimit = 1
  NoRun = NoRun
  NoRes = NoRes
  NoCore = NoCore
  MaxCrash = 2
  MaxMove = 0
  MaxTimeout = 0
  MaxHerod = 0
  MaxCpu = 0
  SettleDelay = TRUE
CHECK_DEADLOCK FALSE
INVARIANTS
  OngoingListed
PROPERTIES
  QuarantineKept
  EndingRunLeaves
  HandlersReturn
  BrokenCoreTaken
