SPECIFICATION FairSpec
CONSTANTS
  f1 = f1
  f2 = f2
  NoRun = NoRun
  NoFU = NoFU
  Herod = Herod
  FUs = {f1, f2}
  Faulty = {f1}
  Runs <- MCRuns
  Lists <- MCLists
  Attempts = 2
  Weight <- MCWeight
  MaxTotal = 4
INVARIANTS BUTypeOK CompletionTrue ListsRespected
PROPERTIES StartedOnce RunLeavesList PendingContacted HerodEnds
CHECK_DEADLOCK FALSE
