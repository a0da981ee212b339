SPECIFICATION FairSpec
CONSTANTS
  c1 = c1
  NoRun = NoRun
  Fg = Fg
  Cores = {c1}
  Runs <- MCRuns
  Bound <- MCBound
  MaxTotal = 4
  PromptIgnite = TRUE
INVARIANTS CloudTypeOK CoresOfRuns CoresWithMode
PROPERTIES ImplementsMode EnteringEnds ExitingEnds StoppingEnds
CHECK_DEADLOCK FALSE
