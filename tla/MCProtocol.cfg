CONSTANTS
  Problems <- MCProblems
  KnownProblems <- MCKnown
  config_map <- MCConfig
  DefaultCfg <- MCDefault
  States <- MCStates
  InitStates <- MCInit
  Goal <- MCGoal
  Actions <- MCActions
  Enabled <- MCEnabled
  Succ <- MCSucc
  Metric <- MCMetric
  BadAction <- MCBad
  Garbage = {0}
  log_paths = FALSE
  MaxPending = 1
  MaxClock = 2
  Todos <- MCOne
  NoState = "none"
SPECIFICATION FairSpec
INVARIANTS DecidesOnCurrentState ExitsInformed
PROPERTIES CutOffOnlyAfterHangUp ServerReleases ClientExits
CHECK_DEADLOCK FALSE
