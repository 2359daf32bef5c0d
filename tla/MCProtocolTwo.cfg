CONSTANTS
  Problems <- MCProblems
  KnownProblems <- MCKnown
  config_map <- MCConfig
  DefaultCfg <- MCDefault
  States <- MCStates
  InitStates <- MCInit
  Goal <- MCGoal
  Actions <- MCActions
  Enabled <- MCEnabled
  Succ <- MCSucc
  Metric <- MCMetric
  BadAction <- MCBad
  Garbage = {0}
  log_paths = FALSE
  MaxPending = 2
  MaxClock = 2
  Todos <- MCTwo
  NoState = "none"
SPECIFICATION FairSpec
PROPERTIES ClientExits
CHECK_DEADLOCK FALSE
