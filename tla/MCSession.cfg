CONSTANTS
  Problems <- MCProblems
  KnownProblems <- MCKnown
  config_map <- MCConfig
  DefaultCfg <- MCDefault
  States <- MCStates
  InitStates <- MCInit
  Goal <- MCGoal
  Actions <- MCActions
  Enabled <- MCEnabled
  Succ <- MCSucc
  Metric <- MCMetric
  BadAction <- MCBad
  Garbage = {0}
  log_paths = TRUE
  MaxPending = 1
  MaxClock = 3
SPECIFICATION Spec
VIEW MCView
INVARIANTS TypeOK TimeBudget Limits PathsReplay Ledger
PROPERTIES ImplementsContest
CHECK_DEADLOCK FALSE
