SPECIFICATION PSpec
CONSTANTS
  o1 = o1
  o2 = o2
  x = x
  y = y
  Objects <- MCObjects
  Variables <- MCVariables
  StaticFunctions <- MCStaticFunctions
  StaticPredicates <- MCStaticPredicates
  Compatible <- MCCompatible
  Problems <- MCProblems
  TurnLimit = 4
  Processes <- MCProcesses
  Gamma <- HalfValue
  Epsilon <- HalfValue
  Horizon = 6
INVARIANTS
  ActionsAreLegal
  Accounts
  ClientMissesNothing
  MatrixIsFaithful
  RewardIsExpected
  StopsInTime
  PlanIsNearOptimal
  PlanIsLegal
CHECK_DEADLOCK FALSE
