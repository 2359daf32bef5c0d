SPECIFICATION PSpec
CONSTANTS
  o1 = o1
  o2 = o2
  x = x
  y = y
  Objects <- MCObjects
  Variables <- MCVariables
  StaticFunctions <- MCStaticFunctions
  StaticPredicates <- MCStaticPredicates
  Compatible <- MCCompatible
  Problems <- AllProblems
  TurnLimit = 6
  Processes <- GambleProcesses
  Gamma <- HalfValue
  Epsilon <- HalfValue
  Horizon = 6
INVARIANTS
  RewardIsExpected
CHECK_DEADLOCK FALSE
