SPECIFICATION Spec
CONSTANTS
  o1 = o1
  o2 = o2
  x = x
  y = y
  Objects <- MCObjects
  Variables <- MCVariables
  StaticFunctions <- MCStaticFunctions
  StaticPredicates <- MCStaticPredicates
  Compatible <- MCCompatible
  Problems <- ConstantProblems
  TurnLimit = 6
INVARIANTS
  ClientPlaysLegally
CHECK_DEADLOCK FALSE
