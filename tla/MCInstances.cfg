SPECIFICATION InstancesSpec
CONSTANTS
  a = a
  b = b
  c = c
  Objects <- MCObjects
  Variables <- MCVariables
  StaticPredicates <- MCStaticPredicates
  StaticFunctions <- MCStaticFunctions
  Compatible <- MCCompatible
  Problems <- MCProblems
  TurnLimit <- MCTurnLimit
INVARIANTS
  HeapIsSound
  InstancesDenote
  AllAndOnly
  InStep
PROPERTY
  Returns
