SPECIFICATION Spec
CONSTANTS
  o1 = o1
  o2 = o2
  x = x
  y = y
  z = z
  Objects <- MCObjects
  Variables <- MCVariables
  StaticFunctions <- MCStaticFunctions
  StaticPredicates <- MCStaticPredicates
  Compatible <- MCCompatible
  MaxSteps = 2
  MaxNumerator = 60
  MaxDenominator = 12
  Texts <- NumberTexts
  Pairs <- NumberPairs
  Kinds <- AllKinds
INVARIANTS
  Arithmetic
  FormulasAreFaithful
  EffectsAreFaithful
CHECK_DEADLOCK FALSE
