SPECIFICATION DeclarationsSpec
CONSTANTS
  Tables <- AllTables
  MaxTypes = 4
  MaxUnions = 2
  VariableNames = {"x", "y"}
  MaxVariables = 4
  MaxScopes = 3
  MaxUses = 2
  GoalNames = {}
  PredicateNames = {"p"}
  FunctionNames = {"f"}
  ObjectNames = {"a"}
  VariableTypes <- SomeVariables
  Types <- SomeTypes
  MaxParameters = 2
  MaxTerms = 2
  MaxBuilt = 2
  DomainNames = {"d", "e"}
  ProblemNames = {"q"}
  Ordinary = {"fuel"}
  Repeats = TRUE
  MaxDomains = 2
  MaxProblems = 2
  MaxFunctions = 7
CONSTRAINT Few
INVARIANTS
  TableIsSound
  ClosureOfDeclared
  RefusalJustified
  ScopesAreLexical
  WellFormed
  ProblemsStand
CHECK_DEADLOCK FALSE
