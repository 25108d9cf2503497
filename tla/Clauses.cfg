CONSTANT NumCodes = 3
CONSTANT Databases <- MCDatabases
CONSTANT Queries <- MCQueries
CONSTANT Capacity = 3
CONSTANT MaxCalls = 2
CONSTANT TimedFacts = {"a0", "b0", "a1"}
CONSTANT Pool <- MCPool
CONSTANT MaxCodes = 4
CONSTANT MaxBatch = 2
CONSTANT MaxNesting = 2
CONSTANT MaxTests = 4
CONSTANT Problems <- MCProblems
CONSTANT Twin <- MCTwin
CONSTANT IsCNF <- MCIsCNF
CONSTANT NoTwin = "none"
CONSTANT MaxPlanLength = 4
CONSTANT Stagnating = 2
CONSTANT ShortProblems <- MCShortProblems
CONSTANT ShortLength = 3
SPECIFICATION AnySpec
CHECK_DEADLOCK FALSE
INVARIANTS
  AnswerExact
  NeverExits
  PropagationEntailed
  ListsMatchClauses
  BeliefExact
  CutIsSafe
