SPECIFICATION AnySpec
CONSTANTS
  PredicateTypes <- MCPredicateTypes
  FunctionTypes <- MCFunctionTypes
  IdRange = 256
  ValidTypes = {"robot", "room"}
  DomainConstants <- MCConstants
  Candidates <- MCCandidates
  Facts <- MCFacts
  Values <- MCValues
  Levels = {1}
  Conditions <- MCConditions
  Goals <- MCGoals
  Problems <- MCProblems
  MaxConditions = 2
  Terms <- MCTerms
  States <- MCStates
  MaxCalls = 2
  SmallIdRange = 8
CONSTRAINT SmallNumbers
CHECK_DEADLOCK FALSE
INVARIANTS
  ExitsOnlyOnStale
  ReloadsSame
  CheckIsTruth
  FailsInPart
  AssignsInOrder
PROPERTY UnknownTakenBack
