CONSTANT Problems <- MCProblems
CONSTANT Ending <- MCEnding
CONSTANT Commands <- MCCommands
CONSTANT H <- MCH
CONSTANT MaxPlanLength = 5
CONSTANT FactTasks <- MCFactTasks
CONSTANT MaxCalls = 2
CONSTANT MaxLevel = 5
CONSTANT WorldTasks <- MCWorldTasks
CONSTANT BeliefsOf <- MCBeliefsOf
CONSTANT Negation <- MCNegation
CONSTANT IsCNF <- MCIsCNF
CONSTANT RELAXED_STEPS = 9
SPECIFICATION AnySpec
CHECK_DEADLOCK FALSE
INVARIANTS
  SearchSound
  SearchOptimal
  RelaxedPlanRight
  BeliefHeuristicRight
PROPERTY EverySearchEnds
