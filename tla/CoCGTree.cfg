CONSTANTS
  Atoms <- MCAtoms
  ActionNames <- MCActionNames
  Pre <- MCPre
  Eff <- MCEff
  Plans <- MCPlans
SPECIFICATION Spec
INVARIANTS
  EnteredInStep
  DispatchApplicable
  EndsLikeContingentPlan
  NeverSlower
PROPERTY BranchEnds
CHECK_DEADLOCK FALSE
