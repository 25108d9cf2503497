CONSTANTS
  MaxActions = 2
  Atoms <- MCAtoms
  ActionNames <- MCActionNames
  Pre <- MCPre
  Eff <- MCEff
  Segments <- MCSegments
SPECIFICATION Spec
INVARIANTS
  SequentialBoundSuffices
CHECK_DEADLOCK FALSE
