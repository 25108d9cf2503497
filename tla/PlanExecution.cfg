CONSTANTS
  MaxActions = 3
  Atoms <- MCAtoms
  ActionNames <- MCActionNames
  Pre <- MCPre
  Eff <- MCEff
  Segments <- MCSegments
SPECIFICATION FairSpec
INVARIANTS
  ExtractionConsistent
  ContractKept
  NoLongerThanSequential
PROPERTIES
  RefinesExecutive
  Answered
CHECK_DEADLOCK FALSE
