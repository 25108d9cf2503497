CONSTANTS
  MaxActions = 3
  Atoms <- MCAtoms
  ActionNames <- MCActionNames
  Pre <- MCPre
  Eff <- MCEff
  Segments <- MCSegments
SPECIFICATION Spec
INVARIANTS
  TypeOK
  MutexSound
  GraphSettled
\* Both the graph and the world stop when the layer bound is reached.
CHECK_DEADLOCK FALSE
