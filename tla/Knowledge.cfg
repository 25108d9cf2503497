CONSTANTS
  a = a
  b = b
  c = c
  d = d
  e = e
  Facts = {a, b, c, d, e}
  Problems <- MCProblems
  Actuations <- MCActuations
SPECIFICATION Spec
INVARIANTS
  BeliefExact
  PropagatesTruth
PROPERTIES
  PropagationConfluent
  SensingEnds
CHECK_DEADLOCK FALSE
