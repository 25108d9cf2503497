CONSTANTS
  a = a
  b = b
  c = c
  d = d
  e = e
  Facts = {a, b, c, d, e}
  Problems <- MCProblems
  Actuations <- MCActuations
SPECIFICATION AnySpec
INVARIANT PredicatesTrue
CHECK_DEADLOCK FALSE
