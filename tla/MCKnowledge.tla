----------------------------- MODULE MCKnowledge -----------------------------
EXTENDS Knowledge

CONSTANTS a, b, c, d, e

\* Problems in the manner of the blocks and BoxPushing tests: every unknown
\* fact is listed by a oneof, and oneofs may overlap.
Overlapping ==
  {os \in SUBSET {{a, b}, {a, b, c}, {b, c}, {c, d}, {a, d}, {b, c, d}} :
     Cardinality(os) \in 1..3}

MCProblems == {[predicates |-> {e}, unknowns |-> UNION os, oneofs |-> os] : os \in Overlapping}

MCActuations == {[add |-> {a}, del |-> {e}], [add |-> {e}, del |-> {b}], [add |-> {}, del |-> {a, c}]}
==============================================================================
