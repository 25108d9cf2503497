--------------------------- MODULE MCPlanExecution ---------------------------
EXTENDS PlanExecution, MCDomain

CONSTANT MaxActions

MCSegments ==
  {[init |-> i, actions |-> s, goals |-> TraversedState(i, s)] :
     <<i, s>> \in {q \in MCInits \X SeqOf(MCActionNames, MaxActions) :
                     Executable(q[1], q[2])}}
==============================================================================
