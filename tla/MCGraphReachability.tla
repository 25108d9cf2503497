------------------------- MODULE MCGraphReachability -------------------------
EXTENDS GraphReachability, MCDomain

CONSTANT MaxActions  \* longest segment between two sensing nodes

\* Every segment a traversal of a plan tree can hand over.
MCSegments ==
  {[init |-> i, actions |-> s, goals |-> TraversedState(i, s)] :
     <<i, s>> \in {q \in MCInits \X SeqOf(MCActionNames, MaxActions) :
                     Executable(q[1], q[2])}}

ASSUME SegmentsFeasible == \A s \in MCSegments : Feasible(s)
==============================================================================
