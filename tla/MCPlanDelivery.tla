--------------------------- MODULE MCPlanDelivery ----------------------------
(***************************************************************************)
(* All plans of up to three levels with two actions and a sensing action;  *)
(* one branch of a sensing action at least goes on, or it would have been  *)
(* of no use.                                                              *)
(***************************************************************************)
EXTENDS PlanDelivery

Act(op, s) == [op |-> op, obs |-> FALSE, sons |-> <<s>>]
Sense(y, n) == [op |-> "sense", obs |-> TRUE, sons |-> <<y, n>>]

\* A plan that ends, and the plans of one more level.
End == [op |-> "end", obs |-> FALSE, sons |-> << >>]
Higher(S) ==
  {Act(op, s) : op \in {"a", "b"}, s \in S}
    \union {Sense(s[1], s[2]) : s \in (S \X S) \ {<<End, End>>}}

Level1 == {End} \union Higher({End})
Level2 == {End} \union Higher(Level1)
MCPlans == {End} \union Higher(Level2)
==============================================================================
