------------------------------- MODULE PlanTree ------------------------------
(***************************************************************************)
(* The contingent plan tree of cont_plan_node.h: a node is an item and two *)
(* pointers, here identifiers with 0 for nullptr.  "If true_node and       *)
(* false_node are equal, then the node is a actuation action. Otherwise,   *)
(* it is a sensing action."                                                *)
(***************************************************************************)
EXTENDS Naturals, Sequences

nullptr == 0

ContPlanNode(item, t, f) == [item |-> item, true_node |-> t, false_node |-> f]

IsSensing(nodes, n) == nodes[n].true_node # nodes[n].false_node

(* Where traverse_contingent_planning_tree ends its walk.                  *)
Stops(nodes, n) == n = nullptr \/ IsSensing(nodes, n)

(* The actuation nodes met from node n down to the next sensing node or    *)
(* nullptr, one pushed after the other, and the node where the walk stops. *)
MidNodes(nodes, n) ==
  LET mid[at \in (DOMAIN nodes \union {nullptr}) \X Seq(DOMAIN nodes)] ==
        IF Stops(nodes, at[1]) THEN at[2]
        ELSE mid[<<nodes[at[1]].true_node, Append(at[2], at[1])>>]
  IN  mid[<<n, <<>>>>]

StopNode(nodes, n) ==
  LET stop[m \in DOMAIN nodes \union {nullptr}] ==
        IF Stops(nodes, m) THEN m ELSE stop[nodes[m].true_node]
  IN  stop[n]
==============================================================================
