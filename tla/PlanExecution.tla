---------------------------- MODULE PlanExecution ----------------------------
(***************************************************************************)
(* compute_planning_graph followed by an execution of the layers it        *)
(* returns: one layer after the other, the actions of a layer in any       *)
(* order, none checking its preconditions.  CoCG prints the layers as time *)
(* steps (print_cocg_graph, "Total exec time for each branch"); whoever    *)
(* executes them is outside the repository.                                *)
(***************************************************************************)
EXTENDS PlanSegment, LayeredPlan

VARIABLES preds,    \* predicates true in the world
          slot,     \* layer being executed, 0 before the first
          pending   \* actions of that layer not performed yet

execVars == <<preds, slot, pending>>
vars == <<segVars, execVars>>

Init == /\ SegmentInit
        /\ preds = state_layers[0]
        /\ slot = 0 /\ pending = {}

Plan == compute_planning_graph /\ UNCHANGED execVars

Finished == phase = "solved" /\ slot > Len(ret_action_layers)

NextLayer ==
  /\ phase = "solved" /\ ~Finished /\ pending = {}
  /\ slot' = slot + 1
  /\ pending' = IF slot < Len(ret_action_layers) THEN ret_action_layers[slot + 1] ELSE {}
  /\ UNCHANGED <<segVars, preds>>

PerformAction ==
  /\ \E a \in pending :
       /\ preds' = apply_actuation_action(preds, a)
       /\ pending' = pending \ {a}
  /\ UNCHANGED <<segVars, slot>>

Next == Plan \/ NextLayer \/ PerformAction

Spec == Init /\ [][Next]_vars

\* compute_planning_graph is one sequential call that nothing interrupts.
FairSpec == Spec /\ WF_vars(Plan)
------------------------------------------------------------------------------
Outcome == IF Finished THEN "reached"
           ELSE IF phase = "solved" THEN "acting"
           ELSE IF phase = "unsolved" THEN "abandoned"
           ELSE "idle"

Executive == INSTANCE PlanExecutive WITH outcome <- Outcome

(* The layers refine the executive: performed in any order within a layer, *)
(* every action is applicable when it starts and the goal state is reached.*)
RefinesExecutive == Executive!Spec

(* The result keeps the contract its caller build_cocg_subgraph lives on.  *)
ContractKept ==
  phase = "solved" => ValidLayers(state_layers[0], goals, ret_action_layers)

(* The layered plan never takes longer than the sequential one ("graph     *)
(* layers leq actions size").                                              *)
NoLongerThanSequential ==
  phase = "solved" => Len(ret_action_layers) <= Len(actions)

(* Comment in compute_planning_graph: "graph layers leq actions size       *)
(* (worst: sequential execution)".                                         *)
SequentialBoundSuffices == phase # "unsolved"

(* compute_planning_graph returns.                                         *)
Answered == <>(phase \in {"solved", "unsolved"})
------------------------------------------------------------------------------
(* The inductive invariant behind RefinesExecutive.  While layer slot is   *)
(* performed, each of its nodes keeps what it stands for: a pending action *)
(* its preconditions, an action performed and a noop its effects.          *)
Upheld(n) == IF ~IsNoop(n) /\ n[2] \in pending THEN precond_facts(n) ELSE effect_facts(n)

ExecutionInv ==
  /\ preds \subseteq Positive
  /\ phase # "solved" => slot = 0
  /\ slot \in 0..layers
  /\ slot = 0 => preds = state_layers[0]
  /\ slot \in {0, layers} => pending = {}
  /\ slot \in 1..layers - 1 =>
       /\ pending \subseteq ret_action_layers[slot]
       /\ \A n \in extraction_layers[slot] : \A f \in Upheld(n) : Holds(f, preds)
==============================================================================
