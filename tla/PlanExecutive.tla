---------------------------- MODULE PlanExecutive ----------------------------
(***************************************************************************)
(* What a caller of compute_planning_graph may rely on, graph and layers   *)
(* abstracted away: either the segment is abandoned before anything is     *)
(* done, or actions of the segment are performed one at a time, each one   *)
(* applicable when it is performed, and at the end every predicate of the  *)
(* goal state holds.                                                       *)
(***************************************************************************)
EXTENDS Domain

VARIABLES actions, goals, preds, outcome

vars == <<actions, goals, preds, outcome>>

Init == outcome = "idle"

Commit == outcome = "idle" /\ outcome' = "acting" /\ UNCHANGED <<actions, goals, preds>>

Perform(a) ==
  /\ outcome = "acting"
  /\ Enabled(a, preds)
  /\ preds' = apply_actuation_action(preds, a)
  /\ UNCHANGED <<actions, goals, outcome>>

Succeed ==
  /\ outcome = "acting"
  /\ goals \subseteq preds
  /\ outcome' = "reached"
  /\ UNCHANGED <<actions, goals, preds>>

Abandon == outcome = "idle" /\ outcome' = "abandoned" /\ UNCHANGED <<actions, goals, preds>>

Next == \/ Commit
        \/ \E a \in Range(actions) : Perform(a)
        \/ Succeed
        \/ Abandon

Spec == Init /\ [][Next]_vars
==============================================================================
