-------------------------------- MODULE Domain -------------------------------
(***************************************************************************)
(* Grounded facts and actuation actions, and how a ProblemExpert's         *)
(* predicates change when one is applied.                                  *)
(*                                                                         *)
(* A fact is an atom with a sign: "(p)" or "(not (p))" in the code.  The   *)
(* predicates of a ProblemExpert are positive facts; a negative fact holds *)
(* there when its atom is absent (closed world).                           *)
(***************************************************************************)
EXTENDS Naturals, Sequences, SequencesExt

CONSTANTS Atoms,        \* grounded predicates
          ActionNames,  \* grounded actuation actions
          Pre,          \* precond_facts_ of each action
          Eff           \* effect_facts_ of each action

Literal  == Atoms \X {"+", "-"}
Positive == Atoms \X {"+"}

ASSUME DomainAssumption ==
  /\ Pre \in [ActionNames -> SUBSET Literal]
  /\ Eff \in [ActionNames -> SUBSET Literal]

negated_facts(f, g) == f[1] = g[1] /\ f[2] # g[2]

\* No action both adds and deletes an atom.
Consistent(facts) == \A f, g \in facts : ~negated_facts(f, g)

ASSUME EffectsAssumption == \A a \in ActionNames : Consistent(Eff[a])

(* evaluate of a (possibly negated) predicate node. *)
Holds(f, preds) == IF f[2] = "+" THEN f \in preds
                                 ELSE <<f[1], "+">> \notin preds

Enabled(a, preds) == \A f \in Pre[a] : Holds(f, preds)

apply_actuation_action(preds, a) ==
  {f \in preds : <<f[1], "-">> \notin Eff[a]} \union (Eff[a] \intersect Positive)

(* goal_state of traverse_contingent_planning_tree along mid actions acts. *)
TraversedState(init, acts) ==
  LET after[i \in 0..Len(acts)] ==
        IF i = 0 THEN init ELSE apply_actuation_action(after[i - 1], acts[i])
  IN  after[Len(acts)]

(* The mid actions can be executed one after the other from init. *)
Executable(init, acts) ==
  \A i \in 1..Len(acts) :
    Enabled(acts[i], TraversedState(init, SubSeq(acts, 1, i - 1)))

(* Actions that can run in one time step in any order: none negates a      *)
(* precondition or an effect of another.                                   *)
Compatible(acts) ==
  \A a, b \in acts : a # b =>
    \A f \in Eff[a], g \in Pre[b] \union Eff[b] : ~negated_facts(f, g)
==============================================================================
