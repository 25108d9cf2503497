-------------------------- MODULE NondetStagnation --------------------------
(***************************************************************************)
(* The stagnation test of Contingent-FF (repeated_states.c) on the clauses *)
(* of BeliefTransition: a new state is cut out if a state on the path to   *)
(* it was at least as good.  When the last operator leaves a fact to       *)
(* chance, the test is whether, however chance decided before the earlier  *)
(* state, it may since have decided so that the two states are equal.      *)
(***************************************************************************)
EXTENDS BeliefTransition, TLC

CONSTANT Stagnating    \* gcmd_line.stagnating: 1 direct predecessor, 2 all

VARIABLE cut           \* does the last state of the path stagnate

OpAt(i) == problem.ops[path[i].op]                 \* the way into node i
ByChance(i) == Chancy(OpAt(i)) # {}
ChanceNodes(n) == {i \in 2..n : ByChance(i)}

\* The ancestors the new state is compared with: back to an observation.
Compared ==
  LET n == Len(path)
      seen == {k \in 1..n - 1 : \A i \in k..n - 1 : i > 1 => ~ IsObservation(OpAt(i))}
  IN  IF Stagnating = 1 THEN {n - 1} \ {i \in {n - 1} : IsObservation(OpAt(n))} ELSE seen

(* The clauses with their models.  A clause may bring new variables; one   *)
(* without literals is in no member list, and the solver never meets it.   *)
Base(clauses) == [coded |-> Variables(clauses), models |-> Models(clauses)]
Narrowed(base, clause) ==
  LET new == Variables({clause}) \ base.coded
  IN  [coded  |-> base.coded \union new,
       models |-> {a \in {x @@ y : x \in base.models, y \in [new -> BOOLEAN]} :
                     clause # {} => \E l \in clause : Holds(a, l)}]

Var(f, i) == LET l == Lit(f, i - 1, TRUE) IN [f |-> l.f, t |-> l.t]
HasCode(base, f, i) == Var(f, i) \in base.coded
CanBe(base, f, i, value) == Sat(base.models, {Lit(f, i - 1, value)})
\* The planner ends when an unknown fact it must test has no variable.
Untested(S, base, i) == \E f \in S.U : ~ HasCode(base, f, i)

(* The unknown facts that can only be true become known, those that can    *)
(* only be false are dropped.                                              *)
Settled(S, base, i) ==
  [F |-> S.F \union {f \in S.U : ~ CanBe(base, f, i, FALSE)},
   U |-> {f \in S.U : CanBe(base, f, i, FALSE) /\ CanBe(base, f, i, TRUE)}]

(* Fact f is old in node k and not old in node i.                          *)
Differs(base, f, k, i, old) == Sat(base.models, {Lit(f, k - 1, old), Lit(f, i - 1, ~ old)})

Verdict(x) == IF x THEN "yes" ELSE "no"
------------------------------------------------------------------------------
(* single_stagnates: dominated, or equal, fact by fact.  A fact without    *)
(* variable in the initial state is free and settles nothing; elsewhere it *)
(* ends the planner, here even if a test before it would have said no.     *)
SingleStagnates(nodes, i, k, base) ==
  LET dest == nodes[i]
      source == nodes[k]
      fits == IF problem.equality THEN dest.F = source.F /\ dest.U = source.U
              ELSE dest.F \subseteq source.F /\ dest.U \subseteq source.F \union source.U
      open == dest.U \ (IF problem.equality THEN {} ELSE source.F)
      ends(f) == IF HasCode(base, f, k) THEN ~ HasCode(base, f, i) ELSE k > 1
  IN  IF fits /\ \E f \in open : ends(f) THEN "exit"
      ELSE Verdict(
             /\ fits
             /\ \A f \in open : HasCode(base, f, k) /\ ~ Differs(base, f, k, i, FALSE)
             /\ problem.equality => \A f \in open : ~ Differs(base, f, k, i, TRUE))

(* gop_conn[op].nondeteff: the fact that is left to chance and whether it  *)
(* is added, with its twin deleted, or, a fact without twin, deleted.      *)
ChanceAdds(i) == \E e \in OpAt(i).effs : e.A \intersect e.N # {}
ChanceFact(i) == CHOOSE f \in Chancy(OpAt(i)) : ChanceAdds(i) => \E e \in OpAt(i).effs : f \in e.A
WithTwin(f) == {f, Twin(f)} \ {NoTwin}

(* The state if the effect did not work, and what is said of it then: the *)
(* fact is as before.                                                      *)
Missed(S, pred, f) ==
  [F |-> (S.F \ WithTwin(f)) \union (pred.F \intersect {f})
           \union (IF f \in pred.F \union pred.U THEN {} ELSE {Twin(f)} \ {NoTwin}),
   U |-> (S.U \ WithTwin(f)) \union (IF f \in pred.U THEN WithTwin(f) ELSE {})]

(* A fact that was not added is false now if it was false before, one that *)
(* was not deleted is true now if it was true before; there is no clause   *)
(* where the states leave no doubt.                                        *)
MissedBase(S, pred, f, added, i, base) ==
  LET free == IF added THEN f \in pred.F \/ f \notin S.F \union S.U
              ELSE f \notin pred.F \union pred.U \/ f \in S.F
  IN  IF free THEN base
      ELSE Narrowed(base, {l \in {Lit(f, i - 2, added)} : f \in pred.U}
                            \union {l \in {Lit(f, i - 1, ~ added)} : f \in S.U})

(* If it worked, the fact is as the effect says.                           *)
Worked(S, f, added) ==
  [F |-> (S.F \ WithTwin(f)) \union (IF added THEN {f} ELSE {Twin(f)} \ {NoTwin}),
   U |-> S.U \ WithTwin(f)]
WorkedBase(f, added, i, base) == Narrowed(base, {Lit(f, i - 1, added)})

(* nondet_single_stagnates, one outcome: the two states are equal.  Every  *)
(* unknown fact of either has a variable here, see Untested.               *)
SameState(nodes, i, k, S, base) ==
  LET dest == Settled(S, base, i)
      source == nodes[k]
  IN  IF Untested(S, base, i) THEN "exit"
      ELSE Verdict(
             /\ dest.F = source.F /\ dest.U = source.U
             /\ \A f \in dest.U, old \in BOOLEAN : ~ Differs(base, f, k, i, old))

NondetSingleStagnates(appears, nodes, i, k, base) ==
  LET f == ChanceFact(i)
      added == ChanceAdds(i)
  IN  IF appears THEN SameState(nodes, i, k, Worked(nodes[i], f, added), WorkedBase(f, added, i, base))
      ELSE SameState(nodes, i, k, Missed(nodes[i], nodes[i - 1], f),
                     MissedBase(nodes[i], nodes[i - 1], f, added, i, base))

\* Mutant: one outcome before the earlier state is enough.
AllOutcomesEither(forall, missed, worked) == IF missed = "no" THEN worked ELSE missed

(* The second outcome is tried if the first does not decide.               *)
AllOutcomes(forall, missed, worked) ==
  IF missed = Verdict(forall) THEN worked ELSE missed

(* rec_do_nondet_stagnation_check: settles the chance effects on the path  *)
(* to the last operator one after the other, from the first.               *)
RECURSIVE RecStagnation(_, _, _, _)
RecStagnation(set, nodes, k, base) ==
  LET n == Len(path)
      open == ChanceNodes(n - 1) \ set
      forall == Cardinality(set) < Cardinality(ChanceNodes(k))
  IN  IF open = {}
      THEN IF Untested(nodes[k], base, k) THEN "exit"
           ELSE LET settled == [nodes EXCEPT ![k] = Settled(nodes[k], base, k)]
                IN  AllOutcomes(FALSE, NondetSingleStagnates(FALSE, settled, n, k, base),
                                       NondetSingleStagnates(TRUE, settled, n, k, base))
      ELSE LET i == CHOOSE x \in open : \A y \in open : x <= y
               f == ChanceFact(i)
               added == ChanceAdds(i)
               next(S, b) ==
                 IF Untested(S, b, i) THEN "exit"
                 ELSE RecStagnation(set \union {i}, [nodes EXCEPT ![i] = Settled(S, b, i)], k, b)
           IN  AllOutcomes(forall,
                 next(Missed(nodes[i], nodes[i - 1], f),
                      MissedBase(nodes[i], nodes[i - 1], f, added, i, base)),
                 next(Worked(nodes[i], f, added), WorkedBase(f, added, i, base)))

(* stagnates: the ancestors one after the other, the nearest first.        *)
Stagnates ==
  LET n == Len(path)
      base == Base(PathClauses)
      against[k \in 0..n - 1] ==
        IF k \notin Compared THEN "no"
        ELSE AllOutcomes(FALSE, IF ByChance(n) THEN RecStagnation({}, path, k, base)
                                ELSE SingleStagnates(path, n, k, base),
                                against[k - 1])
  IN  IF IsObservation(OpAt(n)) THEN "no" ELSE against[n - 1]
------------------------------------------------------------------------------
StagnationInit == Init /\ cut = "no"

(* A new state is tested at the end of result_to_dest; one that is cut is  *)
(* not extended.                                                           *)
NewState ==
  /\ cut = "no"
  /\ Next
  /\ cut' = IF Len(path') > Len(path) THEN "untested" ELSE "no"
TestState == cut = "untested" /\ cut' = Stagnates /\ UNCHANGED vars

StagnationNext == NewState \/ TestState

StagnationSpec == StagnationInit /\ [][StagnationNext]_<<vars, cut>>
------------------------------------------------------------------------------
(* The histories of the path for given decisions of chance, TRUE for an    *)
(* effect that worked.                                                     *)
HistoriesUnder(sigma) ==
  LET grow[i \in 1..Len(path)] ==
        IF i = 1 THEN {<<w>> : w \in WorldsOf(problem)}
        ELSE LET op == OpAt(i) IN
             IF IsObservation(op)
             THEN {Append(h, Now(h)) : h \in {x \in grow[i - 1] :
                     \A f \in op.obs : (f \in Now(x)) = (f \in path[i].F)}}
             ELSE LET missed == IF i \in DOMAIN sigma /\ ~ sigma[i] THEN Chancy(op) ELSE {}
                  IN  {Append(h, (Now(h) \ (Dels(Now(h), op) \ missed))
                                   \union (Adds(Now(h), op) \ missed)) : h \in grow[i - 1]}
  IN  grow[Len(path)]

Extending(sigma) ==
  {tau \in [ChanceNodes(Len(path)) -> BOOLEAN] : \A i \in DOMAIN sigma : tau[i] = sigma[i]}

(* The new state is no better than node k, whatever chance decides before  *)
(* node k and for some of its decisions since.                             *)
NoBetterThan(k) ==
  IF ByChance(Len(path))
  THEN \A sigma \in [ChanceNodes(k) -> BOOLEAN] : \E tau \in Extending(sigma) :
         \A h \in HistoriesUnder(tau) : Now(h) = h[k]
  ELSE \A h \in hist : IF problem.equality THEN Now(h) = h[k] ELSE Now(h) \subseteq h[k]

(* A state is cut only if an earlier state of the path is as good in every *)
(* world: what can be reached from the one can be reached from the other.  *)
(* Where nothing was observed, and the clauses say all there is to know,   *)
(* it is cut whenever there is such a state; an observation may rule out   *)
(* decisions of chance that the test still insists on.  The test ends the  *)
(* planner only over an unknown fact of the initial state that no clause   *)
(* mentions.                                                               *)
CutIsSafe ==
  LET n == Len(path)
      unobserved == \A i \in 2..n : ~ IsObservation(OpAt(i))
  IN  /\ cut = "yes" => \E k \in Compared : NoBetterThan(k)
      /\ cut = "no" /\ attempt = Dest.op /\ unobserved /\ problem.exact =>
           \A k \in Compared : ~ NoBetterThan(k)
      /\ cut = "exit" => 1 \in Compared /\ \E f \in path[1].U : ~ Coded(PathClauses, Lit(f, 0, TRUE))
==============================================================================
