-------------------------- MODULE BeliefTransition --------------------------
(***************************************************************************)
(* result_to_dest of Contingent-FF: from a belief state, given by its path *)
(* and the facts known and unknown in it, to the next.  What neither is    *)
(* known false.  Which facts are known is inferred from clauses about all  *)
(* steps of the path, which say when effects with unknown conditions fire, *)
(* when facts persist and what was observed.  The satisfiability test is   *)
(* the one of DavisPutnam, here by its meaning.                            *)
(***************************************************************************)
EXTENDS BeliefSpace

CONSTANTS Problems,       \* [ops, facts, F, U, clauses, exact]
          Twin(_),        \* the negation of a fact, or NoTwin
          IsCNF(_),       \* one fact of each pair of twins has variables
          NoTwin,
          MaxPlanLength   \* MAX_PLAN_LENGTH

VARIABLES problem,
          path,       \* nodes: the edge's op, its unknown_E, and S.F, S.U
          hist,       \* the histories of worlds the path stands for
          attempt,    \* the operator applied last
          pc

vars == <<problem, path, hist, attempt, pc>>

Dest == path[Len(path)]
Facts == problem.facts

(* A literal about fact f at time t; of twins, only one occurs in clauses. *)
Lit(f, t, pos) ==
  IF IsCNF(f) THEN [f |-> f, t |-> t, pos |-> pos] ELSE [f |-> Twin(f), t |-> t, pos |-> ~ pos]
Complement(l) == [l EXCEPT !.pos = ~ @]

Variables(clauses) == {[f |-> l.f, t |-> l.t] : l \in UNION clauses}
Holds(a, l) == (a[[f |-> l.f, t |-> l.t]] = l.pos)
Models(clauses) ==
  {a \in [Variables(clauses) -> BOOLEAN] : \A c \in clauses : \E l \in c : Holds(a, l)}

Coded(clauses, l) == \E x \in UNION clauses : x.f = l.f /\ x.t = l.t
\* dp_CNF, given the models of the clauses: the literals hold together.
Sat(models, lits) == \E a \in models : \A l \in lits : Holds(a, l)
------------------------------------------------------------------------------
(* The effects that fire for sure, those that may fire, and what they do.  *)
FiringE(op, F) == {e \in op.effs : e.C \subseteq F}
UnknownE(op, F, U) == {e \in op.effs : e.C \subseteq F \union U /\ ~ e.C \subseteq F}

Added(E) == UNION {e.A \ e.N : e \in E}
MaybeAdded(E) == UNION {e.A \intersect e.N : e \in E}
Deleted(E) == UNION {e.D \ e.N : e \in E}
MaybeDeleted(E) == UNION {e.D \intersect e.N : e \in E}
AllAdded(E) == UNION {e.A : e \in E}
AllDeleted(E) == UNION {e.D : e \in E}

\* An effect with unknown conditions fires, then this.
EffectClause(e, src, time, consequence) ==
  {Lit(c, time, FALSE) : c \in e.C \ src.F} \union {consequence}

EffectClauses(E, src, Fpp, Npp, time) ==
  UNION {{EffectClause(e, src, time, Lit(f, time + 1, TRUE)) :
            f \in {x \in e.A \ (e.N \union Fpp) : IsCNF(x)}}
         \union
         {EffectClause(e, src, time, Lit(f, time + 1, FALSE)) :
            f \in {x \in e.D \ (e.N \union Npp) : IsCNF(x)}} : e \in E}

\* One condition of each effect; none for an effect without conditions.
HittingSets(E) == {{h[e] : e \in E} : h \in {g \in [E -> UNION {e.C : e \in E}] : \A e \in E : g[e] \in e.C}}

Tautology(c) == \E l \in c : Complement(l) \in c

\* The fact was so, no effect that changes it fired, and it is still so.
NoopClauses(f, before, after, E, time) ==
  {c \in {before \union {Lit(x, time, TRUE) : x \in hs} \union {after} : hs \in HittingSets(E)}
     : ~ Tautology(c)}

PosNoops(op, E, src, Fpp, Npp, time) ==
  UNION {NoopClauses(f, {l \in {Lit(f, time, FALSE)} : f \notin src.F}, Lit(f, time + 1, TRUE),
                     {e \in E : f \in e.D}, time) :
    f \in {x \in src.F \union src.U : IsCNF(x) /\ x \notin Fpp \union Npp
             /\ x \notin MaybeDeleted(FiringE(op, src.F))}}

NegNoops(op, E, src, Fpp, Npp, time) ==
  UNION {NoopClauses(f, {l \in {Lit(f, time, TRUE)} : f \in src.U}, Lit(f, time + 1, FALSE),
                     {e \in E : f \in e.A}, time) :
    f \in {x \in Facts \ src.F : IsCNF(x) /\ x \notin Fpp \union Npp
             /\ x \notin MaybeAdded(FiringE(op, src.F))}}

Observations(op, Fpp, time) == {{Lit(f, time, f \in Fpp)} : f \in op.obs}

(* What is said of one step, from src by op to a state of which Fpp is     *)
(* known true and Npp known false already.                                 *)
StepClauses(op, E, src, Fpp, Npp, time) ==
  EffectClauses(E, src, Fpp, Npp, time)
    \union PosNoops(op, E, src, Fpp, Npp, time)
    \union NegNoops(op, E, src, Fpp, Npp, time)
    \union Observations(op, Fpp, time)

(* The clauses of the initial state and of the path to the last node; the  *)
(* time of node i is i - 1.                                                *)
PathClauses ==
  {{Lit(l.f, 0, l.pos) : l \in c} : c \in problem.clauses}
    \union UNION {LET dest == path[i + 1]
                  IN  StepClauses(problem.ops[dest.op], dest.E, path[i], dest.F,
                                  Facts \ (dest.F \union dest.U), i - 1) : i \in 1..Len(path) - 1}
------------------------------------------------------------------------------
(* can_contradict_in: two effects that may fire, one adding f and one      *)
(* deleting it, have conditions that hold together in the source.  A       *)
(* condition without variable, possible at time 0 only, is left out.       *)
can_contradict_in(f, E, clauses) ==
  \E e1, e2 \in E :
    /\ f \in e1.A /\ f \in e2.D
    /\ LET lits == {Lit(c, Len(path) - 1, TRUE) : c \in (e1.C \union e2.C) \ Dest.F}
       IN  Sat(Models(clauses), {l \in lits : Coded(clauses, l)})

\* The planner ends when a condition has no variable at a later time.
MissesCode(E, clauses) ==
  Len(path) > 1 /\ \E e1, e2 \in E :
    /\ e1.A \intersect e2.D # {}
    /\ \E c \in (e1.C \union e2.C) \ Dest.F : ~ Coded(clauses, Lit(c, Len(path) - 1, TRUE))

MayContradict(op, E, clauses) ==
  LET K == FiringE(op, Dest.F) IN
    \/ Added(K) \intersect Deleted(K) # {}
    \/ MaybeAdded(K) \intersect MaybeDeleted(K) # {}
    \/ Added(K) \intersect (AllDeleted(E) \union MaybeDeleted(K)) # {}
    \/ (AllAdded(E) \union MaybeAdded(K)) \intersect Deleted(K) # {}
    \/ \E f \in AllAdded(E) \intersect AllDeleted(E) : can_contradict_in(f, E, clauses)

(* Which facts stay or become true for sure, become false for sure, become *)
(* unknown without a test, or have to be tested one way.                   *)
Setup(op, E) ==
  LET K == FiringE(op, Dest.F)
      N == Facts \ (Dest.F \union Dest.U)
      u == Dest.U \ (Added(K) \union Deleted(K))
      f == Dest.F \ (Deleted(K) \union MaybeDeleted(K))
      n == N \ (Added(K) \union MaybeAdded(K))
  IN  [F   |-> (f \ AllDeleted(E)) \union (Added(K) \ Dest.F),
       Npp |-> ((Dest.F \union Dest.U) \intersect (Deleted(K) \ (Dest.U \intersect Added(K))))
                 \union (n \ AllAdded(E)),
       U   |-> ((Dest.F \intersect MaybeDeleted(K)) \ Deleted(K))
                 \union (u \ (AllAdded(E) \union AllDeleted(E)))
                 \union ((N \intersect MaybeAdded(K)) \ Added(K)),
       check_pos |-> (u \union n) \intersect AllAdded(E),
       check_neg |-> (f \intersect AllDeleted(E)) \union ((u \ AllAdded(E)) \intersect AllDeleted(E))]

(* handle_inferred_literals: a fact is known once its opposite cannot be.  *)
(* A twin that was tested already decides a fact tested for falsity.       *)
Inferred(setup, models, time) ==
  LET F == setup.F \union {f \in setup.check_pos : ~ Sat(models, {Lit(f, time, FALSE)})}
      U == setup.U \union {f \in setup.check_pos : Sat(models, {Lit(f, time, FALSE)})}
  IN  [F |-> F,
       U |-> U \union {f \in setup.check_neg :
                         IF Twin(f) # NoTwin THEN Twin(f) \in U /\ Twin(f) \notin F
                         ELSE Sat(models, {Lit(f, time, TRUE)})}]

\* The planner's checks on the facts to be tested.
Untestable(setup, clauses, time) ==
  \/ \E f \in setup.check_pos : ~ Coded(clauses, Lit(f, time, TRUE))
  \/ \E f \in setup.check_neg :
       IF Twin(f) # NoTwin THEN Twin(f) \notin setup.F \union setup.U \union setup.check_pos
       ELSE ~ Coded(clauses, Lit(f, time, TRUE))
------------------------------------------------------------------------------
WorldsOf(p) ==
  {w \in SUBSET (p.F \union p.U) :
     /\ p.F \subseteq w
     /\ \A f \in p.U : Twin(f) # NoTwin => (f \in w <=> Twin(f) \notin w)
     /\ \A c \in p.clauses : \E l \in c : (l.f \in w) = l.pos}

Init ==
  /\ problem \in Problems
  /\ path = <<[op |-> "none", E |-> {}, F |-> problem.F, U |-> problem.U]>>
  /\ hist = {<<w>> : w \in WorldsOf(problem)}
  /\ attempt = "none"
  /\ pc = "search"

Ready(name) ==
  /\ pc = "search" /\ Len(path) <= MaxPlanLength
  /\ problem.ops[name].pre \subseteq Dest.F
  /\ attempt' = name

Fail(reason) == pc' = reason /\ UNCHANGED <<path, hist>>

(* result_to_dest for an operator: rejected if it may contradict itself,   *)
(* otherwise the new node.                                                 *)
ApplyOperator(name) ==
  LET op == problem.ops[name]
      E == UnknownE(op, Dest.F, Dest.U)
      clauses == PathClauses
      setup == Setup(op, E)
      next == clauses \union StepClauses(op, E, Dest, setup.F, setup.Npp, Len(path) - 1)
      S == Inferred(setup, Models(next), Len(path))
  IN  /\ ~ IsObservation(op) /\ Ready(name)
      /\ \/ MissesCode(E, clauses) /\ Fail("exit")
         \/ ~ MissesCode(E, clauses) /\ MayContradict(op, E, clauses) /\ Fail("rejected")
         \/ /\ ~ MissesCode(E, clauses) /\ ~ MayContradict(op, E, clauses)
            /\ \/ Untestable(setup, next, Len(path)) /\ Fail("exit")
               \/ /\ ~ Untestable(setup, next, Len(path))
                  /\ path' = Append(path, [op |-> name, E |-> E, F |-> S.F, U |-> S.U])
                  /\ hist' = Branched(hist, op)
                  /\ pc' = pc
      /\ UNCHANGED problem

\* Mutant: what follows from the observation is not asked.
ObservedUnchecked(F, models, rest, time) == [F |-> F, U |-> rest]

(* Every other unknown fact is tested both ways.                           *)
CheckedBoth(F, models, rest, time) ==
  LET true == {f \in rest : ~ Sat(models, {Lit(f, time, FALSE)})}
  IN  [F |-> F \union true, U |-> {f \in rest \ true : Sat(models, {Lit(f, time, TRUE)})}]

(* result_to_dest for an observation and its outcome: the observed fact    *)
(* has to be unknown.                                                      *)
ApplyObservation(name, value) ==
  LET op == problem.ops[name]
      f == CHOOSE x \in op.obs : TRUE
      F == Dest.F \union ({IF value THEN f ELSE Twin(f)} \ {NoTwin})
      rest == Dest.U \ {f, Twin(f)}
      next == PathClauses \union StepClauses(op, {}, Dest, F, {}, Len(path) - 1)
      missing == {x \in rest : ~ Coded(next, Lit(x, Len(path), TRUE))}
      S == CheckedBoth(F, Models(next), rest, Len(path))
  IN  /\ IsObservation(op) /\ Ready(name)
      /\ \/ f \notin Dest.U /\ Fail("rejected")
         \/ f \in Dest.U /\ missing # {} /\ Fail("exit")
         \/ /\ f \in Dest.U /\ missing = {}
            /\ path' = Append(path, [op |-> name, E |-> {}, F |-> S.F, U |-> S.U])
            /\ hist' = {Append(h, Now(h)) : h \in {x \in hist : (f \in Now(x)) = value}}
            /\ pc' = pc
      /\ UNCHANGED problem

Next == \E name \in DOMAIN problem.ops :
          ApplyOperator(name) \/ \E value \in BOOLEAN : ApplyObservation(name, value)

result_to_dest == Init /\ [][Next]_vars
------------------------------------------------------------------------------
(* What the planner says it knows is so: a fact in F holds in every world  *)
(* the path can lead to, a fact neither in F nor in U in none.             *)
BeliefSound ==
  \A h \in hist : Dest.F \subseteq Now(h) /\ Now(h) \subseteq Dest.F \union Dest.U

(* An operator that is not skipped adds and deletes no fact at once, in    *)
(* any world it is applied in.                                             *)
NoContradictionPasses ==
  Len(path) > 1 =>
    \A h \in hist : ~ ContradictsItself(h[Len(path) - 1], problem.ops[Dest.op])

(* The clauses describe the path: the facts that can be true at a time     *)
(* step of the path are those true there in some history that agrees with  *)
(* all later observations.                                                 *)
ClausesDescribePath ==
  problem.exact =>
    LET clauses == PathClauses
        models == Models(clauses)
    IN  \A i \in 1..Len(path), f \in Facts : \A value \in BOOLEAN :
          f \in path[i].U /\ Coded(clauses, Lit(f, i - 1, TRUE)) =>
            (Sat(models, {Lit(f, i - 1, value)}) <=> \E h \in hist : (f \in h[i]) = value)

(* The planner knows what can be known and nothing else: a fact is left    *)
(* unknown only if it is true in one world and false in another, however   *)
(* effects, chance and observations came one after the other; and none of  *)
(* the planner's own checks ends it.                                       *)
BeliefExact ==
  /\ BeliefSound
  /\ problem.exact => Dest.F = KnownIn(hist) /\ Dest.U = UnknownIn(hist)
  /\ ClausesDescribePath
  /\ NoContradictionPasses
  /\ pc # "exit"
==============================================================================
