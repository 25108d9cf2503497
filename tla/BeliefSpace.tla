----------------------------- MODULE BeliefSpace -----------------------------
(***************************************************************************)
(* What a contingent planning task means, for the modules about            *)
(* Contingent-FF.  An operator has known preconditions, at most one        *)
(* observed fact, and conditional effects that all fire on the world the   *)
(* operator is applied in.  Predicates that occur under a NOT, that are    *)
(* observed or that condition an effect have a NOT- twin, a fact like any  *)
(* other, which the effects keep in step (see NegationTwins).              *)
(***************************************************************************)
EXTENDS Naturals, Sequences, FiniteSets

\* The facts in N are added or deleted only if the effect happens to work.
MayEffect(C, A, D, N) == [C |-> C, A |-> A, D |-> D, N |-> N]
Effect(C, A, D) == MayEffect(C, A, D, {})
Operator(pre, obs, effs) == [pre |-> pre, obs |-> obs, effs |-> effs]

IsObservation(op) == op.obs # {}

(* What the effects that fire in world w add and delete.                   *)
Adds(w, op) == UNION {e.A : e \in {x \in op.effs : x.C \subseteq w}}
Dels(w, op) == UNION {e.D : e \in {x \in op.effs : x.C \subseteq w}}

Progress(w, op) == (w \ Dels(w, op)) \union Adds(w, op)

(* An operator has one fact, with its twin, that is left to chance.        *)
Chancy(op) == UNION {e.N : e \in op.effs}
Outcomes(w, op) ==
  {(w \ (Dels(w, op) \ missed)) \union (Adds(w, op) \ missed) : missed \in {{}, Chancy(op)}}

ContradictsItself(w, op) == Adds(w, op) \intersect Dels(w, op) # {}

(* A history is the sequence of worlds met along a path of the search; a   *)
(* belief state of the planner stands for a set of histories of one path.  *)
Now(h) == h[Len(h)]

KnownIn(S) == {f \in UNION {Now(h) : h \in S} : \A h \in S : f \in Now(h)}
UnknownIn(S) == UNION {Now(h) : h \in S} \ KnownIn(S)

Extended(S, op) == {Append(h, Progress(Now(h), op)) : h \in S}
Branched(S, op) == UNION {{Append(h, w) : w \in Outcomes(Now(h), op)} : h \in S}
Observed(S, f, value) == {Append(h, Now(h)) : h \in {x \in S : (f \in Now(x)) = value}}
==============================================================================
