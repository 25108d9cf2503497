----------------------------- MODULE RelaxedBelief -----------------------------
(***************************************************************************)
(* Heuristic 2 of Contingent-FF (relax.c): a relaxed planning graph from a *)
(* belief.  Beside the facts known there are layers of unknown facts with  *)
(* the implications between them; an unknown fact becomes known when the   *)
(* leaves of its implications hold, one or another, in every world.        *)
(* Then the relaxed plan is taken out of the graph (extract_1P), with the  *)
(* helpful actions and the value get_1P_and_H gives to the search.         *)
(*                                                                         *)
(* An effect is [op, C, A, N, D]: its operator, conditions, adds in their  *)
(* order, the adds among them that are nondeterministic, deletes.  The     *)
(* belief stands for the clauses of the state: what they imply is what     *)
(* holds in all of its worlds (dp_CNF, module DavisPutnam).                *)
(***************************************************************************)
EXTENDS Integers, FiniteSets, Sequences, SequencesExt, Functions

CONSTANTS Tasks,         \* [facts, P, O, E, goal]: sequences, and by operator
          BeliefsOf(_),  \* the beliefs of a task that are evaluated
          Negation(_),   \* the twin of a fact, "none" without one
          IsCNF(_),      \* is the fact the one of the twins the clauses name
          RELAXED_STEPS  \* bound on the layers

INFINITY == RELAXED_STEPS + 1
NOOP == 0

VARIABLES task, worlds, status, time,
          inF, level,        \* the facts known
          eflevel, oplevel,  \* what is applicable
          observed_level,    \* the unknown facts that can be observed
          lU,                \* the layers of unknown facts
          plan,   \* the extraction: goals and observation goals by level, operators used, ...
          retval

graph == <<inF, level, eflevel, oplevel, observed_level, lU>>
vars == <<task, worlds, status, time, graph, plan, retval>>

Facts == task.facts
P(o) == task.P[o]
C(e) == task.E[e].C
PC(e) == P(task.E[e].op) \o C(e)
Ops == DOMAIN task.P
Effects == DOMAIN task.E
Observers(f) == {o \in Ops : f \in task.O[o] \/ Negation(f) \in task.O[o]}
Indices(Test(_)) == SetToSortSeq({i \in Effects : Test(i)}, <)

\* The facts of the state: known, and unknown in the order of the facts.
KnownIn(b) == {f \in Range(Facts) : \A w \in b : f \in w}
UnknownIn(b) == SelectSeq(Facts, LAMBDA f : f \notin KnownIn(b) /\ \E w \in b : f \in w)

Node(f, edges) == [ft |-> f, became_F |-> FALSE, observed |-> FALSE, in |-> edges]
Edge(source, e) == [from |-> source, ef |-> e]
------------------------------------------------------------------------------
(* The nodes a node is reached from, in the order of the search: layer by  *)
(* layer, each once, with the node they were found from.                   *)
Expand(L, p, t) ==
  LET at == SelectSeq([i \in DOMAIN p |-> i], LAMBDA i : p[i].t = t)
      edges(i) == LET in == L[t + 1][p[i].n].in
                  IN  [j \in DOMAIN in |-> [t |-> t - 1, n |-> in[j].from, ft |-> L[t][in[j].from].ft,
                                            father |-> i, ef |-> in[j].ef]]
      add(q, x) == IF \E i \in DOMAIN q : q[i].t = x.t /\ q[i].n = x.n THEN q ELSE Append(q, x)
  IN  FoldLeft(add, p, FlattenSeq([i \in DOMAIN at |-> edges(at[i])]))
Backwards(L, t, n) ==
  FoldLeft(LAMBDA p, s : Expand(L, p, t + 1 - s),
           <<[t |-> t, n |-> n, ft |-> L[t + 1][n].ft, father |-> 0, ef |-> NOOP]>>,
           [s \in 1..t |-> s])

ReachedFacts(p) == {p[i].ft : i \in DOMAIN p}
Leafs(p) == {p[i].ft : i \in {j \in DOMAIN p : p[j].t = 0}}
Contradictory(X) == \E f \in X : Negation(f) \in X
disjunction_implied_by_S_formula(dis) == \A w \in worlds : w \intersect dis # {}

Uleaf_disjunction_implied_by_formula(p) ==
  Contradictory(ReachedFacts(p)) \/ disjunction_implied_by_S_formula(Leafs(p))

more_reachable_facts(L, t, n, m) ==
  ~ ReachedFacts(Backwards(L, t + 1, n)) \subseteq ReachedFacts(Backwards(L, t, m))
------------------------------------------------------------------------------
(* append_new_U_layer: from layer U the next one, F known by now, lev the  *)
(* levels of the facts active.  First what stays unknown; then the effects *)
(* whose conditions are known, or unknown, or preconditions observed.      *)
Transferred(U, F) ==
  LET stays == SelectSeq([i \in DOMAIN U |-> i], LAMBDA i : ~ U[i].became_F /\ U[i].ft \notin F)
  IN  [i \in DOMAIN stays |-> Node(U[stays[i]].ft, <<Edge(stays[i], NOOP)>>)]

Support(f, e, from) == [ft |-> f, ef |-> e, conds |-> from]
SupportsBy(node) ==
  LET asC == Indices(LAMBDA e : node.ft \in Range(C(e)))
      asP == Indices(LAMBDA e : node.ft \in Range(PC(e)) \ Range(C(e)))
  IN  IF node.became_F THEN <<>>
      ELSE [j \in DOMAIN asC |-> Support(node.ft, asC[j], C(asC[j]))]
             \o IF node.observed THEN [j \in DOMAIN asP |-> Support(node.ft, asP[j], P(task.E[asP[j]].op))]
                ELSE <<>>
Supports(U) == FlattenSeq([i \in DOMAIN U |-> SupportsBy(U[i])])

(* conu: the first of the conditions that is in the layer of unknown facts.*)
PlaceIn(U, f) == CHOOSE i \in DOMAIN U : U[i].ft = f
FirstUnknown(U, conds) ==
  PlaceIn(U, SelectSeq(conds, LAMBDA f : \E i \in DOMAIN U : U[i].ft = f)[1])

(* One edge for each fact that enables another.                            *)
AddEdge(layer, U, f, source, e) ==
  IF \E a \in DOMAIN layer : layer[a].ft = f
  THEN LET a == PlaceIn(layer, f) IN
       IF \E l \in DOMAIN layer[a].in : U[layer[a].in[l].from].ft = U[source].ft THEN layer
       ELSE [layer EXCEPT ![a].in = Append(@, Edge(source, e))]
  ELSE Append(layer, Node(f, <<Edge(source, e)>>))
EdgesOf(layer, U, F, s) ==
  FoldLeft(LAMBDA l, f : AddEdge(l, U, f, FirstUnknown(U, s.conds), s.ef), layer,
           SelectSeq(task.E[s.ef].A, LAMBDA f : f \notin F /\ f \notin task.E[s.ef].N))

Active(e, lev) == Cardinality({f \in Range(PC(e)) : lev[f] # INFINITY})
SupportedBefore(ss, i) == Cardinality({j \in 1..i : ss[j].ef = ss[i].ef})
Propagated(U, F, lev) ==
  LET ss == Supports(U)
      whole == SelectSeq([i \in DOMAIN ss |-> i],
                 LAMBDA i : Active(ss[i].ef, lev) + SupportedBefore(ss, i) = Len(PC(ss[i].ef)))
  IN  FoldLeft(LAMBDA l, i : EdgesOf(l, U, F, ss[i]), Transferred(U, F), whole)

\* The checks of the code on the counters: no effect is supported twice.
CountersAgree(U, lev) ==
  LET ss == Supports(U)
  IN  \A i \in DOMAIN ss : Active(ss[i].ef, lev) + SupportedBefore(ss, i) <= Len(PC(ss[i].ef))

\* Mutant: an observer counts from the round after it is reached.
ObservableLater(f, oplev) == \E o \in Observers(f) : oplev[o] < time
Observable(f, oplev) == \E o \in Observers(f) : oplev[o] <= time
WithObserved(layer, oplev) ==
  [i \in DOMAIN layer |-> [layer[i] EXCEPT !.observed = Observable(layer[i].ft, oplev)]]
Inferred(layer) ==
  [i \in DOMAIN layer |->
     [layer[i] EXCEPT !.became_F =
        Uleaf_disjunction_implied_by_formula(Backwards(Append(lU, layer), time + 1, i))]]

FactsIn(layer) == {layer[i].ft : i \in DOMAIN layer}
BecameF(layer) == {layer[i].ft : i \in {j \in DOMAIN layer : layer[j].became_F}}
NowObserved(layer) == {layer[i].ft : i \in {j \in DOMAIN layer : layer[j].observed}}
\* new_U, before the reachable facts are compared.
ChangesIn(U, layer) ==
  \/ ~ FactsIn(layer) \subseteq FactsIn(U)
  \/ \E f \in NowObserved(layer) : observed_level[f] = INFINITY
  \/ BecameF(layer) # {}
MoreReachable(U, layer) ==
  \E i \in DOMAIN layer : more_reachable_facts(Append(lU, layer), time, i, PlaceIn(U, layer[i].ft))
------------------------------------------------------------------------------
Unreached(X) == [x \in X |-> INFINITY]
Fresh ==
  /\ inF = {} /\ lU = <<>> /\ time = 0
  /\ level = Unreached(Range(Facts)) /\ observed_level = Unreached(Range(Facts))
  /\ eflevel = Unreached(Effects) /\ oplevel = Unreached(Ops)

(* initialize_fixpoint, and the part of insert_path_implications for       *)
(* heuristic 2: the layer of what is unknown in the state, without edges.  *)
initialize_fixpoint ==
  /\ status = "idle"
  /\ inF' = KnownIn(worlds)
  /\ oplevel' = [o \in Ops |-> IF P(o) = <<>> THEN 0 ELSE INFINITY]
  /\ lU' = << [i \in DOMAIN UnknownIn(worlds) |-> Node(UnknownIn(worlds)[i], <<>>)] >>
  /\ status' = "build"
  /\ UNCHANGED <<task, worlds, time, level, eflevel, observed_level>>

all_goals_activated ==
  /\ status = "build" /\ task.goal \subseteq inF
  /\ level' = [f \in DOMAIN level |-> IF f \in task.goal /\ level[f] = INFINITY THEN time ELSE level[f]]
  /\ status' = "goals"
  /\ UNCHANGED <<task, worlds, time, inF, eflevel, oplevel, observed_level, lU>>

(* One round of build_fixpoint: activate_ft for the new facts, activate_ef *)
(* for the new effects, append_new_U_layer.                                *)
BuildLayer ==
  /\ status = "build" /\ ~ task.goal \subseteq inF
  /\ LET U == lU[time + 1]
         all(fs, lev) == \A f \in Range(fs) : lev[f] # INFINITY
     IN
     \E lev \in {[f \in DOMAIN level |-> IF f \in inF /\ level[f] = INFINITY THEN time ELSE level[f]]} :
     \E oplev \in {[o \in Ops |-> IF oplevel[o] = INFINITY /\ all(P(o), lev) THEN time ELSE oplevel[o]]} :
     \E new \in {{e \in Effects : eflevel[e] = INFINITY /\ all(PC(e), lev)}} :
     \E F \in {inF \union UNION {Range(task.E[e].A) \ task.E[e].N : e \in new}} :
     \E next \in {<<>> \o Propagated(U, F, lev)} :
     \E layer \in {<<>> \o Inferred(WithObserved(next, oplev))} :
     \E again \in {inF # F \/ ChangesIn(U, layer) \/ MoreReachable(U, layer)} :
       /\ level' = lev /\ oplevel' = oplev
       /\ eflevel' = [e \in Effects |-> IF e \in new THEN time ELSE eflevel[e]]
       /\ inF' = F \union BecameF(layer)
       /\ lU' = Append(lU, layer)
       /\ observed_level' = [f \in DOMAIN observed_level |->
            IF f \in NowObserved(layer) /\ observed_level[f] = INFINITY THEN time + 1 ELSE observed_level[f]]
       /\ time' = IF again THEN time + 1 ELSE time
       /\ status' = IF ~ CountersAgree(U, lev) \/ time' + 1 = RELAXED_STEPS THEN "exit"
                    ELSE IF again THEN status ELSE "unreachable"
  /\ UNCHANGED <<task, worlds>>
------------------------------------------------------------------------------
\* lpath_U_length is 1: layer t of the unknown facts is layer t of the graph.
InLayer(f, t) == \E i \in DOMAIN lU[t + 1] : lU[t + 1][i].ft = f
Earlier(a, b) == IF a < b THEN a ELSE b
Lower(fun, fs, t) == [f \in DOMAIN fun |-> IF f \in fs THEN Earlier(fun[f], t) ELSE fun[f]]
------------------------------------------------------------------------------
AddGoal(x, f) == IF f \in Range(x.goals[level[f]]) THEN x
                 ELSE [x EXCEPT !.goals[level[f]] = Append(@, f)]
AddOGoal(x, f, t) ==
  IF observed_level[f] > t THEN [x EXCEPT !.exit = TRUE]
  ELSE IF x.is_observed[f] <= t \/ f \in Range(x.ogoals[observed_level[f]]) THEN x
  ELSE [x EXCEPT !.ogoals[observed_level[f]] = Append(@, f)]

Use(x, o, t) == IF o \in x.used[t] THEN x ELSE [x EXCEPT !.used[t] = @ \union {o}, !.h = @ + 1]
Implied(e) == {i \in Effects \ {e} : task.E[i].op = task.E[e].op /\ Range(PC(i)) \subseteq Range(PC(e))}

\* introduce_ef_PC_and_A for an effect: its conditions are goals, what it adds is true.
ConditionOf(x, f, t) ==
  IF level[f] > t - 1 THEN [x EXCEPT !.exit = TRUE]
  ELSE IF x.is_true[f] <= t - 1 THEN x ELSE AddGoal(x, f)
IntroduceEffect(x, t, e) ==
  LET y == FoldLeft(LAMBDA z, f : ConditionOf(z, f, t), x, PC(e))
  IN  [y EXCEPT !.is_true = Lower(Lower(@, Range(task.E[e].A), t),
                                  UNION {Range(task.E[i].A) : i \in Implied(e)}, t - 1),
                !.is_observed = Lower(@, task.O[task.E[e].op], t)]

\* ... and for an operator that observes.
PreconditionOf(x, f, t) ==
  IF level[f] > t - 1 THEN AddOGoal(x, f, t - 1)
  ELSE IF x.is_true[f] <= t - 1 THEN x ELSE AddGoal(x, f)
IntroduceObserver(x, t, o) ==
  LET y == FoldLeft(LAMBDA z, f : PreconditionOf(z, f, t), x, P(o))
      always == {e \in Effects : task.E[e].op = o /\ C(e) = <<>>}
  IN  [y EXCEPT !.is_true = Lower(@, UNION {Range(task.E[e].A) : e \in always}, t),
                !.is_observed = Lower(@, task.O[o], t)]
------------------------------------------------------------------------------
(* pathselect: the operator of an edge is used, helpful when it is         *)
(* applicable; of its conditions what is known by then is a goal, what is  *)
(* a precondition and unknown is to be observed.                           *)
PathCondition(x, f, t, o) ==
  IF x.is_true[f] <= t - 1 THEN x
  ELSE IF level[f] < t THEN AddGoal(x, f)
  ELSE IF ~ InLayer(f, t - 1) THEN [x EXCEPT !.exit = TRUE]
  ELSE IF f \in Range(P(o)) THEN AddOGoal(x, f, t - 1) ELSE x

HelpfulOnPath(o) == \A f \in Range(P(o)) : level[f] = 0

pathselect(x, t, e) ==
  LET o == task.E[e].op
      y == IF o \in x.used[t - 1] \/ ~ HelpfulOnPath(o) THEN x ELSE [x EXCEPT !.H = @ \union {o}]
  IN  IF e = NOOP THEN x
      ELSE FoldLeft(LAMBDA z, f : PathCondition(z, f, t, o), Use(y, o, t - 1), PC(e))

\* The path found to the i-th node of the search, from its end.
SelectPath(x, p, i) ==
  LET way[k \in 1..Len(p)] == IF k = 1 THEN <<>> ELSE <<k>> \o way[p[k].father]
  IN  FoldLeft(LAMBDA y, k : pathselect(y, p[k].t + 1, p[k].ef), x, way[i])

FirstReached(p, f) == CHOOSE i \in DOMAIN p : p[i].ft = f /\ \A j \in 1..(i - 1) : p[j].ft # f
ContradictionsIn(p) ==
  {i \in DOMAIN p : FirstReached(p, p[i].ft) = i /\ \E j \in 1..(i - 1) : p[j].ft = Negation(p[i].ft)}

(* get_minimal_disjunction_implied_by_state_formula: leaf by leaf from the *)
(* front, one that is not needed is dropped; the target itself is kept.    *)
Target(f, target) == IF IsCNF(f) THEN f = target ELSE Negation(f) = target
\* Mutant: the first leaf is enough.
FirstLeaf(leafs, target) == {leafs[1]}
MinimalLeafs(leafs, target) ==
  FoldLeft(LAMBDA kept, f : IF ~ Target(f, target) /\ disjunction_implied_by_S_formula(kept \ {f})
                            THEN kept \ {f} ELSE kept,
           Range(leafs), leafs)

select_implied_incoming_paths(x, t, n) ==
  LET p == Backwards(lU, t, n)
      clash == ContradictionsIn(p)
      at0 == SelectSeq([i \in DOMAIN p |-> i], LAMBDA i : p[i].t = 0)
      leafs == [i \in DOMAIN at0 |-> p[at0[i]].ft]
      minimal == MinimalLeafs(leafs, p[1].ft) \ {p[1].ft}
  IN  IF clash # {}
      THEN LET i == CHOOSE j \in clash : \A k \in clash : j <= k
           IN  SelectPath(SelectPath(x, p, i), p, FirstReached(p, Negation(p[i].ft)))
      ELSE FoldLeft(LAMBDA y, i : IF p[i].ft \in minimal THEN SelectPath(y, p, i) ELSE y, x, at0)
------------------------------------------------------------------------------
Difficulty(e) == FoldLeft(LAMBDA s, f : s + level[f], 0, PC(e))
Achievers(f, l) == {e \in Effects : f \in Range(task.E[e].A) \ task.E[e].N /\ eflevel[e] = l}
min_e(X) == CHOOSE e \in X : \A i \in X : \/ Difficulty(e) < Difficulty(i)
                                          \/ Difficulty(e) = Difficulty(i) /\ e <= i

AchieveGoal(x, f, t) ==
  LET here == {i \in DOMAIN lU[t + 1] : lU[t + 1][i].ft = f /\ lU[t + 1][i].became_F} IN
  IF x.is_true[f] <= t THEN x
  ELSE IF Achievers(f, t - 1) # {}
  THEN LET e == min_e(Achievers(f, t - 1)) IN IntroduceEffect(Use(x, task.E[e].op, t - 1), t, e)
  ELSE IF here = {} THEN [x EXCEPT !.exit = TRUE]
  ELSE select_implied_incoming_paths(x, t, CHOOSE i \in here : TRUE)

AchieveOGoal(x, f, t) ==
  LET able == {o \in Observers(f) : oplevel[o] < t}
      o == CHOOSE i \in able : \A j \in able : i <= j
  IN  IF x.is_observed[f] <= t THEN x
      ELSE IF able = {} THEN [x EXCEPT !.exit = TRUE]
      ELSE IntroduceObserver(Use(x, o, oplevel[o]), oplevel[o] + 1, o)

(* collect_H_info: what can achieve, or observe, the goals of level 1.     *)
HelpfulFor(x) ==
  {task.E[e].op : e \in UNION {Achievers(f, 0) : f \in Range(x.goals[1])}}
    \union {o \in UNION {Observers(f) : f \in Range(x.ogoals[1])} : oplevel[o] = 0}
------------------------------------------------------------------------------
EmptyPlan ==
  [goals |-> [t \in 0..RELAXED_STEPS |-> <<>>], ogoals |-> [t \in 0..RELAXED_STEPS |-> <<>>],
   used |-> [t \in 0..RELAXED_STEPS |-> {}], H |-> {}, h |-> 0, exit |-> FALSE,
   is_true |-> [f \in Range(Facts) |-> INFINITY], is_observed |-> [f \in Range(Facts) |-> INFINITY]]

Init == /\ task \in Tasks
        /\ worlds \in BeliefsOf(task)
        /\ status = "idle" /\ Fresh
        /\ plan = EmptyPlan /\ retval = INFINITY

BuildGraph == (initialize_fixpoint \/ all_goals_activated \/ BuildLayer) /\ UNCHANGED <<plan, retval>>

initialize_goals ==
  LET top == {level[f] : f \in task.goal} IN
  /\ status = "goals"
  /\ plan' = [EmptyPlan EXCEPT !.goals =
                [t \in DOMAIN @ |-> SelectSeq(Facts, LAMBDA f : f \in task.goal /\ level[f] = t)]]
  /\ time' = CHOOSE t \in top : \A u \in top : u <= t
  /\ status' = "extract"
  /\ UNCHANGED <<task, worlds, graph, retval>>

\* achieve_goals and achieve_ogoals, for one level.
AchieveLevel ==
  /\ status = "extract" /\ time > 0
  /\ \E x \in {FoldLeft(LAMBDA y, f : AchieveGoal(y, f, time), plan, plan.goals[time])} :
       \E z \in {FoldLeft(LAMBDA y, f : AchieveOGoal(y, f, time), x, x.ogoals[time])} :
         plan' = z /\ status' = IF z.exit THEN "exit" ELSE status
  /\ time' = time - 1
  /\ UNCHANGED <<task, worlds, graph, retval>>

collect_H_info ==
  /\ status = "extract" /\ time = 0
  /\ plan' = [plan EXCEPT !.H = @ \union HelpfulFor(plan)]
  /\ retval' = plan.h
  /\ status' = "reset"
  /\ UNCHANGED <<task, worlds, time, graph>>

(* reset_fixpoint: the levels of what was reached, the layers.             *)
reset_fixpoint ==
  /\ status \in {"reset", "unreachable"}
  /\ inF' = {} /\ lU' = <<>> /\ time' = 0
  /\ level' = Unreached(Range(Facts)) /\ observed_level' = Unreached(Range(Facts))
  /\ eflevel' = Unreached(Effects) /\ oplevel' = Unreached(Ops)
  /\ status' = IF status = "reset" THEN "done" ELSE "dead"
  /\ UNCHANGED <<task, worlds, plan, retval>>

Stopped == status \in {"done", "dead"} /\ UNCHANGED vars

Next == BuildGraph \/ initialize_goals \/ AchieveLevel \/ collect_H_info \/ reset_fixpoint \/ Stopped
Spec == Init /\ [][Next]_vars
------------------------------------------------------------------------------
(* What the heuristic is held against: the contingent task itself.  An     *)
(* operator is applied when its preconditions are known; a world has a     *)
(* successor for every choice of what is nondeterministic; what the        *)
(* operator observes parts the successors.                                 *)
Fired(w, o) == {e \in Effects : task.E[e].op = o /\ Range(C(e)) \subseteq w}
Outcomes(w, o) ==
  LET adds == UNION {Range(task.E[e].A) \ task.E[e].N : e \in Fired(w, o)}
      maybe == UNION {task.E[e].N : e \in Fired(w, o)}
      deleted == UNION {task.E[e].D : e \in Fired(w, o)}
  IN  {((w \ deleted) \ {Negation(f) : f \in X}) \union adds \union X : X \in SUBSET maybe}
After(b, o) ==
  LET next == UNION {Outcomes(w, o) : w \in b}
  IN  {{v \in next : v \intersect task.O[o] = u \intersect task.O[o]} : u \in next}
Applicable(b) == {o \in Ops : Range(P(o)) \subseteq KnownIn(b)}
Successors(b, with) == {<<b, After(b, o)>> : o \in Applicable(b) \intersect with}

BeliefsFrom(b, with) ==
  LET grow(X) == X \union UNION {UNION {s[2] : s \in Successors(c, with)} : c \in X}
      reach[i \in 0..8] == IF i = 0 THEN {b} ELSE UNION {grow(X) : X \in {reach[i - 1]}}
  IN  reach[8]
HasPlan(b, with) ==
  LET won(moves, X) == X \union {m[1] : m \in {k \in moves : k[2] \subseteq X}}
      solved(beliefs, moves) ==
        LET by[i \in 0..8] == IF i = 0 THEN {c \in beliefs : task.goal \subseteq KnownIn(c)}
                              ELSE UNION {won(moves, X) : X \in {by[i - 1]}}
        IN  by[8]
  IN  \E beliefs \in {BeliefsFrom(b, with)} :
        \E moves \in {UNION {Successors(c, with) : c \in beliefs}} : b \in solved(beliefs, moves)

(* What is sure to come about, and the operators that need no more than    *)
(* that and what such an observation tells of their preconditions.         *)
SureReach ==
  LET more(X) == X \union UNION {Range(task.E[e].A) \ task.E[e].N : e \in {i \in Effects : Range(PC(i)) \subseteq X}}
      reach[i \in 0..Len(Facts)] == IF i = 0 THEN KnownIn(worlds) ELSE UNION {more(X) : X \in {reach[i - 1]}}
  IN  reach[Len(Facts)]
Direct ==
  LET told == {f \in Range(Facts) : \E o \in Observers(f) : Range(P(o)) \subseteq SureReach}
  IN  {o \in Ops : Range(P(o)) \subseteq SureReach \union told}

(* What a world can come to with these effects, one of their conditions    *)
(* enough, deletes ignored; with luck, chance adds what it may.            *)
LooseReach(w, E, luck) ==
  LET adds(e) == Range(task.E[e].A) \ (IF luck THEN {} ELSE task.E[e].N)
      more(X) == X \union UNION {adds(e) : e \in {i \in E : PC(i) = <<>> \/ Range(PC(i)) \intersect X # {}}}
      reach[i \in 0..Len(Facts)] == IF i = 0 THEN w ELSE UNION {more(X) : X \in {reach[i - 1]}}
  IN  reach[Len(Facts)]

(* A belief that the graph does not reach the goals from is given up by    *)
(* the search (get_1P_and_H, with INFINITY): it has no plan, or every plan *)
(* for it applies an operator whose precondition becomes known through     *)
(* another fact or by an observation that itself waits for one; the graph  *)
(* does not see those, although the belief can be solved.                  *)
NeverPrunes == status = "dead" => ~ HasPlan(worlds, Direct)

(* What the graph takes to be known comes about in every world, once one   *)
(* condition of an effect is enough for it (append_new_U_layer, with the   *)
(* leaves of Uleaf_disjunction_implied_by_formula).                        *)
KnownInEveryWorld ==
  status = "goals" => \A w \in worlds : inF \subseteq LooseReach(w, Effects, FALSE)

(* The operators of the relaxed plan bring every world of the belief to    *)
(* the goals (extract_1P), with luck: introduce_ef_PC_and_A takes also     *)
(* what an operator of the plan adds by chance to be true.                 *)
RelaxedPlanSuffices ==
  status = "done" =>
    LET used == UNION {plan.used[t] : t \in DOMAIN plan.used}
    IN  \A w \in worlds : task.goal \subseteq LooseReach(w, {e \in Effects : task.E[e].op \in used}, TRUE)

(* Helpful actions are applicable, and there is one unless the goals are   *)
(* known (collect_H_info, pathselect): a search restricted to them can     *)
(* always go on.                                                           *)
HelpfulUsable ==
  status = "done" => /\ plan.H \subseteq Applicable(worlds)
                     /\ task.goal \subseteq KnownIn(worlds) \/ (plan.H # {} /\ retval > 0)

(* No check of the code on its own tables stops the program.               *)
NoExit == status # "exit"

(* The heuristic can be followed: it gives up no belief that has a plan    *)
(* made of direct operators, its relaxed plan serves every world when      *)
(* chance is kind, and its helpful actions can be applied.                 *)
BeliefHeuristicRight ==
  NeverPrunes /\ KnownInEveryWorld /\ RelaxedPlanSuffices /\ HelpfulUsable /\ NoExit
==============================================================================
