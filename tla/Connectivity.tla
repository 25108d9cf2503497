---------------------------- MODULE Connectivity ----------------------------
(***************************************************************************)
(* inst_pre.c: translate_negative_preconds.  A predicate that is negated   *)
(* in a goal or precondition, or occurs at all in an effect condition, an  *)
(* observation or an initial constraint, gets a twin, NOT-p, that is true  *)
(* exactly where it is false; conditions are then facts only.  Actions     *)
(* stand for operators: arguments are copied, never looked at.  The sweep  *)
(* over goal and operators meets the predicates in some order.             *)
(*                                                                         *)
(* inst_final.c: from the actions of a translated problem to the graph the *)
(* search works on (gft_conn, gop_conn, gef_conn).  The facts that can     *)
(* change are found first (perform_reachability_analysis,                  *)
(* collect_relevant_facts), the actions are reduced to them                *)
(* (create_final_actions) and connected (build_connectivity_graph).        *)
(*                                                                         *)
(* The last phase runs the graph beside the actions as they were parsed:   *)
(* each possible world is kept as the facts that hold in it and as the     *)
(* state the graph makes of it.  An operator is applied as                 *)
(* state_transitions.c does: not when one of its effects that fire adds    *)
(* what another one deletes.                                               *)
(***************************************************************************)
EXTENDS Naturals, Sequences, FiniteSets, SequencesExt

CONSTANTS Problems,     \* problems to prepare
          Arguments,    \* predicate |-> the arguments its facts can have
          MaxPredicates, MaxRelevant

VARIABLES problem,       \* as parsed
          now,           \* as rewritten: [ops, goal, ors, oneofs, initial, unknown]
          translated,    \* predicates that have a twin
          phase,
          pos, neg, use, \* facts that can be true, can be false, are relevant
          templates,     \* actions still to be reached
          actions,
          conn,          \* the graph
          belief         \* possible worlds, [world, state]
vars == <<problem, now, translated, phase, pos, neg, use, templates, actions, conn, belief>>

\* Facts <<predicate, argument, whether of the twin>>, literals of conditions
\* and of effects.
F(p, a) == <<p, a, FALSE>>
TwinOf(f) == <<f[1], f[2], ~ f[3]>>
Lit(f) == [f |-> f, neg |-> FALSE]
Neg(f) == [f |-> f, neg |-> TRUE]
FactsOf(lits) == {lits[i].f : i \in DOMAIN lits}
Conditions(op) == UNION {ToSet(op.effects[i].conds) : i \in DOMAIN op.effects}

\* translate_all is FALSE for goal and preconditions.
Negated(lits) == {l.f : l \in {x \in ToSet(lits) : x.neg}}
Wanted(q) ==
  LET ops == ToSet(q.ops)
      facts == Negated(q.goal)
               \union UNION {FactsOf(q.ors[i]) : i \in DOMAIN q.ors}
               \union UNION {ToSet(q.oneofs[i]) : i \in DOMAIN q.oneofs}
               \union UNION {Negated(op.pre) \union op.observe \union {l.f : l \in Conditions(op)} : op \in ops}
  IN  {f[1] : f \in {x \in facts : ~ x[3]}}

Replaced(p, lits) ==
  [i \in DOMAIN lits |-> IF lits[i].neg /\ lits[i].f[1] = p THEN Lit(TwinOf(lits[i].f)) ELSE lits[i]]

\* Mutant: the twin's literal is always certain.
WithTwinsCertain(p, lits) ==
  FlattenSeq([i \in DOMAIN lits |->
    IF lits[i].f[1] = p /\ ~ lits[i].f[3]
      THEN <<[f |-> TwinOf(lits[i].f), neg |-> ~ lits[i].neg, nondet |-> FALSE], lits[i]>>
      ELSE <<lits[i]>>])

\* Each literal on p comes with the contrary one on the twin.
WithTwins(p, lits) ==
  FlattenSeq([i \in DOMAIN lits |->
    IF lits[i].f[1] = p /\ ~ lits[i].f[3]
      THEN <<[f |-> TwinOf(lits[i].f), neg |-> ~ lits[i].neg, nondet |-> lits[i].nondet], lits[i]>>
      ELSE <<lits[i]>>])

add_to_initial_state(p, q) ==
  LET unsure == {a \in Arguments[p] : F(p, a) \in q.unknown}
  IN  [q EXCEPT !.unknown = @ \union {TwinOf(F(p, a)) : a \in unsure},
                !.initial = @ \union {TwinOf(F(p, a)) : a \in {b \in Arguments[p] \ unsure : F(p, b) \notin q.initial}}]

translate_one_negative_cond(p, q) ==
  LET Effect(e) == [conds |-> Replaced(p, e.conds), lits |-> WithTwins(p, e.lits)]
      Operator(op) == [op EXCEPT !.pre = Replaced(p, @), !.effects = [i \in DOMAIN @ |-> Effect(@[i])]]
      rewritten == [q EXCEPT !.ops = [i \in DOMAIN @ |-> Operator(@[i])],
                             !.goal = Replaced(p, @),
                             !.ors = [i \in DOMAIN @ |-> Replaced(p, @[i])]]
  IN  add_to_initial_state(p, rewritten)

TranslateInit == /\ problem \in Problems
                 /\ now = problem
                 /\ translated = {}
                 /\ phase = "translate"

Translate(p) == /\ phase = "translate" /\ p \in Wanted(now) \ translated
                /\ Cardinality(DOMAIN Arguments) + Cardinality(translated) < MaxPredicates
                /\ now' = translate_one_negative_cond(p, now)
                /\ translated' = translated \union {p}
                /\ UNCHANGED <<problem, phase>>
TooManyPredicates == /\ phase = "translate" /\ Wanted(now) \ translated # {}
                     /\ Cardinality(DOMAIN Arguments) + Cardinality(translated) >= MaxPredicates
                     /\ phase' = "exit"
                     /\ UNCHANGED <<problem, now, translated>>
------------------------------------------------------------------------------
AllFacts == UNION {{F(p, a) : a \in Arguments[p]} : p \in DOMAIN Arguments}
            \union UNION {{TwinOf(F(p, a)) : a \in Arguments[p]} : p \in translated}
Adds(e) == SelectSeq(e.lits, LAMBDA l : ~ l.neg)
Dels(e) == SelectSeq(e.lits, LAMBDA l : l.neg)
AddsOf(op) == UNION {FactsOf(Adds(op.effects[i])) : i \in DOMAIN op.effects}
DelsOf(op) == UNION {FactsOf(Dels(op.effects[i])) : i \in DOMAIN op.effects}

Init == /\ TranslateInit
        /\ pos = {} /\ neg = {} /\ use = {}
        /\ templates = <<>> /\ actions = <<>> /\ conn = <<>> /\ belief = {}

TranslateStep == /\ \E p \in Wanted(now) : Translate(p)
                 /\ UNCHANGED <<pos, neg, use, templates, actions, conn, belief>>
TranslateExit == /\ TooManyPredicates
                 /\ UNCHANGED <<pos, neg, use, templates, actions, conn, belief>>

StartReach == /\ phase = "translate" /\ Wanted(now) \subseteq translated
              /\ phase' = "reach"
              /\ pos' = now.initial \union now.unknown
              /\ neg' = AllFacts \ now.initial
              /\ use' = now.unknown
              /\ templates' = now.ops
              /\ UNCHANGED <<problem, now, translated, actions, conn, belief>>

\* An action whose preconditions are reached adds its facts, whatever the
\* conditions of its effects, and is done.
Reached(r, op) ==
  IF FactsOf(op.pre) \subseteq r.pos
    THEN [r EXCEPT !.pos = @ \union AddsOf(op), !.use = @ \union (AddsOf(op) \ r.pos), !.actions = Append(@, op)]
    ELSE [r EXCEPT !.rest = Append(@, op)]

ReachPass ==
  /\ phase = "reach"
  /\ \E r \in {FoldLeft(Reached, [pos |-> pos, use |-> use, actions |-> actions, rest |-> <<>>], templates)} :
       /\ pos' = r.pos /\ use' = r.use /\ actions' = r.actions /\ templates' = r.rest
       /\ neg' = neg \union (r.pos \ pos)
       /\ phase' = IF Cardinality(r.use) > MaxRelevant THEN "exit" ELSE IF r.use # use THEN "reach" ELSE "relevant"
  /\ UNCHANGED <<problem, now, translated, conn, belief>>

DeletedRelevant(deleted) == deleted \intersect pos

CollectRelevant ==
  /\ phase = "relevant"
  /\ LET deleted == UNION {DelsOf(op) : op \in ToSet(actions)}
     IN  /\ neg' = neg \union deleted
         /\ use' = use \union DeletedRelevant(deleted)
         /\ phase' = IF Cardinality(use') > MaxRelevant THEN "exit" ELSE "final"
  /\ UNCHANGED <<problem, now, translated, pos, templates, actions, conn, belief>>
-----------------------------------------------------------------------------
(* create_final_goal_state, create_final_initial_state and                 *)
(* create_final_actions: what can only be true or only false is left out.  *)
GoalState == FactsOf(now.goal) \intersect neg

FinalEffects(op) ==
  LET kept == SelectSeq(op.effects, LAMBDA e : FactsOf(e.conds) \subseteq pos)
  IN  [i \in DOMAIN kept |->
         [conds |-> SelectSeq(kept[i].conds, LAMBDA l : l.f \in neg),
          adds |-> SelectSeq(Adds(kept[i]), LAMBDA l : l.f \in neg),
          dels |-> SelectSeq(Dels(kept[i]), LAMBDA l : l.f \in pos)]]

FinalAction(op) == [name |-> op.name,
                    P |-> FactsOf(op.pre) \intersect neg,
                    O |-> op.observe \intersect pos \intersect neg,
                    effects |-> FinalEffects(op)]

CreateFinal ==
  /\ phase = "final"
  /\ actions' = <<>> \o [i \in DOMAIN actions |-> FinalAction(actions[i])]
  /\ phase' = IF FactsOf(now.goal) \subseteq pos /\ GoalState # {} THEN "connect" ELSE "exit"
  /\ UNCHANGED <<problem, now, translated, pos, neg, use, templates, conn, belief>>
-----------------------------------------------------------------------------
(* build_connectivity_graph.                                               *)
Index == use
HasTwin(f) == f \in Index /\ TwinOf(f) \in Index

\* Effects with as many conditions, the second's all among the first's.
Same(e1, e2) == FactsOf(e2.conds) \subseteq FactsOf(e1.conds) /\ Len(e1.conds) = Len(e2.conds)

\* Each effect takes the later ones that are the same as it, unless taken.
Groups(effects) ==
  LET Take(groups, i) ==
        IF \E k \in DOMAIN groups : i \in groups[k] THEN groups
        ELSE Append(groups, {i} \union {j \in i + 1 .. Len(effects) :
               /\ Same(effects[i], effects[j])
               /\ \A k \in DOMAIN groups : j \notin groups[k]})
  IN  FoldLeft(Take, <<>>, [i \in DOMAIN effects |-> i])

\* A fact said twice is certain if it is once; what must hold anyway is not added.
Merged(lits, unless) ==
  LET Put(list, l) ==
        LET at == {k \in DOMAIN list : list[k].f = l.f} IN
        IF at # {} THEN [k \in DOMAIN list |-> IF k \in at THEN [list[k] EXCEPT !.nondet = @ /\ l.nondet] ELSE list[k]]
        ELSE IF l.f \in unless THEN list
        ELSE Append(list, [f |-> l.f, nondet |-> l.nondet])
  IN  FoldLeft(Put, <<>>, lits)

EffectConn(action, group) ==
  LET members == SetToSortSeq(group, <)
      All(which(_)) == FlattenSeq([k \in DOMAIN members |-> which(action.effects[members[k]])])
      conds == FactsOf(action.effects[members[1]].conds)
      PC == action.P \union conds
      adds(e) == e.adds
      dels(e) == e.dels
  IN  [PC |-> PC, C |-> conds \ action.P, A |-> Merged(All(adds), PC), D |-> Merged(All(dels), {})]

\* Empty effects go, and all of an operator that only deletes.
Useful(observes, efs) ==
  LET full == SelectSeq(efs, LAMBDA e : e.A # <<>> \/ e.D # <<>>)
  IN  IF ~ observes /\ \A i \in DOMAIN full : full[i].A = <<>> THEN <<>> ELSE full

OpConn(action) ==
  LET groups == Groups(action.effects)
      efs == [k \in DOMAIN groups |-> EffectConn(action, groups[k])]
  IN  [name |-> action.name, P |-> action.P, O |-> action.O, E |-> Useful(action.O # {}, efs)]

Effects(ops) == UNION {ToSet(ops[i].E) : i \in DOMAIN ops}

(* The initial constraints: a oneof is a clause for one at least and one   *)
(* for each pair, over the twins.                                          *)
OneofClauses(facts) ==
  {ToSet(facts)} \union UNION {{{TwinOf(facts[i]), TwinOf(facts[j])} : j \in i + 1 .. Len(facts)} : i \in DOMAIN facts}
InitialOrs == {FactsOf(now.ors[i]) : i \in DOMAIN now.ors}
              \union UNION {OneofClauses(now.oneofs[i]) : i \in DOMAIN now.oneofs}
BadOneof == \E i \in DOMAIN now.oneofs : Len(now.oneofs[i]) = 1 \/ ~ IsInjective(now.oneofs[i])

\* Facts that may become unknown: initially, by chance, by an effect under
\* an unknown condition or after a precondition that can be observed.
Observable(ops) == UNION {ops[i].O \union {TwinOf(f) : f \in {x \in ops[i].O : HasTwin(x)}} : i \in DOMAIN ops}
ByChance(ops) == {l.f : l \in {x \in UNION {ToSet(e.A) \union ToSet(e.D) : e \in Effects(ops)} : x.nondet}}

PossU(ops, start) ==
  LET Doubtful(U, op, e) == e.C \intersect U # {} \/ op.P \intersect U \intersect Observable(ops) # {}
      More(U, i) == U \union UNION {UNION {FactsOf(e.A) \union FactsOf(e.D) : e \in {x \in ToSet(op.E) : Doubtful(U, op, x)}} : op \in ToSet(ops)}
  IN  FoldLeft(More, start, [i \in 1 .. Cardinality(Index) |-> i])

Srelevant(ops) == UNION {e.PC : e \in Effects(ops)} \union GoalState

gdomination_valid(ops) ==
  \A e \in Effects(ops) : LET srel == FactsOf(e.D) \intersect Srelevant(ops) IN
    e.C = {} \/ srel = {} \/ (Cardinality(e.C) = 1 /\ srel = e.C)

(* The one literal of an operator that is left to chance, or why not:      *)
(* effects are read in order, adds before deletes.                         *)
NoNondet == [f |-> <<>>, add |-> TRUE]
NondetSorry == [f |-> <<"exit">>, add |-> TRUE]
Nondet(op) ==
  LET Items(e) == [i \in DOMAIN e.A |-> [l |-> e.A[i], add |-> TRUE, C |-> e.C]]
                  \o [i \in DOMAIN e.D |-> [l |-> e.D[i], add |-> FALSE, C |-> e.C]]
      Read(acc, x) ==
        LET f == x.l.f
            twin == HasTwin(f) /\ acc.f = TwinOf(f) IN
        IF acc = NondetSorry THEN acc
        ELSE IF ~ x.l.nondet THEN (IF acc # NoNondet /\ (acc.f = f \/ twin) THEN NondetSorry ELSE acc)
        ELSE IF acc # NoNondet THEN (IF twin /\ acc.add # x.add THEN acc ELSE NondetSorry)
        ELSE IF x.C # {} THEN NondetSorry ELSE [f |-> f, add |-> x.add]
  IN  FoldLeft(Read, NoNondet, FlattenSeq([i \in DOMAIN op.E |-> Items(op.E[i])]))

Connect ==
  /\ phase = "connect"
  /\ \E ops \in {<<>> \o [i \in DOMAIN actions |-> OpConn(actions[i])]} :
       LET nondets == [i \in DOMAIN ops |-> Nondet(ops[i])] IN
       /\ conn' = [ops |-> ops,
                   nondet |-> nondets,
                   ors |-> InitialOrs,
                   possU |-> PossU(ops, now.unknown \union ByChance(ops)),
                   domination |-> gdomination_valid(ops)]
       /\ phase' = IF BadOneof \/ \E i \in DOMAIN ops : nondets[i] = NondetSorry THEN "exit" ELSE "start"
  /\ UNCHANGED <<problem, now, translated, pos, neg, use, templates, actions, belief>>
-----------------------------------------------------------------------------
(* The worlds of the problem as it was parsed, and what its actions do.    *)
True(world, l) == (l.f \in world) = ~ l.neg
AllTrue(world, lits) == \A l \in ToSet(lits) : True(world, l)
Possible(world) ==
  /\ world \ problem.unknown = problem.initial
  /\ \A i \in DOMAIN problem.ors : \E l \in ToSet(problem.ors[i]) : True(world, l)
  /\ \A i \in DOMAIN problem.oneofs : Cardinality(ToSet(problem.oneofs[i]) \intersect world) = 1
Worlds == {w \in SUBSET (problem.initial \union problem.unknown) : Possible(w)}
After(world, op, luck) ==
  LET fired == {i \in DOMAIN op.effects : AllTrue(world, op.effects[i].conds)}
      happens == {l \in UNION {ToSet(op.effects[i].lits) : i \in fired} : l.nondet => luck}
  IN  (world \ {l.f : l \in {x \in happens : x.neg}}) \union {l.f : l \in {x \in happens : ~ x.neg}}

\* The facts of the graph that hold in a world.
Encoded(world) == {f \in Index : IF f[3] THEN TwinOf(f) \notin world ELSE f \in world}

Start == /\ phase = "start"
         /\ phase' = "run"
         /\ belief' = {[world |-> w, state |-> Encoded(w)] : w \in Worlds}
         /\ UNCHANGED <<problem, now, translated, pos, neg, use, templates, actions, conn>>

\* The graph's effects: those that fire, with the literal left to chance.
Happening(lits, luck) == {l.f : l \in {x \in ToSet(lits) : x.nondet => luck}}
FiredEffects(op, state) == {i \in DOMAIN op.E : op.E[i].C \subseteq state}
AddedBy(op, state, luck) == UNION {Happening(op.E[i].A, luck) : i \in FiredEffects(op, state)}
DeletedBy(op, state, luck) == UNION {Happening(op.E[i].D, luck) : i \in FiredEffects(op, state)}
Contradicts(op, state) == AddedBy(op, state, TRUE) \intersect DeletedBy(op, state, TRUE) # {}
Result(op, state, luck) == (state \ DeletedBy(op, state, luck)) \union AddedBy(op, state, luck)

\* An operator that observes has no effects, and one without effects is left alone.
Parsed(op) == CHOOSE o \in ToSet(problem.ops) : o.name = op.name
Applicable(op) == \A b \in belief : op.P \subseteq b.state /\ ~ Contradicts(op, b.state)

Apply(i) ==
  LET op == conn.ops[i] IN
  /\ phase = "run" /\ op.O = {} /\ op.E # <<>> /\ Applicable(op)
  /\ \E lucks \in {IF conn.nondet[i] = NoNondet THEN {TRUE} ELSE {TRUE, FALSE}} :
       belief' = {[world |-> After(b.world, Parsed(op), luck), state |-> Result(op, b.state, luck)] :
                  b \in belief, luck \in lucks}
  /\ UNCHANGED <<problem, now, translated, phase, pos, neg, use, templates, actions, conn>>

Observe(i) ==
  LET op == conn.ops[i] IN
  /\ phase = "run" /\ \A b \in belief : op.P \subseteq b.state
  /\ \E f \in op.O, value \in BOOLEAN :
       LET left == {b \in belief : (f \in b.state) = value}
       IN  left # {} /\ left # belief /\ belief' = left
  /\ UNCHANGED <<problem, now, translated, phase, pos, neg, use, templates, actions, conn>>

\* The process has ended, or the search stops.
Stopped == phase \in {"exit", "run"} /\ UNCHANGED vars

Next == \/ TranslateStep \/ TranslateExit \/ StartReach \/ ReachPass \/ CollectRelevant
        \/ CreateFinal \/ Connect \/ Start \/ Stopped
        \/ \E i \in DOMAIN actions : phase = "run" /\ (Apply(i) \/ Observe(i))
Spec == Init /\ [][Next]_vars
-----------------------------------------------------------------------------
\* The graph is a faithful picture: whatever was applied and observed, each
\* world and its state agree on every fact and twin, and what was left out as
\* always or never true is.
StateMatchesWorld ==
  phase = "run" => \A b \in belief :
    /\ b.state = Encoded(b.world)
    /\ \A f \in {x \in AllFacts : ~ x[3]} : /\ f \notin neg => f \in b.world
                                            /\ f \notin pos => f \notin b.world

\* An action whose preconditions hold in all worlds was not lost on the way.
NothingLost ==
  phase = "run" =>
    \A o \in ToSet(problem.ops) : (\A b \in belief : AllTrue(b.world, o.pre)) =>
      \E op \in ToSet(conn.ops) : op.name = o.name /\ \A b \in belief : op.P \subseteq b.state

\* The clauses admit exactly the initial worlds.
OrsExact ==
  phase = "start" =>
    \A w \in SUBSET (problem.initial \union problem.unknown) : w \ problem.unknown = problem.initial =>
      (Possible(w) <=> \A clause \in conn.ors : clause \intersect Encoded(w) # {})

\* A fact on which possible worlds differ is one that may become unknown.
KnownUnlessPossU ==
  phase = "run" => \A b1, b2 \in belief : (b1.state \ b2.state) \union (b2.state \ b1.state) \subseteq conn.possU

\* Where domination is said to be valid, more facts are better: what an
\* operator leaves of the facts that matter only grows with them, as long as
\* it can be applied.
MoreIsBetter ==
  phase = "start" /\ conn.domination =>
    \A s2 \in SUBSET Index : \A s1 \in SUBSET s2 : \A op \in ToSet(conn.ops) :
      op.P \subseteq s1 /\ ~ Contradicts(op, s1) /\ ~ Contradicts(op, s2) =>
        Result(op, s1, TRUE) \intersect Srelevant(conn.ops) \subseteq Result(op, s2, TRUE)

\* The graph is as good as the problem it was made from: nothing that can
\* happen is lost or added, and what it says of itself is so.
GraphFaithful ==
  StateMatchesWorld /\ NothingLost /\ OrsExact /\ KnownUnlessPossU /\ MoreIsBetter
=============================================================================
