--------------------------- MODULE Instantiation ---------------------------
(***************************************************************************)
(* From operators with parameters to ground actions: split_domain, then    *)
(* build_easy_action_templates for the operators whose conditions are in   *)
(* disjunctive normal form (facts that never change are unified with the   *)
(* initial ones instead of trying every constant) and                      *)
(* build_hard_action_templates for the others.                             *)
(*                                                                         *)
(* The code writes the i-th variable as -(i+1); here a variable is a name. *)
(* Preconditions, conditions and literals are sets: identical ones are     *)
(* removed before anything counts them, and their order means nothing.     *)
(* Equalities, the templates' order and the reachability test that makes   *)
(* actions of templates (module Connectivity) are left out.                *)
(***************************************************************************)
EXTENDS Naturals, Sequences, FiniteSets, SequencesExt, TLC

CONSTANTS Types,        \* type number |-> sequence of its constants
          TypeOf,       \* predicate |-> type inferred from it; unary predicates that never change
          Added, Deleted, Unknown, \* predicates with such effects, or initially unknown facts
          InitialFacts, UnknownFacts, \* <<predicate, arguments>>
          Facts,        \* all that can be or become true
          Domains       \* sequences of operators to ground

VARIABLES domain,
          stage,
          easy, hard,   \* geasy_operators, ghard_operators
          types,        \* gtype_consts, with the intersected types at the end
          intersected,  \* gintersected_types: type number |-> ordered type numbers
          templates,    \* geasy_templates: an easy operator and its parameters' values
          mixed,        \* ghard_mixed_operators
          actions       \* the ground actions, with the arguments in their name
vars == <<domain, stage, easy, hard, types, intersected, templates, mixed, actions>>

F == INSTANCE Formulas WITH Constants <- Types, Twin <- [p \in {f[1] : f \in Facts} |-> p],
       Inputs <- {}, GroundFacts <- {}, use <- stage, input <- stage, wff <- stage, reached <- stage

IsVar(x) == ~ F!IsConstant(x)
gis_inertia(p) == p \notin Added \union Deleted \union Unknown
FactVars(facts) == {x \in UNION {ToSet(f[2]) : f \in facts} : IsVar(x)}
\* A fact, and a set of them, with values for some variables.
Apply(f, inst) == <<f[1], [i \in DOMAIN f[2] |-> IF f[2][i] \in DOMAIN inst THEN inst[f[2][i]] ELSE f[2][i]]>>
ApplyAll(facts, inst) == {Apply(f, inst) : f \in facts}
ApplyLits(lits, inst) == {[l EXCEPT !.fact = Apply(@, inst)] : l \in lits}
LitFacts(lits) == {l.fact : l \in lits}

Names(ps) == {ps[i].name : i \in DOMAIN ps}
TypeIn(ps, v) == (CHOOSE i \in DOMAIN ps : ps[i].name = v)
Values(tys, ps, v) == ToSet(tys[ps[TypeIn(ps, v)].type])
Insts(tys, ps, vs) == {f \in [vs -> F!AllConstants] : \A v \in vs : f[v] \in Values(tys, ps, v)}
-----------------------------------------------------------------------------
(* split_domain.                                                           *)
RECURSIVE is_dnf(_)
is_dnf(w) == CASE w.op = "AND" -> \A i \in DOMAIN w.sons : w.sons[i].op = "ATOM"
               [] w.op = "OR" -> \A i \in DOMAIN w.sons :
                    w.sons[i].op = "ATOM" \/ (w.sons[i].op = "AND" /\ is_dnf(w.sons[i]))
               [] OTHER -> TRUE
Conjunction(w) == IF w.op = "AND" THEN LitFacts(ToSet(w.sons)) ELSE IF w.op = "ATOM" THEN {w.fact} ELSE {}
Disjuncts(w) == IF w.op = "OR" THEN w.sons ELSE IF w.op = "FAL" THEN <<>> ELSE <<w>>
IsEasy(o) == is_dnf(o.pre) /\ \A i \in DOMAIN o.effs : is_dnf(o.effs[i].cond)

make_normal_effects(o) ==
  FlattenSeq([i \in DOMAIN o.effs |->
    [d \in DOMAIN Disjuncts(o.effs[i].cond) |->
      [vars |-> o.effs[i].vars, cond |-> Conjunction(Disjuncts(o.effs[i].cond)[d]), lits |-> o.effs[i].lits]]])
NormOperator(n) ==
  LET o == domain[n]
  IN  [op |-> n, vars |-> o.vars, removed |-> <<>>, pre |-> Conjunction(o.pre), observe |-> o.observe,
       effs |-> <<>> \o make_normal_effects(o)]
Numbers == [n \in DOMAIN domain |-> n]
Refused == \E n \in DOMAIN domain : IsEasy(domain[n]) /\ domain[n].pre.op = "OR"

split_domain ==
  /\ stage = "parsed"
  /\ ~ Refused
  /\ \E ns \in {SelectSeq(Numbers, LAMBDA n : IsEasy(domain[n]) /\ domain[n].pre.op # "FAL")} :
       easy' = <<>> \o [i \in DOMAIN ns |-> NormOperator(ns[i])]
  /\ \E ns \in {SelectSeq(Numbers, LAMBDA n : ~ IsEasy(domain[n]))} :
       hard' = <<>> \o [i \in DOMAIN ns |-> domain[ns[i]] @@ [op |-> ns[i], removed |-> {}]]
  /\ stage' = "split"
  /\ UNCHANGED <<domain, types, intersected, templates, mixed, actions>>
RefuseOr == /\ stage = "parsed" /\ Refused
            /\ stage' = "exit: disjunctive precondition"
            /\ UNCHANGED <<domain, easy, hard, types, intersected, templates, mixed, actions>>
-----------------------------------------------------------------------------
(* Clean up easy operators.                                                *)
EffVars(e) == FactVars(e.cond \union LitFacts(e.lits))

UsedVars(o) == FactVars(o.pre \union o.observe) \union UNION {EffVars(o.effs[i]) : i \in DOMAIN o.effs}

\* A removed parameter is noted with its place among those still there.
remove_unused_easy_parameters(o) ==
  LET used == UsedVars(o)
      gone == SelectSeq([i \in DOMAIN o.vars |-> i], LAMBDA i : o.vars[i].name \notin used)
  IN  [o EXCEPT !.vars = SelectSeq(@, LAMBDA v : v.name \in used),
                !.removed = @ \o [k \in DOMAIN gone |-> [place |-> gone[k], type |-> o.vars[gone[k]].type]],
                !.effs = <<>> \o [i \in DOMAIN @ |->
                  [@[i] EXCEPT !.vars = SelectSeq(@, LAMBDA v : v.name \in EffVars(o.effs[i]))]]]

Inhabited(tys, ps) == \A i \in DOMAIN ps : tys[ps[i].type] # <<>>
handle_empty_easy_parameters(ops, tys) ==
  LET left == SelectSeq(ops, LAMBDA o : Inhabited(tys, o.vars))
  IN  [i \in DOMAIN left |-> [left[i] EXCEPT !.effs = SelectSeq(@, LAMBDA e : Inhabited(tys, e.vars))]]
RemoveUnused(ops) == <<>> \o [i \in DOMAIN ops |-> remove_unused_easy_parameters(ops[i])]

\* Conditions that the precondition has already are dropped.
DropKnown(o) == [o EXCEPT !.effs = <<>> \o [i \in DOMAIN @ |-> [@[i] EXCEPT !.cond = @ \ o.pre]]]
cleanup_easy_domain ==
  /\ stage = "split"
  /\ \E ops \in {handle_empty_easy_parameters(RemoveUnused(easy), types)} :
       easy' = <<>> \o [i \in DOMAIN ops |-> DropKnown(ops[i])]
  /\ stage' = "clean"
  /\ UNCHANGED <<domain, hard, types, intersected, templates, mixed, actions>>
-----------------------------------------------------------------------------
(* Unary facts that never change become types of the parameters they are   *)
(* about.  known: the types and which of them are intersections, of what.  *)
create_intersected_type(T, known) ==
  LET consts == SelectSeq(known.types[T[1]], LAMBDA c : \A k \in DOMAIN T : c \in ToSet(known.types[T[k]]))
      same == SelectSeq(T, LAMBDA t : Len(known.types[t]) = Len(consts))
      new == Len(known.types) + 1
  IN  IF same # <<>> THEN [known EXCEPT !.type = same[1]]
      ELSE [types |-> Append(known.types, consts), intersected |-> known.intersected @@ (new :> T), type |-> new]

find_intersected_type(T, known) == {t \in DOMAIN known.intersected : known.intersected[t] = T}

encode_parameter(s, i) ==
  LET unary == {f \in s.cond : f[1] \in DOMAIN TypeOf /\ f[2][1] = s.vars[i].name}
      T == SetToSortSeq({s.vars[i].type} \union {TypeOf[f[1]] : f \in unary}, LAMBDA a, b : a < b)
      found == find_intersected_type(T, s.known)
      known == IF found # {} THEN [s.known EXCEPT !.type = CHOOSE t \in found : TRUE]
               ELSE create_intersected_type(T, s.known)
  IN  IF unary = {} THEN s
      ELSE [vars |-> [s.vars EXCEPT ![i].type = known.type], cond |-> s.cond \ unary, known |-> known]
encode_parameters(ps, cond, known) ==
  FoldLeft(encode_parameter, [vars |-> ps, cond |-> cond, known |-> known], [i \in DOMAIN ps |-> i])

EncodeOperator(s, o) ==
  LET params == encode_parameters(o.vars, o.pre, s.known)
      effect(r, e) == LET p == encode_parameters(e.vars, e.cond, r.known)
                      IN  [known |-> p.known, effs |-> Append(r.effs, [e EXCEPT !.vars = p.vars, !.cond = p.cond])]
      es == FoldLeft(effect, [known |-> params.known, effs |-> <<>>], o.effs)
  IN  [known |-> es.known,
       ops |-> Append(s.ops, [o EXCEPT !.vars = params.vars, !.pre = params.cond, !.effs = es.effs])]
encode_easy_unaries_as_types ==
  /\ stage = "clean"
  /\ \E s \in {FoldLeft(EncodeOperator, [known |-> [types |-> types, intersected |-> intersected, type |-> 0],
                                         ops |-> <<>>], easy)} :
       /\ easy' = <<>> \o handle_empty_easy_parameters(RemoveUnused(s.ops), s.known.types)
       /\ types' = s.known.types
       /\ intersected' = s.known.intersected
  /\ stage' = "encoded"
  /\ UNCHANGED <<domain, hard, templates, mixed, actions>>
-----------------------------------------------------------------------------
(* Unification with the initial facts.  The recursion shares one table of  *)
(* the parameters' values, lo->inst_table or le->inst_table; found: the    *)
(* tables that were complete.  A parameter that occurs twice in a fact     *)
(* takes its last value.                                                   *)
Unset == "unset"
Blank(ps) == [table |-> [v \in Names(ps) |-> Unset], found |-> {}, fits |-> TRUE]

\* The parameters no fact binds take every value of their type.
RECURSIVE multiply_non_constrained(_, _, _)
multiply_non_constrained(ps, free, s) ==
  LET value(r, c) == multiply_non_constrained(ps, Tail(free), [r EXCEPT !.table[Head(free)] = c])
  IN  IF free = <<>> THEN [s EXCEPT !.found = @ \union {s.table}]
      ELSE [FoldLeft(value, s, types[ps[TypeIn(ps, Head(free))].type]) EXCEPT !.table[Head(free)] = Unset]

\* An initial fact's constants are written one by one; where one does not
\* fit, those before it stay in the table.
Bind(s, args, consts, ps, typed) ==
  LET write(r, i) ==
        CASE ~ r.fits -> r
          [] ~ IsVar(args[i]) -> [r EXCEPT !.fits = args[i] = consts[i]]
          [] typed /\ consts[i] \notin Values(types, ps, args[i]) -> [r EXCEPT !.fits = FALSE]
          [] OTHER -> [r EXCEPT !.table[args[i]] = consts[i]]
  IN  FoldLeft(write, [s EXCEPT !.fits = TRUE], [i \in DOMAIN args |-> i])

\* Mutant: the parameters keep their last value when the facts are through.
NotReset(s, args) == s

\* affected_params: those that had no value when the fact was looked at.
Reset(s, args) == [s EXCEPT !.table = [v \in DOMAIN @ |-> IF v \in ToSet(args) THEN Unset ELSE @[v]]]

RECURSIVE unify_inertia(_, _, _, _, _)
unify_inertia(facts, free, ps, typed, s) ==
  LET f == Head(facts)
      set == {v \in DOMAIN s.table : s.table[v] # Unset}
      args == Apply(f, [v \in set |-> s.table[v]])[2]
      try(r, g) == LET b == Bind(r, args, g[2], ps, typed)
                   IN  IF b.fits THEN unify_inertia(Tail(facts), free, ps, typed, b) ELSE b
  IN  IF facts = <<>> THEN multiply_non_constrained(ps, free, s)
      ELSE Reset(FoldLeft(try, s, SetToSeq({g \in InitialFacts : g[1] = f[1]})), args)
Unified(facts, ps, typed) ==
  unify_inertia(SetToSeq(facts), SetToSeq(Names(ps) \ FactVars(facts)), ps, typed, Blank(ps)).found

ConstrainingConditions(o, e) ==
  {f \in e.cond : gis_inertia(f[1]) /\ FactVars({f}) \subseteq Names(e.vars)}
\* Types are not looked at.
EffectInsts(o, e) == Unified(ConstrainingConditions(o, e), e.vars, FALSE)
GroundEffects(o, e) ==
  LET insts == SetToSeq(EffectInsts(o, e))
      true(f) == gis_inertia(f[1]) /\ FactVars({f}) = {}
  IN  [k \in DOMAIN insts |->
        [vars |-> <<>>, cond |-> {f \in ApplyAll(e.cond, insts[k]) : ~ true(f)}, lits |-> ApplyLits(e.lits, insts[k])]]
multiply_easy_effect_parameters ==
  /\ stage = "encoded"
  /\ easy' = <<>> \o [i \in DOMAIN easy |->
       [easy[i] EXCEPT !.effs = <<>> \o FlattenSeq([k \in DOMAIN @ |-> <<>> \o GroundEffects(easy[i], @[k])])]]
  /\ stage' = "effects"
  /\ UNCHANGED <<domain, hard, types, intersected, templates, mixed, actions>>

Inertia(o) == {f \in o.pre : gis_inertia(f[1])}

\* Mutant: a value from an initial fact is taken without a look at its type.
OpInstsUntyped(o) == Unified(Inertia(o), o.vars, FALSE)
OpInsts(o) == Unified(Inertia(o), o.vars, TRUE)
multiply_easy_op_parameters ==
  /\ stage = "effects"
  /\ templates' = UNION {{[op |-> i, inst |-> inst] : inst \in OpInsts(easy[i])} : i \in DOMAIN easy}
  /\ easy' = <<>> \o [i \in DOMAIN easy |-> [easy[i] EXCEPT !.pre = @ \ Inertia(easy[i])]]
  /\ stage' = "templates"
  /\ UNCHANGED <<domain, hard, types, intersected, mixed, actions>>

\* The arguments in the name: place by place, a removed parameter takes the
\* first constant of its type and each other one the next of the template.
\* Past its end the template has 0, the first constant; so has the table
\* of a type without constants, unless an older one left something there.
RECURSIVE make_name_inst_table(_, _, _, _)
make_name_inst_table(o, inst, i, r) ==
  LET m == i - r + 1 IN \* of the parameters that are left
  IF i > Len(domain[o.op].vars) THEN <<>>
  ELSE IF r <= Len(o.removed) /\ o.removed[r].place = i
    THEN <<(types[o.removed[r].type] \o types[1])[1]>> \o make_name_inst_table(o, inst, i + 1, r + 1)
  ELSE <<IF m <= Len(o.vars) THEN inst[o.vars[m].name] ELSE types[1][1]>> \o make_name_inst_table(o, inst, i + 1, r)
EasyAction(t) ==
  LET o == easy[t.op] IN
  [op |-> o.op, args |-> make_name_inst_table(o, t.inst, 1, 1),
   pre |-> ApplyAll(o.pre, t.inst), observe |-> ApplyAll(o.observe, t.inst),
   effs |-> {[cond |-> ApplyAll(o.effs[k].cond, t.inst), lits |-> ApplyLits(o.effs[k].lits, t.inst)]
             : k \in DOMAIN o.effs}]
EasyActions ==
  /\ stage = "templates"
  /\ actions' = {EasyAction(t) : t \in templates}
  /\ stage' = "hard"
  /\ UNCHANGED <<domain, easy, hard, types, intersected, templates, mixed>>
-----------------------------------------------------------------------------
(* Hard operators: every combination of parameters, then of the effects'.  *)
WffVars(w) == FactVars(F!GoalFacts(w))
HardEffVars(e) == WffVars(e.cond) \union FactVars(LitFacts(e.lits))

\* The names move up when a parameter is removed, the types stay.
Renamed(e) ==
  LET left == SelectSeq(e.vars, LAMBDA v : v.name \in HardEffVars(e))
  IN  [i \in DOMAIN left |-> [left[i] EXCEPT !.type = e.vars[i].type]]

\* What is only observed does not count as used.
HardUsed(o) == WffVars(o.pre) \union UNION {HardEffVars(o.effs[i]) : i \in DOMAIN o.effs}
cleanup_hard_domain ==
  /\ stage = "hard"
  /\ hard' = <<>> \o [i \in DOMAIN hard |->
       [hard[i] EXCEPT !.removed = Names(hard[i].vars) \ HardUsed(hard[i]),
                       !.effs = <<>> \o [k \in DOMAIN @ |-> [@[k] EXCEPT !.vars = <<>> \o Renamed(hard[i].effs[k])]]]]
  /\ stage' = "hard clean"
  /\ UNCHANGED <<domain, easy, types, intersected, templates, mixed, actions>>

full_possibly_positive(f) == f[1] \in Added \/ f \in UnknownFacts \union InitialFacts
full_possibly_negative(f) == f[1] \in Deleted \/ f \in UnknownFacts \/ f \notin InitialFacts

RECURSIVE instantiate_wff(_, _)
instantiate_wff(w, inst) ==
  IF w.op = "ATOM"
    THEN LET f == Apply(w.fact, inst) IN
         IF FactVars({f}) # {} THEN F!ATOM(f[1], f[2])
         ELSE IF ~ full_possibly_negative(f) THEN F!TRU
         ELSE IF ~ full_possibly_positive(f) THEN F!FAL ELSE F!ATOM(f[1], f[2])
  ELSE IF F!IsLeaf(w) THEN w
  ELSE LET sons == <<>> \o [i \in DOMAIN w.sons |-> instantiate_wff(w.sons[i], inst)]
           rest == SelectSeq(sons, LAMBDA s : s # F!Neutral(w.op))
       IN  IF F!Absorbing(w.op) \in ToSet(rest) THEN F!Absorbing(w.op)
           ELSE IF rest = <<>> THEN F!Neutral(w.op)
           ELSE IF Len(rest) = 1 THEN rest[1] ELSE F!Node(w.op, rest)
Normal(w) == IF w = F!FAL THEN w ELSE F!cleanup_wff(F!dnf(w))

\* A parameter that is not used keeps the first constant of its type.
HardInsts(o) == {inst \in Insts(types, o.vars, Names(o.vars)) :
                   \A v \in o.removed : inst[v] = types[o.vars[TypeIn(o.vars, v)].type][1]}
HardPre(o, inst) == Normal(instantiate_wff(o.pre, inst))
HardRefused == \E i \in DOMAIN hard : \E inst \in HardInsts(hard[i]) : HardPre(hard[i], inst).op = "OR"
instantiate_Effect(effs, inst) ==
  SelectSeq([k \in DOMAIN effs |-> [effs[k] EXCEPT !.cond = instantiate_wff(@, inst), !.lits = ApplyLits(@, inst)]],
            LAMBDA e : e.cond # F!FAL)
MixedOperators(i) ==
  {[op |-> i, inst |-> inst, pre |-> Conjunction(HardPre(hard[i], inst)),
    observe |-> ApplyAll(hard[i].observe, inst), effs |-> <<>> \o instantiate_Effect(hard[i].effs, inst)]
   : inst \in {x \in HardInsts(hard[i]) : HardPre(hard[i], x) # F!FAL}}
multiply_hard_op_parameters ==
  /\ stage = "hard clean" /\ ~ HardRefused
  /\ mixed' = UNION {MixedOperators(i) : i \in DOMAIN hard}
  /\ stage' = "mixed"
  /\ UNCHANGED <<domain, easy, hard, types, intersected, templates, actions>>
RefuseHardOr == /\ stage = "hard clean" /\ HardRefused
                /\ stage' = "exit: disjunctive precondition"
                /\ UNCHANGED <<domain, easy, hard, types, intersected, templates, mixed, actions>>

\* One effect for each disjunct of a condition that can hold.
Instances(e) == {[cond |-> instantiate_wff(e.cond, inst), lits |-> ApplyLits(e.lits, inst)]
                 : inst \in Insts(types, e.vars, Names(e.vars))}
create_hard_pseudo_effects(e) ==
  UNION {{[cond |-> Conjunction(d), lits |-> x.lits] : d \in ToSet(Disjuncts(Normal(x.cond)))}
         : x \in {y \in Instances(e) : y.cond # F!FAL}}
PseudoAction(m) ==
  [op |-> hard[m.op].op,
   args |-> <<>> \o [i \in DOMAIN hard[m.op].vars |-> m.inst[hard[m.op].vars[i].name]],
   pre |-> m.pre, observe |-> m.observe,
   effs |-> UNION {create_hard_pseudo_effects(m.effs[k]) : k \in DOMAIN m.effs}]
multiply_hard_effect_parameters ==
  /\ stage = "mixed"
  /\ actions' = actions \union {PseudoAction(m) : m \in mixed}
  /\ stage' = "ground"
  /\ UNCHANGED <<domain, easy, hard, types, intersected, templates, mixed>>

Init == /\ domain \in Domains
        /\ stage = "parsed"
        /\ easy = <<>> /\ hard = <<>>
        /\ types = Types
        /\ intersected = <<>>
        /\ templates = {} /\ mixed = {} /\ actions = {}
\* The domain is ground or refused: each other stage has a step.
Done == stage \in {"ground", "exit: disjunctive precondition"} /\ UNCHANGED vars
Next == \/ split_domain \/ RefuseOr \/ cleanup_easy_domain \/ encode_easy_unaries_as_types
        \/ multiply_easy_effect_parameters \/ multiply_easy_op_parameters \/ EasyActions
        \/ cleanup_hard_domain \/ multiply_hard_op_parameters \/ RefuseHardOr
        \/ multiply_hard_effect_parameters \/ Done
Spec == Init /\ [][Next]_vars
-----------------------------------------------------------------------------
(* What the operators say: their instances in the worlds there can be.     *)
Changing == {f \in Facts : IF f \in InitialFacts THEN f[1] \in Deleted ELSE f[1] \in Added} \union UnknownFacts
Worlds == {(InitialFacts \ Changing) \union w : w \in SUBSET Changing}
Holds(w, inst, world) == F!Truth(w, inst, world)
Said(o, inst, world) ==
  UNION {UNION {IF Holds(e.cond, inst @@ more, world) THEN ApplyLits(e.lits, inst @@ more) ELSE {}
                : more \in Insts(Types, e.vars, Names(e.vars))} : e \in ToSet(o.effs)}
Instance(o, args) == [v \in Names(o.vars) |-> args[TypeIn(o.vars, v)]]
Typed(o, args) == \A i \in DOMAIN o.vars : args[i] \in ToSet(Types[o.vars[i].type])
Does(a, world) == UNION {IF e.cond \subseteq world THEN e.lits ELSE {} : e \in a.effs}
SameMeaning(a, o, inst) ==
  /\ a.observe = ApplyAll(o.observe, inst)
  /\ \A world \in Worlds : LET applies == Holds(o.pre, inst, world) IN
       /\ a.pre \subseteq world <=> applies
       /\ applies => Does(a, world) = Said(o, inst, world)
Possible(o, inst) == \E world \in Worlds : Holds(o.pre, inst, world)

(* Operators the passes do not ground as they are written; o is normal.    *)
Typing(f) == f[1] \in DOMAIN TypeOf
\* The constants a parameter stands for, with the unary facts about it.
Kind(ps, facts, v) ==
  {c \in Values(Types, ps, v) : \A f \in facts : Typing(f) /\ f[2][1] = v => Apply(f, v :> c) \in InitialFacts}
Beyond(facts) == FactVars({f \in facts : ~ Typing(f)})
Needed(o) == Beyond(o.pre) \union FactVars(o.observe)
               \union UNION {FactVars(e.cond \ o.pre) \union FactVars(LitFacts(e.lits)) : e \in ToSet(o.effs)}

\* A parameter goes before the unary facts become types, another one after:
\* its place is noted among those left, and the name has other constants.
RemovedTwice(o) == /\ ~ Names(o.vars) \subseteq UsedVars(o)
                   /\ ~ Names(o.vars) \intersect UsedVars(o) \subseteq Needed(o)
\* A parameter only unary facts are about goes with them, before it shows
\* that no constant has them all.
Emptied(ps, facts, needed) == \E v \in Names(ps) \ needed : Kind(ps, facts, v) = {}
\* A parameter twice in one static fact.
Twice(facts) == \E f \in facts : gis_inertia(f[1]) /\ \E i, j \in DOMAIN f[2] :
                  i # j /\ IsVar(f[2][i]) /\ f[2][i] = f[2][j]
\* A static fact gives an effect's parameter a constant of another kind.
Loose(e, facts) ==
  \E f \in {x \in facts : ~ Typing(x)}, g \in InitialFacts :
    /\ f[1] = g[1] /\ \A i \in DOMAIN f[2] : IsVar(f[2][i]) \/ f[2][i] = g[2][i]
    /\ \E i \in DOMAIN f[2] : IsVar(f[2][i]) /\ g[2][i] \notin Kind(e.vars, e.cond, f[2][i])
\* An unused parameter of a hard operator's effect leaves its type to the next.
Retyped(e) == LET left == SelectSeq(e.vars, LAMBDA v : v.name \in HardEffVars(e))
              IN  \E i \in DOMAIN left : left[i].type # e.vars[i].type

MisreadEffects(n) ==
  IF IsEasy(domain[n])
    THEN \E e \in ToSet(NormOperator(n).effs) : LET facts == ConstrainingConditions(domain[n], e) IN
           \/ Emptied(e.vars, e.cond, Beyond(e.cond) \union FactVars(LitFacts(e.lits)))
           \/ Twice(facts) \/ Loose(e, facts)
    ELSE \E e \in ToSet(domain[n].effs) : Retyped(e)
Misread(n) == IsEasy(domain[n]) /\ LET o == NormOperator(n) IN Emptied(o.vars, o.pre, Needed(o)) \/ Twice(o.pre)
Misnamed(n) == IsEasy(domain[n]) /\ RemovedTwice(NormOperator(n))
\* What a hard operator only observes counts as unused.
Overlooked(o, inst) ==
  ~ IsEasy(o) /\ \E v \in FactVars(o.observe) \ HardUsed(o) : inst[v] # Types[o.vars[TypeIn(o.vars, v)].type][1]

\* An action is what its name says: the operator with these arguments, of
\* the right types, in every world; with parameters removed twice it is the
\* operator with some arguments.  Misread operators are excepted.
NamedRight ==
  stage = "ground" => \A a \in actions :
    LET o == domain[a.op] IN
    \/ Misread(a.op) \/ MisreadEffects(a.op)
    \/ Misnamed(a.op) /\ \E inst \in Insts(Types, o.vars, Names(o.vars)) : SameMeaning(a, o, inst)
    \/ Typed(o, a.args) /\ SameMeaning(a, o, Instance(o, a.args))

\* No instance that can be applied is lost on either way to an action, nor
\* with the parameters that were found to be unused.  A parameter that a
\* hard operator only observes counts as unused: of its instances those
\* with the first constant are there, and all others are lost.  Operators
\* with misread effects are excepted.
NoneLost ==
  stage = "ground" => \A n \in DOMAIN domain : LET o == domain[n] IN
    \A inst \in Insts(Types, o.vars, Names(o.vars)) :
      Possible(o, inst) /\ ~ MisreadEffects(n)
        => ((\E a \in actions : a.op = n /\ SameMeaning(a, o, inst)) <=> ~ Overlooked(o, inst))
=============================================================================
