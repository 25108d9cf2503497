------------------------------ MODULE Evaluate ------------------------------
(***************************************************************************)
(* check and apply of cocg_problem_expert_utils: one function evaluate     *)
(* walks the tree and either asks for the truth value or carries out what  *)
(* the tree says, on a problem expert or on given vectors of facts.        *)
(***************************************************************************)
EXTENDS ConditionTrees, FiniteSets

CONSTANTS Terms,      \* the conditions and effects looked at
          States,     \* [instances, predicates, functions] to start with
          MaxCalls    \* bound on the calls

VARIABLES state, term, before,   \* the last tree and what it met
          success, truth, mode, calls

vars == <<state, term, before, success, truth, mode, calls>>

Result(s, t, n, st) == [success |-> s, truth |-> t, number |-> n, st |-> st]
Key(n) == <<n.name, n.args>>

Applied(st, key, negate) ==
  [st EXCEPT !.predicates = IF negate THEN @ \ {key} ELSE @ \union {key}]

(* PREDICATE.  The expert refuses what it finds not valid.                 *)
EvaluatePredicate(n, st, apply, expert, negate) ==
  IF ~ apply THEN Result(TRUE, negate # (Key(n) \in st.predicates), 0, st)
  ELSE IF expert /\ (negate \/ Key(n) \notin st.predicates) /\ ~ isValidPredicate(n, st.instances)
       THEN Result(FALSE, ~ negate, 0, st)
       ELSE Result(TRUE, ~ negate, 0, Applied(st, Key(n), negate))

EvaluateFunction(n, st) ==
  IF Key(n) \in DOMAIN st.functions THEN Result(TRUE, FALSE, st.functions[Key(n)], st)
  ELSE Result(FALSE, FALSE, 0, st)

Compare(op, x, y) ==
  \/ op = ">=" /\ x >= y
  \/ op = ">" /\ x > y
  \/ op = "<=" /\ x <= y
  \/ op = "<" /\ x < y
  \/ op = "=" /\ x = y

(* Doubles are taken as integers; a division is only made when it is exact.*)
Calculate(op, x, y) ==
  CASE op \in {"*", "scale-up"} -> x * y
    [] op \in {"/", "scale-down"} -> x \div y
    [] op \in {"+", "increase"} -> x + y
    [] op \in {"-", "decrease"} -> x - y
    [] OTHER -> y

DividesByZero(op, y) == op \in {"/", "scale-down"} /\ y = 0

EvaluateExpression(op, left, right) ==
  IF ~ left.success \/ ~ right.success \/ DividesByZero(op, right.number)
  THEN Result(FALSE, FALSE, 0, right.st)
  ELSE IF op \in {">=", ">", "<=", "<", "="}
       THEN Result(TRUE, Compare(op, left.number, right.number), 0, right.st)
       ELSE Result(TRUE, FALSE, Calculate(op, left.number, right.number), right.st)

\* The function changed is the left part; updateFunction may refuse it.
EvaluateModifier(n, target, left, right, apply, expert) ==
  LET value == Calculate(n.name, left.number, right.number) IN
  IF ~ left.success \/ ~ right.success \/ DividesByZero(n.name, right.number)
  THEN Result(FALSE, FALSE, 0, right.st)
  ELSE Result(TRUE, FALSE, value,
              IF ~ apply \/ (expert /\ ~ isValidFunction(target, right.st.instances)) THEN right.st
              ELSE [right.st EXCEPT !.functions[Key(target)] = value])

(* FOR_ALL: the instances of the type replace every parameter of that type *)
(* in the first predicate below.  Given vectors come with a new expert,    *)
(* which has no instances.                                                 *)
RECURSIVE FirstPredicate(_, _)
FirstPredicate(tree, id) ==
  IF At(tree, id).type = "PREDICATE" THEN id ELSE FirstPredicate(tree, At(tree, id).children[1])
Grounded(tree, id, type, o) ==
  LET p == FirstPredicate(tree, id) IN
  [tree EXCEPT ![p + 1].args = [i \in DOMAIN @ |->
     IF type \in PredicateTypes[tree[p + 1].name][i] THEN o ELSE @[i]]]

\* Mutant: the instances are not told apart by their types.
InstancesOfAny(st, expert, type) == IF expert THEN SetToSeq(DOMAIN st.instances) ELSE <<>>

InstancesOf(st, expert, type) ==
  IF expert THEN SetToSeq({o \in DOMAIN st.instances : st.instances[o] = type}) ELSE <<>>

\* Mutant: nothing is carried out after a part has failed.
BothStops(acc, r) == IF acc.success THEN Result(r.success, acc.truth /\ r.truth, 0, r.st) ELSE acc

\* Mutant: the parts are taken from the last to the first.
PartsFromLast(n) == [i \in DOMAIN n.children |-> Len(n.children) - i + 1]

\* The loop over the children, by place.
PartsInOrder(n) == [i \in DOMAIN n.children |-> i]

(* AND, OR: the parts are all evaluated, whatever the ones before gave.    *)
Both(acc, r) == Result(acc.success /\ r.success, acc.truth /\ r.truth, 0, r.st)
Some(acc, r) == Result(acc.success /\ r.success, acc.truth \/ r.truth, 0, r.st)

RECURSIVE EvaluateAt(_, _, _, _, _, _)
EvaluateAt(tree, st, apply, expert, at, negate) ==
  LET id == at % IdRange
      n == At(tree, id)
      part(i, s) == EvaluateAt(tree, s, apply, expert, n.children[i], negate)
      all(acc, i) == Both(acc, part(i, acc.st))
      any(acc, i) == Some(acc, part(i, acc.st))
      inst(acc, o) == Both(acc, EvaluateAt(Grounded(tree, n.children[1], n.name, o), acc.st, apply,
                                           expert, n.children[1], negate))
  IN  CASE n.type = "AND" -> FoldLeft(all, Result(TRUE, TRUE, 0, st), PartsInOrder(n))
        [] n.type = "OR" -> FoldLeft(any, Result(TRUE, FALSE, 0, st), PartsInOrder(n))
        [] n.type = "NOT" -> EvaluateAt(tree, st, apply, expert, n.children[1], ~ negate)
        [] n.type = "FOR_ALL" -> FoldLeft(inst, Result(TRUE, TRUE, 0, st), InstancesOf(st, expert, n.name))
        [] n.type = "PREDICATE" -> EvaluatePredicate(n, st, apply, expert, negate)
        [] n.type = "FUNCTION" -> EvaluateFunction(n, st)
        [] n.type = "EXPRESSION" -> EvaluateExpression(n.name, part(1, st), part(2, st))
        [] n.type = "FUNCTION_MODIFIER" ->
             EvaluateModifier(n, At(tree, n.children[1]), part(1, st), part(2, st), apply, expert)
        [] n.type = "NUMBER" -> Result(TRUE, TRUE, n.value, st)
        [] OTHER -> Result(FALSE, FALSE, 0, st)

evaluate(tree, st, apply, expert) ==
  IF tree = <<>> THEN Result(TRUE, TRUE, 0, st) ELSE EvaluateAt(tree, st, apply, expert, 0, FALSE)
-----------------------------------------------------------------------------
Init ==
  /\ state \in States /\ before = state /\ term = And(<<>>)
  /\ success = TRUE /\ truth = TRUE /\ mode = "none" /\ calls = 0

(* An id cut to its width may be that of a node the walk is in: then the   *)
(* recursion has no end.                                                   *)
RECURSIVE Returns(_, _, _)
Returns(tree, at, path) ==
  LET id == at % IdRange
      n == At(tree, id)
  IN  id \notin path /\ \A i \in DOMAIN n.children : Returns(tree, n.children[i], path \union {id})

Call(t, apply, expert) ==
  LET r == evaluate(Nodes(t), state, apply, expert) IN
  /\ calls < MaxCalls /\ calls' = calls + 1
  /\ Nodes(t) = <<>> \/ Returns(Nodes(t), 0, {})
  /\ term' = t /\ before' = state
  /\ state' = r.st /\ success' = r.success /\ truth' = r.truth

Overflow(t) ==
  /\ calls < MaxCalls /\ calls' = MaxCalls
  /\ ~ Returns(Nodes(t), 0, {})
  /\ term' = t /\ mode' = "overflow"
  /\ UNCHANGED <<state, before, success, truth>>

\* The two check functions and the two apply functions.
check(t, expert) == Call(t, FALSE, expert) /\ mode' = IF expert THEN "check" ELSE "check_state"
apply(t, expert) == Call(t, TRUE, expert) /\ mode' = IF expert THEN "apply" ELSE "apply_state"

Next ==
  \E t \in Terms :
    \/ \E expert \in BOOLEAN : check(t, expert) \/ apply(t, expert)
    \/ Overflow(t)

Spec == Init /\ [][Next]_vars
-----------------------------------------------------------------------------
(* What an expression means in a state.                                    *)
RECURSIVE NumberOf(_, _), Meaning(_, _), Defined(_, _)
NumberOf(t, st) ==
  IF t.type = "NUMBER" THEN t.value
  ELSE IF t.type = "FUNCTION" THEN st.functions[Key(t)]
  ELSE Calculate(t.name, NumberOf(t.parts[1], st), NumberOf(t.parts[2], st))
Defined(t, st) ==
  /\ t.type = "FUNCTION" => Key(t) \in DOMAIN st.functions
  /\ \A i \in DOMAIN t.parts : Defined(t.parts[i], st)
  /\ t.type = "EXPRESSION" => ~ DividesByZero(t.name, NumberOf(t.parts[2], st))
\* A parameter "?" is what the quantifier ranges over.
RECURSIVE Instance(_, _)
Instance(t, o) == [t EXCEPT !.args = [i \in DOMAIN @ |-> IF @[i] = "?" THEN o ELSE @[i]],
                            !.parts = [i \in DOMAIN @ |-> Instance(@[i], o)]]
Meaning(t, st) ==
  CASE t.type = "AND" -> \A i \in DOMAIN t.parts : Meaning(t.parts[i], st)
    [] t.type = "OR" -> \E i \in DOMAIN t.parts : Meaning(t.parts[i], st)
    [] t.type = "NOT" -> ~ Meaning(t.parts[1], st)
    [] t.type = "FOR_ALL" -> \A o \in DOMAIN st.instances :
                               st.instances[o] = t.name => Meaning(Instance(t.parts[1], o), st)
    [] t.type = "PREDICATE" -> Key(t) \in st.predicates
    [] OTHER -> Compare(t.name, NumberOf(t.parts[1], st), NumberOf(t.parts[2], st))

RECURSIVE Types(_), Negated(_)
Types(t) == {t.type} \union UNION {Types(t.parts[i]) : i \in DOMAIN t.parts}
Negated(t) == (IF t.type = "NOT" THEN Types(t.parts[1]) ELSE {})
                \union UNION {Negated(t.parts[i]) : i \in DOMAIN t.parts}
IsCondition(t) == Types(t) \intersect {"FUNCTION_MODIFIER", "UNKNOWN", "ONE_OF"} = {} /\ t.type # "FUNCTION"
IsEffect(t) == Types(t) \subseteq {"AND", "NOT", "PREDICATE", "FUNCTION_MODIFIER", "FUNCTION",
                                   "NUMBER", "FOR_ALL"}
SmallEnough(t) == Len(Nodes(t)) <= IdRange

Checked == mode \in {"check", "check_state"} /\ IsCondition(term) /\ SmallEnough(term) /\ Defined(term, before)

(* check answers whether the condition holds, when only facts are negated  *)
(* and quantifiers are asked of the expert.                                *)
CheckIsTruth ==
  Checked /\ Negated(term) \subseteq {"PREDICATE"} /\ (mode = "check" \/ "FOR_ALL" \notin Types(term))
    => truth = Meaning(term, before) /\ success /\ state = before

-----------------------------------------------------------------------------
RECURSIVE Literals(_, _, _)
Literals(t, st, negate) ==
  CASE t.type = "PREDICATE" -> {<<Key(t), ~ negate>>}
    [] t.type = "NOT" -> Literals(t.parts[1], st, ~ negate)
    [] t.type = "AND" -> UNION {Literals(t.parts[i], st, negate) : i \in DOMAIN t.parts}
    [] t.type = "FOR_ALL" -> UNION {Literals(Instance(t.parts[1], o), st, negate) :
                                      o \in {x \in DOMAIN st.instances : st.instances[x] = t.name}}
    [] OTHER -> {}
Added(t, st) == {l[1] : l \in {x \in Literals(t, st, FALSE) : x[2]}}
Deleted(t, st) == {l[1] : l \in {x \in Literals(t, st, FALSE) : ~ x[2]}}

AppliedEffect == mode \in {"apply", "apply_state"} /\ IsEffect(term) /\ SmallEnough(term)
                   /\ (mode = "apply" \/ "FOR_ALL" \notin Types(term))

(* An effect leaves the facts as its literals say, in whatever order the   *)
(* tree lists them, and the others as they were.  One part that fails does *)
(* not keep the others from being carried out: what is not as its literal  *)
(* says is what the expert refused.                                        *)
FailsInPart ==
  AppliedEffect /\ Added(term, before) \intersect Deleted(term, before) = {} =>
    /\ \A l \in Literals(term, before, FALSE) :
         (l[1] \in state.predicates) = l[2]
           \/ (~ success /\ mode = "apply" /\ ~ isValidPredicate(Predicate(l[1][1], l[1][2]), before.instances))
    /\ state.predicates \subseteq before.predicates \union Added(term, before)
    /\ before.predicates \ state.predicates \subseteq Deleted(term, before)

(* Parts of a tree see what the parts before them have changed: a value is *)
(* the one of the modifiers carried out one after the other, without those *)
(* that fail or that the expert refuses.                                   *)
Changes(m, st) ==
  /\ Defined(m.parts[1], st) /\ Defined(m.parts[2], st)
  /\ ~ DividesByZero(m.name, NumberOf(m.parts[2], st))
  /\ mode = "apply" => isValidFunction(m.parts[1], st.instances)
RECURSIVE Assigned(_, _)
Assigned(t, st) ==
  LET next(s, p) == Assigned(p, s) IN
  IF t.type = "AND" THEN FoldLeft(next, st, t.parts)
  ELSE IF t.type = "FUNCTION_MODIFIER" /\ Changes(t, st)
       THEN [st EXCEPT !.functions[Key(t.parts[1])] =
               Calculate(t.name, NumberOf(t.parts[1], st), NumberOf(t.parts[2], st))]
  ELSE st
AssignsInOrder == AppliedEffect => state.functions = Assigned(term, before).functions
=============================================================================
