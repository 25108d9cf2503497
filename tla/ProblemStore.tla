---------------------------- MODULE ProblemStore ----------------------------
(***************************************************************************)
(* What ProblemExpert keeps besides beliefs: instances, facts, values,     *)
(* conditionals and the goal, under the calls that maintain them, and the  *)
(* problem as text: getProblem writes it, addProblem reads it.             *)
(*                                                                         *)
(* Every operator on a store returns the new store and the bool of the     *)
(* call.  Names keep one letter case; of a text only what a reader of it   *)
(* can tell is kept.                                                       *)
(***************************************************************************)
EXTENDS ConditionTrees, FiniteSets, TLC

CONSTANTS ValidTypes,       \* the types of the domain
          DomainConstants,  \* sequence of [name, type]
          Candidates,       \* the instances callers use
          Facts, Values, Levels, Conditions, Goals, Problems,
          MaxConditions     \* bound on the conditionals kept at once

ASSUME PlainTypes == \* no subtypes here: an argument has one type
  \A table \in {PredicateTypes, FunctionTypes} : \A n \in DOMAIN table :
    \A i \in DOMAIN table[n] : Cardinality(table[n][i]) = 1

VARIABLES store,    \* [instances, predicates, functions, conditionals, goal]
          called,   \* the last call and its argument, where a property needs them
          answer,   \* what it returned
          exited,   \* the process has ended in TypeGround::insert
          removed   \* names of instances removed since the store was cleared
vars == <<store, called, answer, exited, removed>>

Empty == [instances |-> <<>>, predicates |-> {}, functions |-> <<>>, conditionals |-> {}, goal |-> <<>>]
Result(s, ok) == [store |-> s, ok |-> ok]
FunctionUpdate(f, k, v) == (k :> v) @@ f
Without(f, keys) == [k \in DOMAIN f \ keys |-> f[k]]
Key(n) == <<n.name, n.args>>
Mentions(key, name) == \E i \in DOMAIN key[2] : key[2][i] = name

\* The instances as a function of their names, for the checks of types.
Types(s) == [n \in {i.name : i \in ToSet(s.instances)} |->
               (CHOOSE i \in ToSet(s.instances) : i.name = n).type]
-----------------------------------------------------------------------------
addInstance(s, i) ==
  LET known == Types(s) IN
  IF i.type \notin ValidTypes \/ (i.name \in DOMAIN known /\ known[i.name] # i.type)
    THEN Result(s, FALSE)
  ELSE IF i.name \in DOMAIN known THEN Result(s, TRUE)
  ELSE Result([s EXCEPT !.instances = Append(@, i)], TRUE)

addPredicate(s, f) ==
  IF Key(f) \in s.predicates THEN Result(s, TRUE)
  ELSE IF isValidPredicate(f, Types(s)) THEN Result([s EXCEPT !.predicates = @ \union {Key(f)}], TRUE)
  ELSE Result(s, FALSE)
removePredicate(s, f) ==
  IF isValidPredicate(f, Types(s)) THEN Result([s EXCEPT !.predicates = @ \ {Key(f)}], TRUE)
  ELSE Result(s, FALSE)

updateFunction(s, f, v) ==
  IF Key(f) \in DOMAIN s.functions /\ isValidFunction(f, Types(s))
    THEN Result([s EXCEPT !.functions = FunctionUpdate(@, Key(f), v)], TRUE)
  ELSE Result(s, FALSE)
addFunction(s, f, v) ==
  IF Key(f) \in DOMAIN s.functions THEN updateFunction(s, f, v)
  ELSE IF isValidFunction(f, Types(s))
    THEN Result([s EXCEPT !.functions = FunctionUpdate(@, Key(f), v)], TRUE)
  ELSE Result(s, FALSE)
removeFunction(s, f) ==
  IF isValidFunction(f, Types(s)) THEN Result([s EXCEPT !.functions = Without(@, {Key(f)})], TRUE)
  ELSE Result(s, FALSE)
-----------------------------------------------------------------------------
(* Conditionals are trees: unknown, oneof and or above facts.              *)
isValidCondition(s, c) == checkPredicateTreeTypes(c, Types(s))

\* Mutant: a condition about an instance that is not there is kept.
addConditionalUnchecked(s, c) ==
  IF c \in s.conditionals THEN Result(s, TRUE)
  ELSE Result([s EXCEPT !.conditionals = @ \union {c}], TRUE)

addConditional(s, c) ==
  IF c \in s.conditionals THEN Result(s, TRUE)
  ELSE IF ~ isValidCondition(s, c) THEN Result(s, FALSE)
  ELSE IF c[1].type = "ONE_OF" /\ Len(c[1].children) = 1
         THEN Result(addPredicate(s, c[2]).store, TRUE)
  ELSE Result([s EXCEPT !.conditionals = @ \union {c}], TRUE)

\* A oneof without a fact; the other facts stay in their order.
Reduced(c, fact) ==
  Nodes(OneOf([i \in DOMAIN SelectSeq(Tail(c), LAMBDA n : Key(n) # Key(fact)) |->
                 LET n == SelectSeq(Tail(c), LAMBDA m : Key(m) # Key(fact))[i]
                 IN  Predicate(n.name, n.args)]))

\* Mutant: a oneof that shrinks to nothing but one fact is dropped.
ReduceDropsPair(s, fact) ==
  LET all == {c \in s.conditionals : c[1].type = "ONE_OF"}
      oneofs == {c \in all : isValidCondition(s, c)}
      rest == [s EXCEPT !.conditionals = @ \ oneofs]
  IN  FoldSet(LAMBDA c, acc : addConditional(acc, c).store, rest,
              {r \in {Reduced(c, fact) : c \in all} : Len(r) > 2})

\* All oneofs are taken out and put back without the fact: removeConditional
\* and addConditional again, which refuse those that are no longer valid.
Reduce(s, fact) ==
  LET all == {c \in s.conditionals : c[1].type = "ONE_OF"}
      oneofs == {c \in all : isValidCondition(s, c)}
      rest == [s EXCEPT !.conditionals = @ \ oneofs]
  IN  FoldSet(LAMBDA c, acc : addConditional(acc, c).store, rest,
              {r \in {Reduced(c, fact) : c \in all} : Len(r) > 1})

removeConditional(s, c) ==
  IF ~ isValidCondition(s, c) THEN Result(s, FALSE)
  ELSE IF c \notin s.conditionals THEN Result(s, TRUE)
  ELSE LET rest == [s EXCEPT !.conditionals = @ \ {c}]
       IN  Result(IF c[1].type = "UNKNOWN" THEN Reduce(rest, c[2]) ELSE rest, TRUE)
-----------------------------------------------------------------------------
setGoal(s, g) ==
  IF checkPredicateTreeTypes(g, Types(s)) THEN Result([s EXCEPT !.goal = g], TRUE)
  ELSE Result(s, FALSE)

FactsOf(tree) == {p.fact : p \in ToSet(getPredicates(tree))} \union getFunctions(tree)

removeInvalidGoals(goal, name) ==
  LET keeps(part) == \A f \in FactsOf(part) : ~ Mentions(f, name)
  IN  IF getSubtrees(goal) = <<>> THEN goal
      ELSE fromSubtrees(SelectSeq(getSubtrees(goal), keeps), goal[1].type)

removeInstance(s, name) ==
  Result([s EXCEPT !.instances = SelectSeq(@, LAMBDA i : i.name # name),
                   !.predicates = {f \in @ : ~ Mentions(f, name)},
                   !.functions = Without(@, {f \in DOMAIN @ : Mentions(f, name)}),
                   !.goal = removeInvalidGoals(@, name)],
         name \in DOMAIN Types(s))
-----------------------------------------------------------------------------
(* getProblem.  Objects are the instances that are not constants of the    *)
(* domain.  An argument of a fact is looked up among the objects and       *)
(* constants of its type; insert ends the process when it is not there.    *)
Objects(s) == SelectSeq(s.instances, LAMBDA i : i \notin ToSet(DomainConstants))
TypedNames(s) == {<<i.name, i.type>> : i \in ToSet(s.instances) \union ToSet(DomainConstants)}
Inserts(s, key, table) ==
  \A i \in DOMAIN key[2] : \E t \in table[key[1]][i] : <<key[2][i], t>> \in TypedNames(s)

\* Mutant: the signs in an or clause are lost.
WrittenUnsigned(c) ==
  LET facts == getPredicates(c)
      kept == [i \in 1 .. (IF c[1].type = "UNKNOWN" THEN 1 ELSE IF c[1].type = "OR" THEN 2 ELSE Len(facts))
                 |-> Predicate(facts[i].fact[1], facts[i].fact[2])]
  IN  Nodes(Term(c[1].type, "", <<>>, 0, kept))

\* The parts of a condition that addInitUnknown, addInitOneOf, addInitOr take.
Written(c) ==
  LET facts == getPredicates(c)
      part(p) == IF p.negate /\ c[1].type = "OR" THEN Not(Predicate(p.fact[1], p.fact[2]))
                 ELSE Predicate(p.fact[1], p.fact[2])
      kept == [i \in 1 .. (IF c[1].type = "UNKNOWN" THEN 1 ELSE IF c[1].type = "OR" THEN 2 ELSE Len(facts))
                 |-> part(facts[i])]
  IN  Nodes(Term(c[1].type, "", <<>>, 0, kept))

(* The goal is parsed again.  An argument that is no object of its type    *)
(* is looked up among all objects, and its place there taken as a place    *)
(* among those of the type; without a name at that place, "?" is printed.  *)
NoName == "?"
Place(s, name) == CHOOSE k \in DOMAIN Objects(s) : Objects(s)[k].name = name
GoalName(s, name, t) ==
  LET ofType == SelectSeq(Objects(s), LAMBDA i : i.type = t)
  IN  IF <<name, t>> \in TypedNames(s) THEN name
      ELSE IF Place(s, name) \in DOMAIN ofType THEN ofType[Place(s, name)].name
      ELSE NoName
ArgTypes(n) == IF n.type = "PREDICATE" THEN PredicateTypes[n.name] ELSE FunctionTypes[n.name]
TypeOf(n, i) == CHOOSE t \in ArgTypes(n)[i] : TRUE
GoalKnown(s) ==
  \A k \in DOMAIN s.goal : \A i \in DOMAIN s.goal[k].args :
    \/ <<s.goal[k].args[i], TypeOf(s.goal[k], i)>> \in TypedNames(s)
    \/ \E o \in ToSet(Objects(s)) : o.name = s.goal[k].args[i]
GoalText(s) ==
  IF s.goal = <<>> THEN Nodes(And(<<>>))
  ELSE [k \in DOMAIN s.goal |->
          [s.goal[k] EXCEPT !.args = [i \in DOMAIN @ |-> GoalName(s, @[i], TypeOf(s.goal[k], i))]]]

(* exit(1) for a fact and an exception nobody catches for a goal.          *)
Exits(s) ==
  \/ \E f \in s.predicates : ~ Inserts(s, f, PredicateTypes)
  \/ \E c \in s.conditionals : \E p \in ToSet(getPredicates(c)) : ~ Inserts(s, p.fact, PredicateTypes)
  \/ \E f \in DOMAIN s.functions : ~ Inserts(s, f, FunctionTypes)
  \/ ~ GoalKnown(s)

getProblem(s) ==
  [objects |-> Objects(s), predicates |-> s.predicates, functions |-> s.functions,
   conditionals |-> {Written(c) : c \in s.conditionals}, goal |-> GoalText(s)]
-----------------------------------------------------------------------------
(* addProblem.  parse throws before anything is stored when a fact has an  *)
(* argument that is no object of its type, or the goal a name no object    *)
(* has; after that every part is added on its own and the result is true.  *)
ParsedNames(text) == {<<i.name, i.type>> : i \in ToSet(text.objects) \union ToSet(DomainConstants)}
Fitting(text, key, table) ==
  \A i \in DOMAIN key[2] : \E t \in table[key[1]][i] : <<key[2][i], t>> \in ParsedNames(text)
Parses(text) ==
  /\ \A f \in text.predicates : Fitting(text, f, PredicateTypes)
  /\ \A f \in DOMAIN text.functions : Fitting(text, f, FunctionTypes)
  /\ \A c \in text.conditionals : \A p \in ToSet(getPredicates(c)) : Fitting(text, p.fact, PredicateTypes)
  /\ \A k \in DOMAIN text.goal : \A i \in DOMAIN text.goal[k].args :
       <<text.goal[k].args[i], TypeOf(text.goal[k], i)>> \in ParsedNames(text)

addProblem(s, text) ==
  IF ~ Parses(text) THEN Result(s, FALSE)
  ELSE LET Named(key) == Predicate(key[1], key[2])
           s1 == FoldLeft(LAMBDA acc, i : addInstance(acc, i).store, s, DomainConstants \o text.objects)
           s2 == FoldSet(LAMBDA f, acc : addPredicate(acc, Named(f)).store, s1, text.predicates)
           s3 == FoldSet(LAMBDA f, acc : addFunction(acc, Function(f[1], f[2]), text.functions[f]).store,
                         s2, DOMAIN text.functions)
           s4 == FoldSet(LAMBDA c, acc : addConditional(acc, c).store, s3, text.conditionals)
       IN  Result(setGoal(s4, text.goal).store, TRUE)
-----------------------------------------------------------------------------
Other == <<"other">>  \* a call no property looks at
Init == /\ store = Empty
        /\ called = Other
        /\ answer = TRUE
        /\ exited = FALSE
        /\ removed = {}

Returns(call, r) == /\ ~ exited
                    /\ store' = r.store
                    /\ answer' = r.ok
                    /\ called' = call
                    /\ UNCHANGED exited
Keeps(call, r) == Returns(call, r) /\ UNCHANGED removed

AddInstance(i) == Keeps(Other, addInstance(store, i))
RemoveInstance(name) == /\ Returns(<<"removeInstance", name>>, removeInstance(store, name))
                        /\ removed' = removed \union ({name} \intersect DOMAIN Types(store))
AddPredicate(f) == Keeps(Other, addPredicate(store, f))
RemovePredicate(f) == Keeps(Other, removePredicate(store, f))
AddFunction(f, v) == Keeps(Other, addFunction(store, f, v))
UpdateFunction(f, v) == Keeps(Other, updateFunction(store, f, v))
RemoveFunction(f) == Keeps(Other, removeFunction(store, f))
AddConditional(c) == /\ c \in store.conditionals \/ Cardinality(store.conditionals) < MaxConditions
                     /\ Keeps(Other, addConditional(store, c))
RemoveConditional(c) == Keeps(<<"removeConditional", c>>, removeConditional(store, c))
SetGoal(g) == Keeps(Other, setGoal(store, g))
ClearGoal == Keeps(Other, Result([store EXCEPT !.goal = <<>>], TRUE))
ClearKnowledge == Returns(Other, Result(Empty, TRUE)) /\ removed' = {}
AddProblem(p) == /\ Cardinality(store.conditionals \union p.conditionals) <= MaxConditions
                 /\ Keeps(Other, addProblem(store, p))
\* What the drivers do with a problem: written for the planner.
GetProblem == /\ ~ exited
              /\ exited' = Exits(store)
              /\ called' = Other
              /\ answer' = ~ Exits(store)
              /\ UNCHANGED <<store, removed>>

Next == \/ \E i \in Candidates : AddInstance(i) \/ RemoveInstance(i.name)
        \/ \E f \in Facts : AddPredicate(f) \/ RemovePredicate(f)
        \/ \E f \in Values : RemoveFunction(f) \/ (\E v \in Levels : AddFunction(f, v) \/ UpdateFunction(f, v))
        \/ \E c \in Conditions : AddConditional(c) \/ RemoveConditional(c)
        \/ \E g \in Goals : SetGoal(g)
        \/ ClearGoal \/ ClearKnowledge \/ GetProblem
        \/ \E p \in Problems : AddProblem(p)
        \/ exited /\ UNCHANGED vars
Spec == Init /\ [][Next]_vars
-----------------------------------------------------------------------------
\* Only conditionals and goals about an instance that was removed can be
\* stale, so getProblem ends the process only then.
ExitsOnlyOnStale ==
  exited => removed # {} /\ \/ \E c \in store.conditionals : \E p \in ToSet(getPredicates(c)) :
                                 \E n \in removed : Mentions(p.fact, n)
                            \/ \E k \in DOMAIN store.goal : \E n \in removed : n \in ToSet(store.goal[k].args)

\* The store an empty expert gets from the text of this one: the same but
\* for the constants of the domain, which are always added, the or clauses,
\* cut after two facts, and the empty goal, now an empty conjunction.
Sound(s) == /\ \A c \in s.conditionals : isValidCondition(s, c)
            /\ s.goal = <<>> \/ checkPredicateTreeTypes(s.goal, Types(s))
CutOrs(conditionals) ==
  {IF c[1].type = "OR" THEN Nodes(Or([i \in 1..2 |-> TermAt(c, c[1].children[i])])) ELSE c : c \in conditionals}
ReloadsSame ==
  Sound(store) =>
    LET text == getProblem(store)
        loaded == addProblem(Empty, text)
    IN  /\ ~ Exits(store) /\ loaded.ok
        /\ ToSet(loaded.store.instances) = ToSet(store.instances) \union ToSet(DomainConstants)
        /\ loaded.store.predicates = store.predicates
        /\ loaded.store.functions = store.functions
        /\ loaded.store.conditionals = CutOrs(store.conditionals)
        /\ loaded.store.goal = (IF store.goal = <<>> THEN Nodes(And(<<>>)) ELSE store.goal)

\* Once an unknown fact is taken back, no oneof that still fits mentions it,
\* and the partner of a pair has become a fact.
Settles(fact, before, after) ==
  /\ \A c \in after.conditionals :
       c[1].type = "ONE_OF" /\ isValidCondition(after, c) => \A k \in 2..Len(c) : Key(c[k]) # Key(fact)
  /\ \A c \in before.conditionals :
       /\ c[1].type = "ONE_OF" /\ isValidCondition(before, c) /\ Len(c) = 3
       /\ \E k \in 2..3 : Key(c[k]) = Key(fact)
       => \E k \in 2..3 : Key(c[k]) # Key(fact) /\ Key(c[k]) \in after.predicates
UnknownTakenBack ==
  [][ called'[1] = "removeConditional" /\ answer' =>
        LET c == called'[2] IN
        c[1].type = "UNKNOWN" /\ c \in store.conditionals => Settles(c[2], store, store') ]_vars
=============================================================================
