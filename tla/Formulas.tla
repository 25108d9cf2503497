------------------------------ MODULE Formulas ------------------------------
(***************************************************************************)
(* Contingent-FF's formulas (WffNode) and normalize_all_wffs, one pass     *)
(* after the other, as done to a goal, a precondition or effect condition, *)
(* and an initial or clause; for a goal also what create_final_goal_state  *)
(* does with the result.                                                   *)
(*                                                                         *)
(* Nodes are rewritten in place in the code and values here; the order of  *)
(* the sons is not kept by the code and means nothing.  The flag visited   *)
(* only spares work.                                                       *)
(***************************************************************************)
EXTENDS Naturals, Sequences, FiniteSets, SequencesExt, TLC

CONSTANTS Constants,       \* type |-> sequence of its constants, one at least: a quantifier
                           \* whose variable is unused is dropped
          Added, Deleted, Unknown, \* predicates with such effects, or initially unknown facts
          InitialFacts,    \* the known facts, <<predicate, arguments>>
          Twin,            \* predicate |-> the predicate that stands for its negation
          Inputs           \* formulas to normalise, per use

VARIABLES use,    \* "goal", "condition" or "clause"
          input,  \* the formula that was parsed
          wff,    \* what it has become
          stage,
          reached \* facts of the goal found always or never true |-> TRU or FAL
vars == <<use, input, wff, stage, reached>>

TRU == [op |-> "TRU"]
FAL == [op |-> "FAL"]
ATOM(p, args) == [op |-> "ATOM", fact |-> <<p, args>>]
NOT(w) == [op |-> "NOT", son |-> w]
AND(ws) == [op |-> "AND", sons |-> <<>> \o ws]
OR(ws) == [op |-> "OR", sons |-> <<>> \o ws]
ALL(v, t, w) == [op |-> "ALL", var |-> v, type |-> t, son |-> w]
EX(v, t, w) == [op |-> "EX", var |-> v, type |-> t, son |-> w]

Node(op, sons) == [op |-> op, sons |-> <<>> \o sons] \* TLC evaluates what is appended once
IsList(w) == w.op \in {"AND", "OR"}
IsQuantified(w) == w.op \in {"ALL", "EX"}
Dual(op) == CASE op = "AND" -> "OR" [] op = "OR" -> "AND"
\* The constant that makes the node what it is, and the one it ignores.
Absorbing(op) == IF op = "AND" THEN FAL ELSE TRU
Neutral(op) == IF op = "AND" THEN TRU ELSE FAL

(* A pass over the sons of a node.                                         *)
Each(w, f(_)) == IF IsList(w) THEN Node(w.op, [i \in DOMAIN w.sons |-> f(w.sons[i])])
                 ELSE [w EXCEPT !.son = f(@)]
IsLeaf(w) == w.op \in {"ATOM", "TRU", "FAL"}
-----------------------------------------------------------------------------
AllConstants == UNION {ToSet(Constants[t]) : t \in DOMAIN Constants}
IsConstant(x) == x \in AllConstants
matches(f1, f2) ==
  f1[1] = f2[1] /\ \A i \in DOMAIN f1[2] :
    IsConstant(f1[2][i]) /\ IsConstant(f2[2][i]) => f1[2][i] = f2[2][i]

possibly_positive(f) == \/ f[1] \in Added \union Unknown
                        \/ \E g \in InitialFacts : matches(f, g)

\* Mutant: a fact with a variable is taken for true once one instance is.
possibly_negative_any(f) == \/ f[1] \in Deleted \union Unknown
                            \/ \A g \in InitialFacts : ~ matches(f, g)

possibly_negative(f) == \/ f[1] \in Deleted \union Unknown
                        \/ \E i \in DOMAIN f[2] : ~ IsConstant(f[2][i])
                        \/ \A g \in InitialFacts : ~ matches(f, g)

Decided(w) == IF ~ possibly_negative(w.fact) THEN TRU
              ELSE IF ~ possibly_positive(w.fact) THEN FAL ELSE w

RECURSIVE simplify_wff(_)
simplify_wff(w) ==
  IF w.op = "ATOM" THEN Decided(w)
  ELSE IF IsLeaf(w) THEN w
  ELSE LET r == Each(w, simplify_wff) IN
       IF IsList(w) THEN
         LET rest == SelectSeq(r.sons, LAMBDA s : s # Neutral(w.op))
         IN  IF Absorbing(w.op) \in ToSet(rest) THEN Absorbing(w.op)
             ELSE IF rest = <<>> THEN Neutral(w.op)
             ELSE IF Len(rest) = 1 THEN rest[1] ELSE Node(w.op, rest)
       ELSE IF r.son.op \notin {"TRU", "FAL"} THEN r
       ELSE IF w.op = "NOT" THEN (IF r.son = TRU THEN FAL ELSE TRU) ELSE r.son

RECURSIVE var_used_in_wff(_, _)
var_used_in_wff(v, w) ==
  IF w.op = "ATOM" THEN v \in ToSet(w.fact[2])
  ELSE IF IsLeaf(w) THEN FALSE
  ELSE IF IsList(w) THEN \E i \in DOMAIN w.sons : var_used_in_wff(v, w.sons[i])
  ELSE var_used_in_wff(v, w.son)

RECURSIVE remove_unused_vars_in_wff(_)
remove_unused_vars_in_wff(w) ==
  IF IsLeaf(w) THEN w
  ELSE LET r == Each(w, remove_unused_vars_in_wff)
       IN  IF IsQuantified(w) /\ ~ var_used_in_wff(w.var, r.son) THEN r.son ELSE r

\* expand_quantifiers_in_wff with a variable: a constant for it, and facts
\* that are now decided are replaced.
RECURSIVE Instance(_, _, _)
Instance(w, v, c) ==
  LET further(s) == Instance(s, v, c) IN
  IF w.op = "ATOM"
    THEN Decided(ATOM(w.fact[1], [i \in DOMAIN w.fact[2] |-> IF w.fact[2][i] = v THEN c ELSE w.fact[2][i]]))
  ELSE IF IsLeaf(w) THEN w ELSE Each(w, further)

RECURSIVE expand_quantifiers_in_wff(_)
expand_quantifiers_in_wff(w) ==
  IF IsLeaf(w) THEN w
  ELSE IF ~ IsQuantified(w) THEN Each(w, expand_quantifiers_in_wff)
  ELSE Node(IF w.op = "ALL" THEN "AND" ELSE "OR",
            [j \in DOMAIN Constants[w.type] |->
               expand_quantifiers_in_wff(Instance(w.son, w.var, Constants[w.type][j]))])

RECURSIVE NOTs_down_in_wff(_)
NOTs_down_in_wff(w) ==
  IF IsLeaf(w) THEN w
  ELSE IF IsList(w) THEN Each(w, NOTs_down_in_wff)
  ELSE IF w.son.op = "NOT" THEN NOTs_down_in_wff(w.son.son)
  ELSE IF IsList(w.son)
    THEN Node(Dual(w.son.op), [i \in DOMAIN w.son.sons |-> NOTs_down_in_wff(NOT(w.son.sons[i]))])
  ELSE w
-----------------------------------------------------------------------------
(* cleanup_wff.                                                            *)
Spliced(op, sons) == FlattenSeq([i \in DOMAIN sons |-> IF sons[i].op = op THEN sons[i].sons ELSE <<sons[i]>>])

RECURSIVE merge_ANDs_and_ORs_in_wff(_)
merge_ANDs_and_ORs_in_wff(w) ==
  IF IsLeaf(w) THEN w
  ELSE LET r == Each(w, merge_ANDs_and_ORs_in_wff)
       IN  IF IsList(w) THEN Node(w.op, Spliced(w.op, r.sons)) ELSE r

are_identical_ATOMs(x, y) == x.op = "ATOM" /\ y.op = "ATOM" /\ x.fact = y.fact
Contrary(x, y) == \/ x.op = "NOT" /\ are_identical_ATOMs(x.son, y)
                  \/ y.op = "NOT" /\ are_identical_ATOMs(x, y.son)

\* Atoms said before are dropped, a fact and its negation decide the node.
RECURSIVE detect_tautologies_in_wff(_)
detect_tautologies_in_wff(w) ==
  IF IsLeaf(w) THEN w
  ELSE LET r == Each(w, detect_tautologies_in_wff) IN
       IF ~ IsList(w) THEN r
       ELSE LET said(j) == \E i \in 1 .. j - 1 : are_identical_ATOMs(r.sons[i], r.sons[j])
                kept == SelectSeq([j \in DOMAIN r.sons |-> j], LAMBDA j : ~ said(j))
            IN  IF \E i, j \in DOMAIN r.sons : Contrary(r.sons[i], r.sons[j]) THEN Absorbing(w.op)
                ELSE Node(w.op, [k \in DOMAIN kept |-> r.sons[kept[k]]])

cleanup_wff(w) ==
  LET first == simplify_wff(detect_tautologies_in_wff(merge_ANDs_and_ORs_in_wff(w)))
  IN  merge_ANDs_and_ORs_in_wff(detect_tautologies_in_wff(first))

(* dnf: a conjunction above disjunctions becomes the disjunction of its    *)
(* hitting sets, one disjunct of each.                                     *)
HittingSets(sons) ==
  LET of(s) == IF s.op = "OR" THEN s.sons ELSE <<s>>
      extend(sets, s) == FlattenSeq([i \in DOMAIN sets |-> [j \in DOMAIN of(s) |-> Append(sets[i], of(s)[j])]])
  IN  FoldLeft(extend, << <<>> >>, sons)

RECURSIVE dnf(_)
dnf(w) ==
  IF ~ IsList(w) THEN w
  ELSE LET r == Each(w, dnf) IN
       IF w.op = "OR" \/ \A i \in DOMAIN r.sons : r.sons[i].op # "OR"
         THEN Node(w.op, Spliced(w.op, r.sons))
       ELSE LET sets == <<>> \o HittingSets(r.sons) IN OR([k \in DOMAIN sets |-> AND(sets[k])])

(* translate_negative_preconds gives each negated fact of a goal a         *)
(* predicate of its own.                                                   *)
RECURSIVE Positive(_)
Positive(w) == IF w.op = "NOT" THEN ATOM(Twin[w.son.fact[1]], w.son.fact[2])
               ELSE IF IsLeaf(w) THEN w ELSE Each(w, Positive)

RECURSIVE Parts(_)
Parts(w) == {w} \union (IF IsLeaf(w) THEN {}
                        ELSE IF IsList(w) THEN UNION {Parts(w.sons[i]) : i \in DOMAIN w.sons}
                        ELSE Parts(w.son))
-----------------------------------------------------------------------------
Init == /\ \E k \in DOMAIN Inputs : use = k /\ input \in Inputs[k]
        /\ wff = input
        /\ stage = "parsed"
        /\ reached = <<>>

Pass(from, to, next) == /\ stage = from
                        /\ \E w \in {next} : wff' = w
                        /\ stage' = to
                        /\ UNCHANGED <<use, input, reached>>
Simplify == Pass("parsed", "simplified", simplify_wff(wff))
RemoveUnused == Pass("simplified", "used", remove_unused_vars_in_wff(wff))
Expand == Pass("used", "expanded", expand_quantifiers_in_wff(wff))
NotsDown == Pass("expanded", "nots down", NOTs_down_in_wff(wff))
Cleanup == Pass("nots down", "clean", cleanup_wff(wff))

\* What normalize_all_wffs does next depends on the use.
KeepCondition == use = "condition" /\ Pass("clean", "normal", wff)
KeepClause == use = "clause" /\ wff.op \notin {"TRU", "ATOM", "NOT"} /\ Pass("clean", "normal", wff)
DropClause == use = "clause" /\ wff = TRU /\ Pass("clean", "dropped", wff)
RefuseClause == use = "clause" /\ wff.op \in {"ATOM", "NOT"} /\ Pass("clean", "exit: one fact", wff)
GoalTrue == use = "goal" /\ wff = TRU /\ Pass("clean", "exit: true", wff)
GoalFalse == use = "goal" /\ wff = FAL /\ Pass("clean", "exit: false", wff)
Dnf == use = "goal" /\ wff \notin {TRU, FAL} /\ Pass("clean", "dnf", dnf(wff))
CleanDnf == Pass("dnf", "normal goal", cleanup_wff(wff))

(* create_final_goal_state: the reachability analysis has found which facts *)
(* can still change.  set_relevants_in_wff knows lists and facts only.     *)
GoalFacts(w) == {s.fact : s \in {x \in Parts(w) : x.op = "ATOM"}}
Findings(w) == {<<>>} \union UNION {{f :> TRU, f :> FAL} : f \in GoalFacts(w)}
RECURSIVE set_relevants_in_wff(_, _)
set_relevants_in_wff(w, found) ==
  LET further(s) == set_relevants_in_wff(s, found) IN
  IF IsList(w) THEN Each(w, further) ELSE IF w.fact \in DOMAIN found THEN found[w.fact] ELSE w

Foreign(w) == \E s \in Parts(w) : s.op \notin {"AND", "OR", "ATOM"}
Translate == stage = "normal goal" /\ Pass("normal goal", "translated", Positive(wff))
SetRelevantsDebug == stage = "translated" /\ Foreign(wff) /\ Pass("translated", "won't get here", wff)
SetRelevants == /\ stage = "translated" /\ ~ Foreign(wff)
                /\ \E found \in Findings(wff) :
                     /\ \E w \in {cleanup_wff(set_relevants_in_wff(wff, found))} : wff' = w
                     /\ reached' = found
                /\ stage' = "final goal"
                /\ UNCHANGED <<use, input>>
FinalTrue == wff = TRU /\ Pass("final goal", "exit: true", wff)
FinalFalse == wff = FAL /\ Pass("final goal", "exit: false", wff)
FinalOr == wff.op = "OR" /\ Pass("final goal", "exit: disjunctive", wff)
FinalGoal == wff.op \in {"AND", "ATOM"} /\ Pass("final goal", "goal state", wff)

\* The formula is normalised, dropped or refused: each other one has a step.
Settled == /\ stage \in {"normal", "dropped", "exit: one fact", "exit: true", "exit: false",
                        "won't get here", "exit: disjunctive", "goal state"}
           /\ UNCHANGED vars

Next == \/ Simplify \/ RemoveUnused \/ Expand \/ NotsDown \/ Cleanup
        \/ KeepCondition \/ KeepClause \/ DropClause \/ RefuseClause
        \/ GoalTrue \/ GoalFalse \/ Dnf \/ CleanDnf
        \/ Translate \/ SetRelevants \/ SetRelevantsDebug
        \/ Settled \/ FinalTrue \/ FinalFalse \/ FinalOr \/ FinalGoal
Spec == Init /\ [][Next]_vars
-----------------------------------------------------------------------------
\* The truth of a formula in a world, a set of ground facts; what is always
\* or never true follows from the effects there are.
Ground(w, env) == <<w.fact[1], [i \in DOMAIN w.fact[2] |->
                                  IF w.fact[2][i] \in DOMAIN env THEN env[w.fact[2][i]] ELSE w.fact[2][i]]>>
RECURSIVE Truth(_, _, _)
Truth(w, env, world) ==
  CASE w.op = "TRU" -> TRUE
    [] w.op = "FAL" -> FALSE
    [] w.op = "ATOM" -> IF w.fact[1] \in DOMAIN Twin THEN Ground(w, env) \in world
                        ELSE \E n \in DOMAIN Twin : Twin[n] = w.fact[1] /\ <<n, w.fact[2]>> \notin world
    [] w.op = "NOT" -> ~ Truth(w.son, env, world)
    [] w.op = "AND" -> \A i \in DOMAIN w.sons : Truth(w.sons[i], env, world)
    [] w.op = "OR" -> \E i \in DOMAIN w.sons : Truth(w.sons[i], env, world)
    [] w.op = "ALL" -> \A c \in ToSet(Constants[w.type]) :
                         Truth(w.son, [x \in DOMAIN env \union {w.var} |-> IF x = w.var THEN c ELSE env[x]], world)
    [] w.op = "EX" -> \E c \in ToSet(Constants[w.type]) :
                        Truth(w.son, [x \in DOMAIN env \union {w.var} |-> IF x = w.var THEN c ELSE env[x]], world)

CONSTANT GroundFacts
Always == {f \in InitialFacts : f[1] \notin Deleted \union Unknown}
Never == {f \in GroundFacts \ InitialFacts : f[1] \notin Added \union Unknown}
Worlds == {world \in SUBSET GroundFacts :
             /\ Always \subseteq world /\ world \intersect Never = {}
             /\ \A f \in DOMAIN reached : Truth([op |-> "ATOM", fact |-> f], <<>>, world) = (reached[f] = TRU)}

\* No pass changes what a formula says of any world the effects can lead to.
MeaningKept == \A world \in Worlds : Truth(wff, <<>>, world) = Truth(input, <<>>, world)

\* What a pass relies on is done by the passes before it: no quantifier is
\* left when negations are moved, only facts are negated from then on, and
\* no list is directly below one of its kind when conditions are split.
ShapeFits ==
  LET parts == Parts(wff) IN
  /\ stage \notin {"parsed", "simplified", "used"} => \A w \in parts : ~ IsQuantified(w)
  /\ stage \notin {"parsed", "simplified", "used", "expanded"} =>
       \A w \in parts : w.op = "NOT" => w.son.op \in {"ATOM", "TRU", "FAL"}
  /\ stage \notin {"parsed", "simplified", "used", "expanded", "nots down", "dnf"} =>
       \A w \in parts : /\ w.op = "NOT" => w.son.op = "ATOM"
                        /\ IsList(w) => \A i \in DOMAIN w.sons : w.sons[i].op # w.op

\* The goal that is left is a fact or a conjunction of facts, each known to
\* be relevant; the test for a disjunction finds all that is not.
GoalIsConjunction ==
  stage = "goal state" =>
    \/ wff.op = "ATOM"
    \/ wff.op = "AND" /\ \A i \in DOMAIN wff.sons : wff.sons[i].op = "ATOM"

\* A formula is normalised as the rest of the planner needs it.
Normalises == MeaningKept /\ ShapeFits /\ GoalIsConjunction
=============================================================================
