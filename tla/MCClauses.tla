------------------------------ MODULE MCClauses ------------------------------
(***************************************************************************)
(* What Contingent-FF knows along a path of its search and how it infers   *)
(* it, one of three layers in each part of the run; the others rest.       *)
(*                                                                         *)
(* Solver (DavisPutnam): clause databases over three variables, with       *)
(* pairs of clauses of two or three literals, units and contradictions.    *)
(*                                                                         *)
(* Store (ClauseBase): three timed facts and three clauses over them, one  *)
(* a unit clause.                                                          *)
(*                                                                         *)
(* Beliefs (NondetStagnation on BeliefTransition): tasks with exclusive,   *)
(* clashing, chance and jointly impossible conditions, and tasks whose     *)
(* operators undo or repeat each other, or leave to chance whether a fact  *)
(* is added or deleted; nx is the twin of x, g and u have none.            *)
(***************************************************************************)
EXTENDS DavisPutnam, ClauseBase, TLC

CONSTANTS Problems, Twin(_), IsCNF(_), NoTwin, MaxPlanLength, Stagnating,  \* NondetStagnation
          ShortProblems, ShortLength   \* bound on the paths of some problems

VARIABLES part, problem, path, hist, attempt, state_pc, cut
believing == <<problem, path, hist, attempt, state_pc, cut>>

S == INSTANCE NondetStagnation WITH pc <- state_pc

SolverRests ==
  /\ clauses = {} /\ decision_stack = <<>> /\ lassigned = [v \in Codes |-> Open]
  /\ frames = <<>> /\ idx = 1 /\ todo = {} /\ pc = "rest" /\ sat = FALSE /\ asked = <<>> /\ calls = 0
StoreRests ==
  /\ gclauses = <<>> /\ gcodes = [x \in TimedFacts |-> -1] /\ gcf_gct = [v \in CodeRange |-> "none"]
  /\ lists = [v \in CodeRange |-> [sign \in Signs |-> Unallocated]] /\ gnum_c = 0
  /\ gnum_fixed_c = 0 /\ gnum_fixed_clauses = 0 /\ tests = 0 /\ saved = <<>> /\ base_pc = "rest"
BeliefsRest ==
  /\ problem = <<>> /\ path = <<>> /\ hist = {} /\ attempt = "none" /\ state_pc = "rest" /\ cut = "no"

AnyInit ==
  \/ part = "solver" /\ Init /\ StoreRests /\ BeliefsRest
  \/ part = "store" /\ SolverRests /\ BaseInit /\ BeliefsRest
  \/ part = "beliefs" /\ SolverRests /\ StoreRests /\ S!StagnationInit

AnyNext ==
  \/ part = "solver" /\ Next /\ UNCHANGED <<part, base_vars, believing>>
  \/ part = "store" /\ BaseNext /\ UNCHANGED <<part, vars, believing>>
  \/ part = "beliefs" /\ (problem \in ShortProblems => cut # "no" \/ Len(path) <= ShortLength)
       /\ S!StagnationNext /\ UNCHANGED <<part, vars, base_vars>>

AnySpec == AnyInit /\ [][AnyNext]_<<part, vars, base_vars, believing>>

\* The planner knows what can be known and nothing else.
BeliefExact == part = "beliefs" => S!BeliefExact

\* A state is cut only if an earlier one is as good, and mostly if there is.
CutIsSafe == part = "beliefs" => S!CutIsSafe
------------------------------------------------------------------------------
Parity == {{s1 * 1, s2 * 2, s3 * 3} : s1 \in {1, -1}, s2 \in {1, -1}, s3 \in {1, -1}}
Equal == {{1, -2}, {2, -1}, {2, -3}, {3, -2}}
MCDatabases ==
  {{{1, 2}, {-1, 3}, c} : c \in {{-2, -3}, {-1, -2}, {2, -3}, {-1, -2, -3}}}
    \union {Equal, Equal \union {{1, 3}}, Equal \union {{1, 2}, {-1, -3}}, Parity, Parity \ {{1, 2, 3}},
            Parity \ {{-1, 2, -3}}, {}, {{1}, {-1, 2}}}
MCQueries == {<<1>>, <<-3>>, <<-2, -1>>, <<3, -1, 3>>, <<2, 2>>, <<1, 3, -1>>}

Pos(x) == [f |-> x, sign |-> "pos"]
Neg(x) == [f |-> x, sign |-> "neg"]
MCPool == {<<Pos("a0"), Neg("b0")>>, <<Neg("b0")>>, <<Neg("a0"), Pos("a1")>>}

TwinTable == [a |-> "na", na |-> "a", b |-> "nb", nb |-> "b", x |-> "nx", nx |-> "x",
              k |-> "none", g |-> "none", u |-> "none"]
MCTwin(f) == TwinTable[f]
MCIsCNF(f) == f \notin {"na", "nb", "nx"}
WithTwin(f) == {f, TwinTable[f]} \ {"none"}

May(C1, f, N) == [C |-> C1, A |-> {f}, D |-> {TwinTable[f]} \ {"none"}, N |-> N]
When(C1, f) == May(C1, f, {})
Set(f) == When({}, f)
Perhaps(f) == May({}, f, WithTwin(f))
Fade(f) == [C |-> {}, A |-> {}, D |-> {f}, N |-> {f}]   \* a fact without twin
Delete(f) == [C |-> {}, A |-> {}, D |-> {f}, N |-> {}]
Acts(effs) == [pre |-> {}, obs |-> {}, effs |-> effs]
Sense(f) == [pre |-> {}, obs |-> {f}, effs |-> {}]
Task(ops, F, U, cls, exact, equality) ==
  [ops |-> ops, F |-> F, U |-> U, clauses |-> cls, exact |-> exact, equality |-> equality,
   facts |-> F \union U \union UNION {UNION {e.A \union e.D \union e.C : e \in ops[o].effs} : o \in DOMAIN ops}]

FlipA  == {When({"a"}, "na"), When({"na"}, "a")}
CopyA  == {When({"a"}, "x"), When({"na"}, "nx")}
Is(f)  == [f |-> f, pos |-> TRUE]
Not(f) == [f |-> f, pos |-> FALSE]
Either == {{Is("a"), Is("b")}}
OneOf  == Either \union {{Not("a"), Not("b")}}
HiddenAB == {"a", "na", "b", "nb"}

\* One of a and b: k follows from either, and the two flips keep it.
EitherWay == Task("try" :> Acts({When({"a"}, "k"), When({"b"}, "k")})
                  @@ "flip" :> Acts(FlipA) @@ "sense" :> Sense("a"), {}, HiddenAB, OneOf, TRUE, FALSE)
\* A fact left to chance, and one that copies what is hidden.
Chance == Task("toss" :> Acts({Perhaps("x")}) @@ "sense" :> Sense("x") @@ "copy" :> Acts(CopyA)
               @@ "set" :> Acts({Set("a")}), {"nx"}, HiddenAB, OneOf, TRUE, TRUE)
\* Effects that do contradict each other unless a and b exclude each other.
Clash == Task("clash" :> Acts({When({"a"}, "x"), When({"b"}, "nx")}) @@ "sense" :> Sense("a")
              @@ "set" :> Acts({Set("a")}), {"nx"}, HiddenAB, Either, TRUE, FALSE)
\* An effect with two conditions that never hold together.
Jointly == Task("both" :> Acts({When({"a", "b"}, "x")}) @@ "sense" :> Sense("x") @@ "flip" :> Acts(FlipA),
                {"nx"}, HiddenAB, OneOf, FALSE, FALSE)
\* The same conditions, and the fact that is lost is known.
Losing == Task("lose" :> Acts({When({"a", "b"}, "nx")}), {"x"}, HiddenAB, OneOf, FALSE, FALSE)
\* Steps that toss x and do and undo something else as well.
Tosses == Task("on" :> Acts({Perhaps("x"), Set("g")}) @@ "up" :> Acts({Set("u")})
               @@ "down" :> Acts({Perhaps("b"), Delete("u")})
               @@ "reset" :> Acts({Perhaps("b"), Delete("u"), Set("nx")}) @@ "sense" :> Sense("x"),
               {"nx", "nb"}, {}, {}, TRUE, TRUE)
\* Chance together with what is hidden: a is tied to b, or free.
Hidden == Task("toss" :> Acts(FlipA \union {Perhaps("x")}) @@ "copy" :> Acts(CopyA)
               @@ "flip" :> Acts(FlipA) @@ "sense" :> Sense("a"), {"nx"}, HiddenAB, Either, TRUE, TRUE)
Free   == Task("flip" :> Acts(FlipA) @@ "toss" :> Acts({Perhaps("nx"), Set("g")}),
               {"x"}, {"a", "na"}, {}, TRUE, TRUE)
\* A fact without twin that chance may delete, known or tied to a.
Fading == Task("fade" :> Acts({Fade("u"), Set("g")}) @@ "back" :> Acts({Set("u"), Delete("g")})
               @@ "if" :> Acts({When({"a"}, "u")}) @@ "set" :> Acts({Set("a")}) @@ "sense" :> Sense("a"), {"u"}, {"a", "na"}, {}, TRUE, TRUE)
\* The same from where it does not hold.
Relit == Task("fade" :> Acts({Fade("u"), Delete("g")}) @@ "if" :> Acts({When({"a"}, "u"), Set("g")})
              @@ "flip" :> Acts(FlipA) @@ "sense" :> Sense("a"), {}, {"a", "na"}, {}, TRUE, TRUE)
\* It fades while others do and undo what is known, or are left to chance.
Faded == Task("fade" :> Acts({Fade("u")}) @@ "toss" :> Acts({Perhaps("x")}) @@ "sense" :> Sense("x")
              @@ "turn" :> Acts({Set("nx"), Fade("u")}) @@ "on" :> Acts({Set("g")})
              @@ "off" :> Acts({Delete("g"), Fade("u")}), {"u", "nx"}, {}, {}, TRUE, TRUE)
\* No chance; a fact may be lost for good.
Undone == Task("flip" :> Acts(FlipA) @@ "copy" :> Acts(CopyA) @@ "set" :> Acts({Set("x")})
               @@ "drop" :> Acts({Delete("g")}), {"nx", "g"}, HiddenAB, Either, TRUE, FALSE)
MCShortProblems == {EitherWay, Chance, Clash, Jointly, Losing, Hidden}
MCProblems == MCShortProblems \union {Tosses, Free, Undone, Fading, Relit, Faded}
==============================================================================
