------------------------------- MODULE MCSearch -------------------------------
(***************************************************************************)
(* Contingent-FF's search and the two heuristics that guide it, one in     *)
(* each part of the run; the others rest.                                  *)
(*                                                                         *)
(* Search (AndOrSearch): small tasks with hidden information; facts with a *)
(* twin are written x and not_x.                                           *)
(*                                                                         *)
(* Facts (RelaxedFF, heuristic 3): tasks with a fact that is left over     *)
(* from a failed call, with two ways to a goal, with effects that imply    *)
(* each other, and with observations.                                      *)
(*                                                                         *)
(* Worlds (RelaxedBelief, heuristic 2): tasks made of a few operators over *)
(* two unknown facts and their twins, whose values can be observed, or be  *)
(* told from another fact, or not be told at all.  The two heuristics have *)
(* tables of the same names, which they share here.                        *)
(***************************************************************************)
EXTENDS AndOrSearch

CONSTANTS FactTasks, MaxCalls, MaxLevel,                              \* RelaxedFF
          Ending,                                                       \* problems of EverySearchEnds
          WorldTasks, BeliefsOf(_), Negation(_), IsCNF(_), RELAXED_STEPS   \* RelaxedBelief

VARIABLES part,
          task, time, inF, level, eflevel,
          state, calls, status, applicable, inE, active, changed,
          goals_at, is_true, is_goal, touched, in_plan, is_used, length, helpful,
          worlds, oplevel, observed_level, lU, plan, retval
tables == <<task, time, inF, level, eflevel>>
factTables == <<state, calls, applicable, inE, active, changed,
                goals_at, is_true, is_goal, touched, in_plan, is_used, length, helpful>>
worldTables == <<worlds, oplevel, observed_level, lU, plan, retval>>

F == INSTANCE RelaxedFF WITH Tasks <- FactTasks, S <- state, pc <- status, A <- applicable,
       h <- length, gH <- helpful
W == INSTANCE RelaxedBelief WITH Tasks <- WorldTasks

SearchRests ==
  /\ problem = <<>> /\ cmd = <<>> /\ nodes = <<>> /\ pc = "rest"
  /\ leaf = <<>> /\ todo = {} /\ up = <<>>
TablesRest == task = <<>> /\ status = "rest" /\ time = 0 /\ inF = {} /\ level = <<>> /\ eflevel = <<>>
FactsRest ==
  /\ state = <<>> /\ calls = 0 /\ applicable = {} /\ inE = {} /\ active = <<>> /\ changed = {}
  /\ goals_at = <<>> /\ is_true = <<>> /\ is_goal = {} /\ touched = {} /\ in_plan = {}
  /\ is_used = <<>> /\ length = 0 /\ helpful = {}
WorldsRest ==
  /\ worlds = {} /\ oplevel = <<>> /\ observed_level = <<>> /\ lU = <<>> /\ plan = <<>> /\ retval = 0

AnyInit ==
  \/ part = "search" /\ Init /\ TablesRest /\ FactsRest /\ WorldsRest
  \/ part = "facts" /\ SearchRests /\ F!Init /\ WorldsRest
  \/ part = "worlds" /\ SearchRests /\ FactsRest /\ W!Init

SearchStep == part = "search" /\ Next /\ UNCHANGED <<part, status, tables, factTables, worldTables>>
AnyNext ==
  \/ SearchStep
  \/ part = "facts" /\ F!Next /\ UNCHANGED <<part, vars, worldTables>>
  \/ part = "worlds" /\ W!Next /\ UNCHANGED <<part, vars, factTables>>

all == <<part, status, vars, tables, factTables, worldTables>>

\* The searches that are followed to their end; the program is sequential
\* and goes on whenever it can.
Followed == part = "search" /\ problem \in Ending /\ cmd.mode = 1 /\ cmd.stagnating # 1
AnySpec == AnyInit /\ [][AnyNext]_all /\ WF_all(Followed /\ SearchStep)

\* Every search ends: with an answer, or at MAX_PLAN_LENGTH.
EverySearchEnds == Followed => SearchEnds

\* Heuristic 3 answers as from a fresh start.
RelaxedPlanRight == part = "facts" => F!RelaxedPlanRight

\* Heuristic 2 gives up only what no direct operators solve, and serves every world.
BeliefHeuristicRight == part = "worlds" => W!BeliefHeuristicRight
------------------------------------------------------------------------------
Always(A, D) == {Effect({}, A, D)}
Task(ops, ws, goal, equality) ==
  [ops |-> ops, worlds |-> ws, goal |-> goal, equality |-> equality]

SenseA == Operator({}, {"a"}, {})
UseA   == Operator({"a"}, {}, Always({"g"}, {}))
UseNotA == Operator({"not_a"}, {}, Always({"g"}, {}))
Flip   == Operator({}, {}, {Effect({"a"}, {"not_a"}, {"a"}), Effect({"not_a"}, {"a"}, {"not_a"})})
Worlds == {{"a"}, {"not_a"}}

\* Look, then act: the branches have one operator each, or one flips first.
LookAndAct == Task("sense" :> SenseA @@ "use" :> UseA @@ "useNot" :> UseNotA,
                   Worlds, {"g"}, FALSE)
LookAndFlip == Task("sense" :> SenseA @@ "use" :> UseA @@ "flip" :> Flip,
                    Worlds, {"g"}, TRUE)

\* Acting blindly costs as much as looking first.
BlindOrLook ==
  Task("sense" :> SenseA @@ "use" :> UseA @@ "useNot" :> UseNotA
       @@ "blind" :> Operator({}, {}, {Effect({"a"}, {"k"}, {}), Effect({"not_a"}, {"k"}, {})})
       @@ "finish" :> Operator({"k"}, {}, Always({"g"}, {})),
       Worlds, {"g"}, FALSE)

\* Nothing tells the worlds apart; a relaxed plan exists all the same.
Hidden == Task("use" :> UseA @@ "flip" :> Flip, Worlds, {"g"}, TRUE)

\* The light shows what cannot be seen, after a test that may switch it off.
Light ==
  Task("test" :> Operator({}, {}, {Effect({"a"}, {"not_lit"}, {"lit"})})
       @@ "look" :> Operator({}, {"lit"}, {})
       @@ "use" :> UseA @@ "useNot" :> UseNotA,
       {{"a", "lit"}, {"not_a", "lit"}}, {"g"}, FALSE)

\* A goal no relaxed plan reaches on one branch; an operator at odds with
\* itself in one world.
DeadEnd ==
  Task("sense" :> SenseA
       @@ "use" :> Operator({"a", "r"}, {}, Always({"g"}, {}))
       @@ "spoil" :> Operator({}, {}, Always({}, {"r"}) \union {Effect({"a"}, {"r"}, {})}),
       {{"a", "r"}, {"not_a", "r"}}, {"g"}, FALSE)

MCEnding == {LookAndFlip, Hidden, DeadEnd}
MCProblems == {LookAndAct, LookAndFlip, BlindOrLook, Hidden, Light, DeadEnd}

Cmd(alg, mode, giveup, stagnating) ==
  [alg |-> alg, mode |-> mode, giveup |-> giveup, cost |-> 3, stagnating |-> stagnating,
   weight |-> 1]

MCCommands ==
  {Cmd(alg, mode, FALSE, 2) : alg \in 0..1, mode \in 0..2}
    \union {Cmd(alg, 1, TRUE, 2) : alg \in 0..1} \union {Cmd(0, 1, FALSE, s) : s \in 0..1}

\* The number of steps after which every goal fact may be true, the unknown
\* taken to be as needed: admissible, and infinite only in dead ends.
StepsFrom(p, X) ==
  LET after[i \in 0..4] ==
        IF i = 0 THEN X
        ELSE after[i - 1] \union
             UNION {UNION {e.A : e \in {x \in o.effs : x.C \subseteq after[i - 1]}} :
                    o \in {p.ops[op] : op \in {x \in DOMAIN p.ops :
                                                 p.ops[x].pre \subseteq after[i - 1]}}}
  IN  IF ~(p.goal \subseteq after[4]) THEN INFINITY
      ELSE LET first == CHOOSE i \in 0..4 : /\ p.goal \subseteq after[i]
                                            /\ \A j \in 0..i - 1 : ~(p.goal \subseteq after[j])
           IN  IF first = 0 THEN 1 ELSE first

FactsIn(p) ==
  (UNION p.worlds) \union UNION {UNION {e.A : e \in p.ops[op].effs} : op \in DOMAIN p.ops}
Steps == [p \in MCProblems |-> [X \in SUBSET FactsIn(p) |-> StepsFrom(p, X)]]
MCH(p, S) == Steps[p][UNION {Now(h) : h \in S}]

\* What the theorem about the search assumes of a heuristic, of this one.
ASSUME StepsTyped == \A p \in MCProblems : \A X \in SUBSET FactsIn(p) : Steps[p][X] \in Nat \union {INFINITY}
------------------------------------------------------------------------------
Belief(K, U) == [F |-> K, U |-> U]
Known(K) == Belief(K, {})
Adding(pre, C, X) == Operator(pre, {}, {Effect(C, X, {})})
FactTask(ops, goal, beliefs, together) ==
  [ops |-> ops, goal |-> goal, beliefs |-> beliefs, together |-> together]

\* Both conditions are needed; a state has the one or the other.
Pair == FactTask("join" :> Adding({"a", "b"}, {}, {"g"}) @@ "get" :> Adding({"k"}, {}, {"b"})
             @@ "sure" :> Adding({}, {}, {"c"}),
             {"g", "c"}, {Known({"a"}), Known({"b"}), Known({"a", "k"}), Known({"a", "b"})}, {})
\* Two steps or a cheaper way; one operator with several effects.
Ways == FactTask("two" :> Operator({}, {}, {Effect({"p"}, {"q"}, {}), Effect({"p", "q"}, {"g"}, {}),
                                        Effect({"q"}, {"r"}, {"p"})})
             @@ "start" :> Adding({}, {}, {"p"}) @@ "short" :> Adding({"q"}, {"r"}, {"g"}),
             {"g", "r"}, {Known({}), Known({"q"}), Belief({"p"}, {"r"})}, {})
\* One fact is added on the way and needed in the same step.
SameStep == FactTask("one" :> Adding({"s"}, {}, {"x", "y"}) @@ "other" :> Adding({"x"}, {}, {"g1", "y2"})
                 @@ "third" :> Adding({"x"}, {"y"}, {"g2"}) @@ "fourth" :> Adding({"y2"}, {}, {"g3"}),
                 {"g1", "g2", "g3"}, {Known({"s"}), Known({"x"}), Known({"y2"})}, {})
\* A door that may be open, and ways to tell.
Doors == FactTask("go" :> Adding({"open"}, {}, {"g"}) @@ "look" :> Operator({}, {"open"}, {})
              @@ "listen" :> Operator({}, {"noise"}, {}) @@ "smell" :> Operator({}, {"smoke"}, {})
              @@ "push" :> Operator({}, {}, {Effect({"noise"}, {"g"}, {})}),
              {"g"}, {Belief({}, {"open", "noise"}), Known({"open"}), Belief({"smoke"}, {"g"})},
              {{"open", "noise"}})
MCFactTasks == {Pair, Ways, SameStep, Doors}
------------------------------------------------------------------------------
MCNegation(f) == CASE f = "p" -> "np" [] f = "np" -> "p" [] f = "q" -> "nq" [] f = "nq" -> "q"
                   [] OTHER -> "none"
MCIsCNF(f) == f \notin {"np", "nq"}
MCFacts == <<"p", "np", "q", "nq", "r", "g", "h">>

Eff(c, a, n, d) == [C |-> c, A |-> a, N |-> n, D |-> d]
Lib ==
  [senseP |-> [P |-> <<>>, O |-> {"p"}, E |-> <<>>],
   senseQ |-> [P |-> <<"r">>, O |-> {"q"}, E |-> <<>>],
   getR   |-> [P |-> <<>>, O |-> {}, E |-> <<Eff(<<>>, <<"r">>, {}, {})>>],
   ifP    |-> [P |-> <<"p">>, O |-> {}, E |-> <<Eff(<<>>, <<"g">>, {}, {})>>],
   ifNP   |-> [P |-> <<"np">>, O |-> {}, E |-> <<Eff(<<>>, <<"g">>, {}, {})>>],
   whenP  |-> [P |-> <<>>, O |-> {}, E |-> <<Eff(<<"p">>, <<"g">>, {}, {})>>],
   whenNQ |-> [P |-> <<"r">>, O |-> {}, E |-> <<Eff(<<"nq">>, <<"g">>, {}, {})>>],
   whenPQ |-> [P |-> <<>>, O |-> {}, E |-> <<Eff(<<"p", "q">>, <<"g">>, {}, {})>>],
   copyQ  |-> [P |-> <<>>, O |-> {}, E |-> <<Eff(<<"q">>, <<"p">>, {}, {"np"})>>],
   twoE   |-> [P |-> <<>>, O |-> {}, E |-> <<Eff(<<>>, <<"r">>, {}, {}), Eff(<<"np">>, <<"q">>, {}, {"nq"})>>],
   ifBoth |-> [P |-> <<"p", "q">>, O |-> {}, E |-> <<Eff(<<>>, <<"g">>, {}, {"p"})>>],
   mayQ   |-> [P |-> <<>>, O |-> {}, E |-> <<Eff(<<>>, <<"p", "q">>, {"q"}, {"np"})>>],
   setQ   |-> [P |-> <<>>, O |-> {}, E |-> <<Eff(<<>>, <<"q">>, {}, {"nq"})>>],
   senseR |-> [P |-> <<"p">>, O |-> {"q"}, E |-> <<>>],
   flipQ  |-> [P |-> <<>>, O |-> {}, E |-> <<Eff(<<>>, <<"q">>, {"q"}, {})>>]]

\* The operators in the order of their names here; the effects numbered through.
TaskFor(names, goal) ==
  LET ops == [i \in DOMAIN names |-> Lib[names[i]]]
      effs == FlattenSeq([i \in DOMAIN names |-> [j \in DOMAIN ops[i].E |->
                [op |-> i, C |-> ops[i].E[j].C, A |-> ops[i].E[j].A, N |-> ops[i].E[j].N, D |-> ops[i].E[j].D]]])
  IN  [facts |-> MCFacts, P |-> <<>> \o [i \in DOMAIN names |-> ops[i].P],
       O |-> <<>> \o [i \in DOMAIN names |-> ops[i].O], E |-> <<>> \o effs, goal |-> goal]
TaskOf(names) == TaskFor(names, {"g"})
Names == <<"senseP", "senseQ", "getR", "ifP", "ifNP", "whenP", "whenNQ", "whenPQ", "copyQ", "twoE", "ifBoth", "flipQ">>
MCWorlds == {{a, b} : a \in {"p", "np"}, b \in {"q", "nq"}}
MCBeliefsOf(t) == (SUBSET MCWorlds) \ {{}}
\* A goal that chance may bring along with another, and what is observed
\* only when something else was.
MCWorldTasks ==
  {t \in {TaskOf(SelectSeq(Names, LAMBDA n : n \in X)) : X \in UNION {kSubset(k, Range(Names)) : k \in 2..4}} :
     \E e \in DOMAIN t.E : "g" \in Range(t.E[e].A)}
    \union {TaskFor(<<"mayQ", "setQ">>, {"p", "q"}), TaskOf(<<"senseP", "senseR", "ifNP", "ifBoth", "whenNQ", "getR">>)}
===============================================================================
