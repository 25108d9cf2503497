----------------------------- MODULE MCFrontEnd -----------------------------
(***************************************************************************)
(* Contingent-FF's preprocessing, one of its three stages in each part of  *)
(* the run; the stages a part is not about rest.                           *)
(*                                                                         *)
(* Formulas: goals, conditions and clauses over p, which actions change,   *)
(* s, which they do not, and d, which they only delete; two constants.     *)
(*                                                                         *)
(* Instantiation: three rooms, two of them big; lit and warm never change  *)
(* and become types 3 and 4, conn never changes, at is added and deleted,  *)
(* u is unknown of one room.                                               *)
(*                                                                         *)
(* Connectivity: a robot in two rooms whose lamp may be lit, with a        *)
(* switch, a flaky one, a look and a dirty room; parts of it in each       *)
(* problem.                                                                *)
(***************************************************************************)
EXTENDS Instantiation

CONSTANTS Problems, Arguments, MaxPredicates, MaxRelevant,        \* Connectivity
          Constants, WffAdded, WffDeleted, WffUnknown, WffInitial, \* Formulas
          Twin, Inputs, GroundFacts

VARIABLES part,
          problem, now, translated, phase, pos, neg, relevant, reachable, operators, graph, belief,
          use, input, wff, pass, reached
connecting == <<problem, now, translated, phase, pos, neg, relevant, reachable, operators, graph, belief>>
normalising == <<use, input, wff, pass, reached>>

C == INSTANCE Connectivity WITH use <- relevant, templates <- reachable, actions <- operators, conn <- graph
N == INSTANCE Formulas WITH Added <- WffAdded, Deleted <- WffDeleted, Unknown <- WffUnknown,
       InitialFacts <- WffInitial, stage <- pass

FormulasRest == use = "goal" /\ input = F!TRU /\ wff = F!TRU /\ pass = "rest" /\ reached = <<>>
ConnectivityRests ==
  /\ problem = <<>> /\ now = <<>> /\ translated = {} /\ phase = "rest" /\ pos = {} /\ neg = {}
  /\ relevant = {} /\ reachable = <<>> /\ operators = <<>> /\ graph = <<>> /\ belief = {}
InstantiationRests ==
  /\ domain = <<>> /\ stage = "rest" /\ easy = <<>> /\ hard = <<>> /\ types = <<>>
  /\ intersected = <<>> /\ templates = {} /\ mixed = {} /\ actions = {}

AnyInit ==
  \/ part = "formulas" /\ N!Init /\ ConnectivityRests /\ InstantiationRests
  \/ part = "instantiation" /\ Init /\ FormulasRest /\ ConnectivityRests
  \/ part = "connectivity" /\ C!Init /\ FormulasRest /\ InstantiationRests

AnyNext ==
  \/ part = "formulas" /\ N!Next /\ UNCHANGED <<part, vars, connecting>>
  \/ part = "instantiation" /\ Next /\ UNCHANGED <<part, normalising, connecting>>
  \/ part = "connectivity" /\ C!Next /\ UNCHANGED <<part, vars, normalising>>

AnySpec == AnyInit /\ [][AnyNext]_<<part, vars, connecting, normalising>>

\* A formula is normalised as the rest of the planner needs it.
Normalises == N!Normalises

\* The graph the search works on is a faithful picture of the problem.
GraphFaithful == C!GraphFaithful

-----------------------------------------------------------------------------
MCTwin == [p |-> "not-p", s |-> "not-s", d |-> "not-d"]

MCConstants == "room" :> <<"a", "b">>
MCInitial == {<<"s", <<"a">>>>, <<"d", <<"a">>>>}
MCGroundFacts == {<<n, <<c>>>> : n \in {"p", "s", "d"}, c \in {"a", "b"}}

P(x) == F!ATOM("p", <<x>>)
S(x) == F!ATOM("s", <<x>>)
D(x) == F!ATOM("d", <<x>>)
Lists(A, B) == {f : f \in {F!AND(<<x, y>>) : x \in A, y \in B} \union {F!OR(<<x, y>>) : x \in A, y \in B}}
Literals == {P("a"), F!NOT(P("a")), P("b"), F!NOT(P("b"))}
Pairs == Lists(Literals \union {S("a"), S("b"), D("a")}, Literals)
Open == {P("x"), F!NOT(P("x")), S("x"), D("x"), P("b")}
Quantified == {q : q \in {F!ALL("x", "room", w) : w \in Lists(Open, Open) \union {P("b")}}
                         \union {F!EX("x", "room", w) : w \in Lists(Open, Open)}}
Deep == Lists({P("a"), F!NOT(P("b")), S("b")}, Pairs)
        \union Lists({F!AND(<<P("a"), F!NOT(P("b"))>>), F!OR(<<P("b"), S("a")>>), F!OR(<<F!NOT(P("a")), F!NOT(P("b"))>>)}, Pairs)
        \union {F!AND(<<F!NOT(P("a")), F!NOT(P("b")), F!OR(<<P("a"), P("b")>>)>>),
                F!OR(<<P("b"), F!AND(<<P("a"), F!OR(<<F!NOT(P("a")), S("b")>>)>>)>>)}
Conditions == Quantified \union {F!NOT(w) : w \in Deep \union Quantified} \union Lists({P("a")}, Quantified)
              \union {F!EX("x", "room", F!ALL("y", "room", F!OR(<<S("x"), F!AND(<<P("y"), F!NOT(S("x"))>>)>>)))}
MCInputs == "goal" :> (Literals \union Pairs \union Deep) @@ "condition" :> Conditions
            @@ "clause" :> {F!OR(<<x, y, z>>) : x \in Literals, y \in Literals, z \in {P("a"), F!NOT(P("b")), S("b")}}
-----------------------------------------------------------------------------
MCTypes == << <<"a", "b", "c">>, <<"a", "b">>, <<"b", "c">>, <<"a">> >>
MCTypeOf == "lit" :> 3 @@ "warm" :> 4
Binary(n, x, y) == <<n, <<x, y>>>>
Unary(n, x) == <<n, <<x>>>>
MCGroundInitial == {Binary("conn", "a", "b"), Binary("conn", "b", "a"), Binary("conn", "b", "c"), Binary("conn", "c", "c")}
                  \union {Unary("lit", "b"), Unary("lit", "c"), Unary("warm", "a")} \union {Unary("at", "a")}
                  \union {Unary("seen", "c")}
MCGroundUnknown == {Unary("u", "b")}
MCGroundable == {Unary(p, x) : p \in {"at", "seen"}, x \in {"a", "b", "c"}} \union MCGroundInitial \union MCGroundUnknown

at(x) == F!ATOM("at", <<x>>)
seen(x) == F!ATOM("seen", <<x>>)
lit(x) == F!ATOM("lit", <<x>>)
warm(x) == F!ATOM("warm", <<x>>)
u(x) == F!ATOM("u", <<x>>)
conn(x, y) == F!ATOM("conn", <<x, y>>)
GAdd(f) == [neg |-> FALSE, nondet |-> FALSE, fact |-> f]
GAddMaybe(f) == [neg |-> FALSE, nondet |-> TRUE, fact |-> f]
GDel(f) == [neg |-> TRUE, nondet |-> FALSE, fact |-> f]
Par(n, t) == [name |-> n, type |-> t]
Operator(pre, observe, effs) ==
  [vars |-> <<Par("x", 1), Par("y", 2)>>, pre |-> pre, observe |-> observe, effs |-> effs]

EasyPre == {F!TRU, F!FAL, at("x"), F!AND(<<at("x"), conn("x", "y")>>), F!AND(<<at("x"), lit("y")>>),
            F!AND(<<lit("x"), warm("y")>>), F!AND(<<at("x"), lit("x"), warm("x")>>),
            F!AND(<<conn("x", "y"), u("x")>>), F!AND(<<conn("x", "b"), conn("y", "x"), seen("x")>>)}
HardPres == {F!AND(<<at("x"), F!OR(<<conn("x", "y"), lit("x")>>)>>), F!AND(<<at("y"), F!OR(<<warm("x"), u("x")>>)>>)}
GEffect(ps, cond, lits) == [vars |-> ps, cond |-> cond, lits |-> lits]
Unconditional == GEffect(<<>>, F!TRU, {GAdd(Unary("at", "y")), GDel(Unary("at", "x"))})
EasyEffs == {<<>>, <<Unconditional>>,
             <<GEffect(<<Par("z", 1)>>, F!AND(<<at("z"), conn("z", "b")>>), {GAdd(Unary("seen", "z"))}),
               GEffect(<<>>, at("x"), {GAddMaybe(Unary("seen", "x"))})>>,
             <<GEffect(<<Par("z", 2)>>, lit("z"), {GDel(Unary("at", "z"))})>>,
             <<GEffect(<<>>, F!OR(<<at("x"), F!AND(<<seen("y"), u("x")>>)>>), {GAdd(Unary("at", "y"))}),
               GEffect(<<>>, F!FAL, {GAdd(Unary("at", "x"))})>>,
             <<GEffect(<<Par("w", 1), Par("z", 1), Par("v", 1)>>, F!AND(<<conn("z", "v"), at("v")>>), {GAdd(Unary("at", "z"))})>>,
             <<GEffect(<<Par("z", 2)>>, F!AND(<<conn("x", "z"), seen("z"), lit("x")>>), {GAdd(Unary("at", "z"))})>>,
             <<GEffect(<<Par("z", 2), Par("v", 2)>>, F!AND(<<lit("z"), warm("v"), at("v")>>),
                      {GAdd(Unary("at", "z")), GDel(Unary("at", "v"))})>>}
HardEffs == {<<GEffect(<<Par("z", 2)>>, F!AND(<<seen("x"), F!OR(<<at("z"), lit("z")>>)>>), {GAdd(Unary("at", "y"))})>>,
             <<GEffect(<<Par("z", 1)>>, F!AND(<<F!OR(<<at("y"), u("z")>>), F!OR(<<conn("z", "x"), at("z")>>)>>),
                      {GDel(Unary("at", "y")), GAdd(Unary("seen", "z"))})>>}
Ones == {Operator(p, o, e) : p \in EasyPre, e \in EasyEffs, o \in {{}, {Unary("at", "y")}}}
        \union {Operator(p, {}, e) : p \in HardPres, e \in EasyEffs \union HardEffs}
        \union {Operator(p, {Unary("u", "x")}, e) : p \in EasyPre \ {F!TRU}, e \in HardEffs}
        \union {Operator(F!OR(<<at("x"), seen("x")>>), {}, <<>>),
                Operator(F!AND(<<at("x"), F!OR(<<at("y"), seen("y")>>)>>), {}, <<>>)}
\* Parameters removed before the unary facts become types, after it and
\* both; static facts met with a table partly filled; and what the passes
\* are known to misread.
Three(vs, pre, observe, effs) == [vars |-> vs, pre |-> pre, observe |-> observe, effs |-> effs]
Says(e) == Operator(at("x"), {}, <<e>>)
Misreadable == {Operator(lit("y"), {}, <<>>), Operator(F!AND(<<lit("x"), warm("x"), at("y")>>), {}, <<>>),
             Three(<<Par("x", 1), Par("y", 2), Par("v", 1)>>, F!AND(<<lit("x"), at("y")>>), {}, <<>>),
             Three(<<Par("v", 2), Par("x", 1), Par("y", 1)>>, F!AND(<<lit("x"), at("y")>>), {Unary("u", "y")}, <<>>),
             Operator(F!AND(<<conn("x", "x"), at("x")>>), {}, <<>>),
             Says(GEffect(<<Par("z", 2)>>, conn("z", "c"), {GAdd(Unary("seen", "z"))})),
             Says(GEffect(<<Par("z", 1)>>, F!AND(<<lit("z"), conn("z", "b")>>), {GAdd(Unary("seen", "z"))})),
             Says(GEffect(<<Par("z", 1)>>, conn("z", "z"), {GAdd(Unary("seen", "z"))})),
             Says(GEffect(<<Par("z", 1)>>, F!AND(<<lit("z"), warm("z"), at("y")>>), {GAdd(Unary("at", "x"))})),
             Operator(F!AND(<<at("y"), F!OR(<<warm("x"), u("x")>>)>>), {},
                      <<GEffect(<<Par("w", 1), Par("z", 2)>>, at("z"), {GAdd(Unary("seen", "z"))})>>)}
Observers == {Operator(F!AND(<<at("x"), F!OR(<<lit("x"), u("x")>>)>>), {Unary(p, "y")}, e) :
                p \in {"u", "at"}, e \in {<<>>, <<GEffect(<<>>, seen("x"), {GDel(Unary("at", "x"))})>>}}
Chained == {Three(<<Par("x", 1), Par("y", 1), Par("v", 1)>>, F!AND(pre), {}, effs) :
              pre \in {<<conn("x", "y"), conn("y", "v")>>, <<conn("x", "y"), conn("x", "v"), at("y")>>,
                       <<conn("x", "y"), lit("v"), at("v")>>},
              effs \in {<<Unconditional>>,
                        <<GEffect(<<Par("z", 1), Par("w", 1)>>, F!AND(<<conn("z", "w"), conn("w", "b")>>),
                                  {GAdd(Unary("seen", "z"))})>>}}
           \union {Three(<<Par("x", 1), Par("y", 2), Par("v", 2)>>, F!AND(<<lit("y"), at("x")>>), {}, <<>>),
                   Three(<<Par("x", 1), Par("y", 2), Par("v", 1)>>, at("v"), {}, <<>>),
                   Three(<<Par("x", 1), Par("y", 2), Par("v", 1)>>, F!AND(<<lit("x"), lit("y"), at("v")>>), {}, <<>>)}

\* Two operators share the intersected types.
Twos == {<<Operator(p, {}, <<Unconditional>>), Operator(q, {}, e)>> :
           p \in {F!AND(<<at("x"), lit("y")>>), F!AND(<<lit("x"), warm("y")>>)},
           q \in {F!AND(<<at("y"), lit("y")>>), F!AND(<<at("y"), warm("y"), lit("y")>>)} \union HardPres,
           e \in {<<Unconditional>>, <<GEffect(<<Par("z", 2)>>, F!AND(<<lit("z"), at("z")>>), {GDel(Unary("at", "z"))})>>}}
MCDomains == {<<o>> : o \in Ones \union Misreadable \union Observers \union Chained} \union Twos
-----------------------------------------------------------------------------
\* Facts, and literals of conditions, as in Connectivity.
Fact(p, x) == <<p, x, FALSE>>
Is(f) == [f |-> f, neg |-> FALSE]
IsNot(f) == [f |-> f, neg |-> TRUE]

MCArguments == "at" :> {"a", "b"} @@ "lit" :> {"a"} @@ "dirty" :> {"b"} @@ "door" :> {"a", "b"} @@ "key" :> {"a"}

At(x) == Fact("at", x)
Lamp == Fact("lit", "a")
Dirty == Fact("dirty", "b")
Door(x) == Fact("door", x)

Add(f) == [f |-> f, neg |-> FALSE, nondet |-> FALSE]
Del(f) == [f |-> f, neg |-> TRUE, nondet |-> FALSE]
Maybe(l) == [l EXCEPT !.nondet = TRUE]
Effect(conds, lits) == [conds |-> conds, lits |-> lits]
Op(name, pre, observe, effects) == [name |-> name, pre |-> pre, observe |-> observe, effects |-> effects]

Move(x, y) == Op("move " \o x \o y, <<Is(At(x)), Is(Door(y))>>, {},
                 <<Effect(<<>>, <<Add(At(y)), Del(At(x))>>)>>)
Switch == Op("switch", <<Is(At("a"))>>, {},
             <<Effect(<<Is(Lamp)>>, <<Del(Lamp)>>), Effect(<<IsNot(Lamp)>>, <<Add(Lamp)>>)>>)
Flaky == Op("flaky", <<>>, {}, <<Effect(<<>>, <<Maybe(Add(Lamp))>>)>>)
Fuse == Op("fuse", <<>>, {}, <<Effect(<<>>, <<Maybe(Del(Lamp))>>)>>)
Look(x) == Op("look " \o x, <<Is(At(x))>>, {At(x)}, <<>>)
LookLamp == Op("look lamp", <<>>, {Lamp}, <<>>)
Clean == Op("clean", <<Is(At("b"))>>, {},
            <<Effect(<<Is(Lamp)>>, <<Del(Dirty)>>), Effect(<<Is(Lamp), Is(Dirty)>>, <<Add(At("b"))>>)>>)
Spill == Op("spill", <<IsNot(Dirty)>>, {}, <<Effect(<<Is(At("b")), Is(Lamp)>>, <<Add(Dirty)>>),
                                           Effect(<<Is(Lamp), Is(At("b"))>>, <<Add(At("a")), Del(At("b"))>>)>>)
Locked == Op("never", <<Is(Fact("key", "a"))>>, {}, <<Effect(<<>>, <<Add(Dirty)>>)>>)

Ruin == Op("ruin", <<>>, {}, <<Effect(<<Is(Lamp)>>, <<Add(Dirty)>>)>>)
TurnOn == Op("turn on", <<>>, {}, <<Effect(<<>>, <<Add(Lamp)>>)>>)
Enter == Op("enter", <<Is(Dirty)>>, {}, <<Effect(<<>>, <<Add(At("b"))>>)>>)
Slip == Op("slip", <<>>, {}, <<Effect(<<Is(Dirty)>>, <<Add(At("b"))>>)>>)

Find == Op("find", <<>>, {}, <<Effect(<<>>, <<Add(Fact("key", "a"))>>)>>)

Problem(ops, goal, ors, oneofs, initial, unknown) ==
  [ops |-> ops, goal |-> goal, ors |-> ors, oneofs |-> oneofs, initial |-> initial, unknown |-> unknown]
Doors == {Door("a"), Door("b")}
Somewhere == <<At("a"), At("b")>>

MCProblems ==
  {Problem(ops, goal, <<>>, <<>>, Doors \union {At("a")} \union dirt, {Lamp}) :
     ops \in {<<Move("a", "b"), Move("b", "a"), Clean, Look("b"), Switch>>,
              <<Move("a", "b"), Flaky, LookLamp, Clean>>,
              <<Locked, Move("a", "b"), Fuse, Spill, Switch>>,
              <<Flaky, Spill, Move("a", "b"), Clean>>},
     goal \in {<<Is(At("b"))>>, <<IsNot(Dirty), Is(At("b"))>>, <<Is(Door("a"))>>},
     dirt \in {{}, {Dirty}}}
  \union
  {Problem(<<Look("a"), Move("a", "b"), Move("b", "a"), Switch, Clean>>, <<Is(At("b"))>>, ors, <<Somewhere>>,
           {Door("b")} \union dirt, {At("a"), At("b"), Lamp}) :
     ors \in {<<>>, <<<<Is(Lamp), IsNot(At("a"))>>>>, <<<<IsNot(At("b")), IsNot(Lamp)>>>>},
     dirt \in {{}, {Dirty}}}
  \union {Problem(ops, <<goal>>, <<>>, <<>>, {At("a")}, unsure) : goal \in {Is(At("b")), Is(Lamp)},
            ops \in {<<Ruin, TurnOn, Enter>>, <<Slip, Ruin>>, <<Spill, Slip>>}, unsure \in {{}, {Lamp}}}
  \union {Problem(<<Find, Spill, Ruin, LookLamp, Move("a", "b"), Look("b")>>, <<IsNot(Dirty)>>, <<>>, <<Somewhere>>,
                   {Door("b"), Dirty}, {At("a"), At("b"), Lamp})}
  \union {Problem(<<Locked, Spill, Switch, Look("a")>>, <<IsNot(Door("a"))>>, <<>>, <<>>, Doors, {})}
  \union {Problem(<<Move("a", "b")>>, <<Is(At("b"))>>, <<>>, <<<<At("a")>>>>, Doors, {At("a")})}
=============================================================================
