--------------------------- MODULE MCProblemExpert --------------------------
(***************************************************************************)
(* The problem expert's two sides, one in each part of the run: the calls  *)
(* that maintain a problem (ProblemStore), about a robot, a hall that is a *)
(* constant of the domain and a lab that may come back as a robot; and     *)
(* check and apply (Evaluate), with conditions and effects over two rooms, *)
(* a robot and a level of charge.  The side a part is not about rests.     *)
(***************************************************************************)
EXTENDS ProblemStore

CONSTANTS Terms, States, MaxCalls, SmallIdRange

VARIABLES part, state, term, before, success, truth, mode, calls
sides == <<vars, part, state, term, before, success, truth, mode, calls>>

E == INSTANCE Evaluate WITH IdRange <- SmallIdRange

AnyInit ==
  /\ part \in {"store", "evaluate"}
  /\ Init
  /\ state \in (IF part = "evaluate" THEN States ELSE {CHOOSE s \in States : TRUE})
  /\ before = state /\ term = And(<<>>)
  /\ success = TRUE /\ truth = TRUE /\ mode = "none" /\ calls = 0

AnyNext ==
  \/ /\ part = "store" /\ Next
     /\ UNCHANGED <<part, state, term, before, success, truth, mode, calls>>
  \/ part = "evaluate" /\ E!Next /\ UNCHANGED <<part, store, called, answer, exited, removed>>

AnySpec == AnyInit /\ [][AnyNext]_sides

(* check answers whether the condition holds, when only facts are negated  *)
(* and quantifiers are asked of the expert.                                *)
CheckIsTruth == E!CheckIsTruth

(* What apply leaves is what the literals of the effect say, also after    *)
(* one part of it failed.                                                  *)
FailsInPart == E!FailsInPart

(* The modifiers of an effect are carried out one after the other, each on *)
(* the values the ones before it left, without those that fail.            *)
AssignsInOrder == E!AssignsInOrder

\* Numbers stay in a small range.
SmallNumbers == \A k \in DOMAIN state.functions : state.functions[k] \in -2..8
-----------------------------------------------------------------------------
MCPredicateTypes == "at" :> <<{"robot"}, {"room"}>> @@ "open" :> <<{"room"}>>
MCFunctionTypes == "charge" :> <<{"robot"}>>
Named(name, type) == [name |-> name, type |-> type]
MCConstants == <<Named("hall", "room")>>
MCCandidates == {Named("r2", "robot"), Named("lab", "room"), Named("lab", "robot"), Named("r2", "door")}

AtHall == Predicate("at", <<"r2", "hall">>)
AtLab == Predicate("at", <<"r2", "lab">>)
Open1 == Predicate("open", <<"hall">>)
Open2 == Predicate("open", <<"lab">>)
Wrong == Predicate("open", <<"r2">>)
Each == Predicate("open", <<"?">>)
Charge == Function("charge", <<"r2">>)
Nobody == Function("charge", <<"r9">>)

MCFacts == {AtLab}
MCValues == {Charge}
MCConditions == {Nodes(Unknown(Open2)), Nodes(OneOf(<<Open1, Open2>>)), Nodes(Or(<<Not(Open2), Open1, AtLab>>))}
MCGoals == {Nodes(And(<<AtLab, Not(Open1), Expression(">", Charge, Number(1))>>)), Nodes(Or(<<Open1, Open2>>))}
MCProblems ==
  {[objects |-> <<Named("r2", "robot"), Named("lab", "room")>>, predicates |-> {Key(AtLab)},
    functions |-> Key(Charge) :> 2, conditionals |-> {Nodes(Unknown(Open2))}, goal |-> Nodes(And(<<Open2>>))],
   [objects |-> <<Named("r2", "robot")>>, predicates |-> {Key(AtLab)},
    functions |-> <<>>, conditionals |-> {}, goal |-> Nodes(And(<<Open1>>))]}

MCTerms ==
  {AtHall, Wrong, Not(Open1), And(<<>>), And(<<AtHall, Not(Open1)>>), Or(<<And(<<AtHall, Open2>>), Not(Open1)>>),
   And(<<Or(<<AtLab, Open1>>), Or(<<Not(AtHall), Open2>>)>>),
   Not(And(<<AtHall, Open1>>)), Not(Or(<<AtHall, Not(Open1)>>)), Not(Expression(">", Charge, Number(1))),
   ForAll("room", Each), ForAll("room", Not(Each)), And(<<Not(AtHall), AtLab>>), And(<<Open1, Wrong, Not(AtHall)>>),
   And(<<ForAll("room", Not(Each)), AtHall>>),
   Expression(">=", Charge, Number(2)), Expression("<=", Expression("/", Charge, Number(1)), Number(2)),
   Expression("=", Expression("+", Charge, Charge), Expression("*", Number(2), Charge)),
   Expression("<", Nobody, Number(2)), Expression("<", Expression("/", Charge, Number(0)), Number(2)),
   Expression("<", Expression("-", Charge, Number(1)), Number(2)),
   Modifier("increase", Charge, Number(1)), Modifier("assign", Charge, Number(2)),
   Modifier("scale-down", Charge, Number(0)), Modifier("decrease", Charge, Number(1)),
   And(<<Modifier("scale-up", Charge, Number(2)), Not(AtLab), Modifier("increase", Charge, Charge)>>),
   And(<<Modifier("scale-up", Charge, Number(2)), Modifier("increase", Charge, Number(1))>>),
   And(<<Modifier("assign", Charge, Number(1)), Modifier("increase", Charge, Charge)>>),
   And(<<Modifier("scale-down", Charge, Number(0)), Modifier("decrease", Charge, Number(1))>>),
   And(<<AtHall, Modifier("increase", Nobody, Number(1)), Not(Open2)>>),
   Unknown(AtHall), OneOf(<<Open1, Open2>>), Or(<<Wrong, Open1>>)}

Rooms == "r2" :> "robot" @@ "hall" :> "room" @@ "lab" :> "room"
MCStates ==
  {[instances |-> Rooms, predicates |-> p, functions |-> (<<"charge", <<"r2">>>> :> n)] :
      p \in {{}, {Key(AtHall)}, {Key(AtHall), Key(Open1)}, {Key(Open1), Key(Open2)}}, n \in {0, 2}}
  \union {[instances |-> "hall" :> "room", predicates |-> {Key(Open1)}, functions |-> <<>>]}
=============================================================================
