-------------------------------- MODULE Belief --------------------------------
(***************************************************************************)
(* What a ProblemExpert knows about a partly unknown initial state, and    *)
(* what its contents mean.  An expert holds the predicates known to be     *)
(* true, the facts p of its conditionals (unknown (p)), and the sets of    *)
(* facts of its conditionals (oneof ...).  Every other fact is false.      *)
(***************************************************************************)
EXTENDS Naturals, FiniteSets

CONSTANT Facts

Expert == [predicates : SUBSET Facts,
           unknowns   : SUBSET Facts,
           oneofs     : SUBSET SUBSET Facts]

(* The worlds an expert's contents allow: exactly one fact of every oneof  *)
(* is true.                                                                *)
Worlds(e) ==
  {w \in SUBSET Facts :
     /\ e.predicates \subseteq w
     /\ w \ e.predicates \subseteq e.unknowns
     /\ \A o \in e.oneofs : Cardinality(w \intersect o) = 1}

Observed(worlds, p, value) == {w \in worlds : (p \in w) = value}

(* What an observation of p settles, by propagation through the oneofs:    *)
(* after n rounds, the facts known to be true and those known to be false. *)
Settled(e, p, value) ==
  LET rounds[n \in 0..Cardinality(e.unknowns)] ==
        IF n = 0
        THEN [true  |-> IF value THEN {p} ELSE {},
              false |-> IF value THEN {} ELSE {p}]
        ELSE LET r == rounds[n - 1]
             IN  [true  |-> r.true \union
                              {q \in e.unknowns :
                                 \E o \in e.oneofs : q \in o /\ o \ r.false = {q}},
                  false |-> r.false \union
                              {q \in e.unknowns :
                                 \E o \in e.oneofs : q \in o /\ (o \ {q}) \intersect r.true # {}}]
  IN  rounds[Cardinality(e.unknowns)]

(* The net effect of removeConditionalUnknown, as one step: what it        *)
(* settles leaves the unknowns, and the true facts that some oneof lists   *)
(* become predicates.                                                      *)
AfterSensing(e, p, value) ==
  IF p \notin e.unknowns THEN e
  ELSE LET s == Settled(e, p, value)
       IN  [predicates |-> e.predicates \union (s.true \intersect UNION e.oneofs),
            unknowns   |-> e.unknowns \ (s.true \union s.false),
            oneofs     |-> {o \ s.false : o \in {q \in e.oneofs : q \intersect s.true = {}}}]
==============================================================================
