------------------------------ MODULE Knowledge ------------------------------
(***************************************************************************)
(* ProblemExpert under the sensing and actuation actions of a plan:        *)
(* apply_sensing_action calls removeConditionalUnknown, which rewrites the *)
(* oneofs that list the observed fact and then calls itself for every      *)
(* fact this settles.  The recursion is depth first and works on the       *)
(* shared conditionals, so a call finds what its predecessors left.        *)
(*                                                                         *)
(* world is the true state of the world, the environment that answers      *)
(* observations; belief is a history variable: the worlds that agree with  *)
(* the problem and with every observation and actuation so far.            *)
(***************************************************************************)
EXTENDS Belief, Sequences

CONSTANTS Problems,    \* initial experts: what addProblem stores
          Actuations   \* grounded effects: sets of facts to add and delete

(* An unknown fact is always listed by a oneof with another candidate.     *)
Backed(e) ==
  /\ e.unknowns = UNION e.oneofs
  /\ \A o \in e.oneofs : Cardinality(o) > 1
  /\ e.predicates \intersect e.unknowns = {}

\* Every problem file of the repository with an unknown backs all of them.
ASSUME KnowledgeAssumption ==
  /\ IsFiniteSet(Facts)
  /\ Problems \subseteq {e \in Expert : Backed(e)}
  /\ Actuations \subseteq [add : SUBSET Facts, del : SUBSET Facts]

VARIABLES expert,  \* predicates_ and conditionals_
          calls,   \* activations of removeConditionalUnknown, last on top
          sensed,  \* the expert before the last observation, and the observation
          world, belief

vars == <<expert, calls, sensed, world, belief>>

Call(p, value) == [fact |-> p, known_to_true |-> value, will_know |-> {}, entered |-> FALSE]

Idle == calls = <<>>
top  == calls[Len(calls)]
Pop  == SubSeq(calls, 1, Len(calls) - 1)
------------------------------------------------------------------------------
\* Mutant: the scan stops at the first oneof that lists the fact.
OneofsWithFirst(p) ==
  LET all == {o \in expert.oneofs : p \in o}
  IN  {o \in all : o = CHOOSE q \in all : TRUE}

OneofsWith(p) == {o \in expert.oneofs : p \in o}

(* The oneof that replaces o once p is known: without p, or only p.        *)
Rebuilt(o, p, value) == IF value THEN {p} ELSE o \ {p}

\* Mutants: the alternatives of a true fact are not settled; what is settled
\* is taken for the opposite of the observation.
WillKnowOnlyLast(o, p, value) ==
  IF value THEN {} ELSE {<<q, TRUE>> : q \in {r \in o : o = {p, r} /\ r # p}}
WillKnowAll(o, p, value) == {<<q, ~value>> : q \in o \ {p}}

(* Facts that become known through o: its only remaining fact is true; if  *)
(* p is true all the others are false.                                     *)
WillKnow(o, p, value) ==
  IF value THEN {<<q, FALSE>> : q \in o \ {p}}
  ELSE {<<q, TRUE>> : q \in {r \in o : o = {p, r} /\ r # p}}

Init ==
  /\ expert \in Problems
  /\ calls  = <<>>
  /\ world \in Worlds(expert)
  /\ belief = Worlds(expert)
  /\ sensed = [before |-> expert, fact |-> CHOOSE p \in Facts : TRUE, value |-> FALSE]

(* apply_sensing_action: the world answers, the expert learns.             *)
ApplySensing(p) ==
  /\ Idle
  /\ calls'  = <<Call(p, p \in world)>>
  /\ sensed' = [before |-> expert, fact |-> p, value |-> p \in world]
  /\ belief' = Observed(belief, p, p \in world)
  /\ UNCHANGED <<expert, world>>

(* "Conditional not found".                                                *)
UnknownNotFound ==
  /\ ~Idle /\ ~top.entered
  /\ top.fact \notin expert.unknowns
  /\ calls' = Pop
  /\ UNCHANGED <<expert, sensed, world, belief>>

(* The unknown is erased and every oneof that lists the fact is replaced;  *)
(* a oneof left with a single fact is added as a predicate instead.        *)
RemoveUnknown ==
  /\ ~Idle /\ ~top.entered
  /\ top.fact \in expert.unknowns
  /\ LET p       == top.fact
         value   == top.known_to_true
         rebuilt == {Rebuilt(o, p, value) : o \in OneofsWith(p)} \ {{}}
     IN  /\ expert' = [predicates |-> expert.predicates \union
                                        UNION {o \in rebuilt : Cardinality(o) = 1},
                       unknowns   |-> expert.unknowns \ {p},
                       oneofs     |-> (expert.oneofs \ OneofsWith(p)) \union
                                        {o \in rebuilt : Cardinality(o) # 1}]
         /\ calls' = [calls EXCEPT ![Len(calls)] =
                        [@ EXCEPT !.entered = TRUE,
                                  !.will_know = UNION {WillKnow(o, p, value) : o \in OneofsWith(p)}]]
  /\ UNCHANGED <<sensed, world, belief>>

\* Mutant: the loop does not advance.
PropagateSame ==
  /\ ~Idle /\ top.entered
  /\ \E k \in top.will_know : calls' = Append(calls, Call(k[1], k[2]))
  /\ UNCHANGED <<expert, sensed, world, belief>>

(* The last loop: one recursive call per fact that became known.           *)
PropagateNext ==
  /\ ~Idle /\ top.entered
  /\ \E k \in top.will_know :
       calls' = Append([calls EXCEPT ![Len(calls)].will_know = @ \ {k}], Call(k[1], k[2]))
  /\ UNCHANGED <<expert, sensed, world, belief>>

ReturnFromCall ==
  /\ ~Idle /\ top.entered /\ top.will_know = {}
  /\ calls' = Pop
  /\ UNCHANGED <<expert, sensed, world, belief>>

removeConditionalUnknown ==
  \/ UnknownNotFound
  \/ RemoveUnknown
  \/ PropagateNext
  \/ ReturnFromCall

(* apply_actuation_action: the effects reach the predicates, never the     *)
(* conditionals.                                                           *)
ApplyActuation(act) ==
  /\ Idle
  /\ expert' = [expert EXCEPT !.predicates = (@ \ act.del) \union act.add]
  /\ world'  = (world \ act.del) \union act.add
  /\ belief' = {(w \ act.del) \union act.add : w \in belief}
  /\ UNCHANGED <<calls, sensed>>

(* The effects only touch facts whose value is known.                      *)
OnKnownFacts(act) == (act.add \union act.del) \intersect expert.unknowns = {}

Next == \/ \E p \in Facts : ApplySensing(p)
        \/ removeConditionalUnknown
        \/ \E act \in Actuations : OnKnownFacts(act) /\ ApplyActuation(act)

\* removeConditionalUnknown is a plain recursive call: once entered it runs.
Spec == Init /\ [][Next]_vars /\ WF_vars(removeConditionalUnknown)

(* The same with actuations that may also touch facts not known yet.       *)
AnyNext == \/ \E p \in Facts : ApplySensing(p)
           \/ removeConditionalUnknown
           \/ \E act \in Actuations : ApplyActuation(act)

AnySpec == Init /\ [][AnyNext]_vars
------------------------------------------------------------------------------
(* Between two actions of the plan the expert stands for exactly the       *)
(* worlds that agree with everything observed and done: nothing true is    *)
(* lost and nothing is assumed.  No unknown survives the observation that  *)
(* decides it.                                                             *)
BeliefExact == Idle => Worlds(expert) = belief /\ Backed(expert)

(* Whatever order the recursion settles the facts in, it ends in the state *)
(* AfterSensing computes.                                                  *)
PropagationConfluent ==
  [][Idle' /\ ~Idle => expert' = AfterSensing(sensed.before, sensed.fact, sensed.value)]_vars

(* In every recursive call still to be made, the value agrees with the     *)
(* world.                                                                  *)
PropagatesTruth ==
  \A i \in 1..Len(calls) :
    /\ calls[i].known_to_true = (calls[i].fact \in world)
    /\ \A k \in calls[i].will_know : k[2] = (k[1] \in world)

(* An observation is processed to its end.                                 *)
SensingEnds == ~Idle ~> Idle

(* Header of apply_actuation_action: "apply the effects of an actuation    *)
(* action to a state".  A predicate of the expert is true in the world.    *)
PredicatesTrue == Idle => expert.predicates \subseteq world
------------------------------------------------------------------------------
(* The inductive invariant behind BeliefExact.  In the middle of a         *)
(* propagation the expert is wrong by what is settled but not yet          *)
(* recorded: the calls entered last, and those their callers still owe.    *)
PendingOf(call) ==
  IF call.entered THEN call.will_know ELSE {<<call.fact, call.known_to_true>>}

Pending == UNION {PendingOf(calls[i]) : i \in 1..Len(calls)}

Agreeing(worlds, settled) == {w \in worlds : \A k \in settled : k[2] = (k[1] \in w)}

CallType == [fact : Facts, known_to_true : BOOLEAN,
             will_know : SUBSET (Facts \X BOOLEAN), entered : BOOLEAN]

\* Only the call on top has not looked for its fact yet.
CallsInv ==
  /\ calls \in Seq(CallType)
  /\ \A i \in 1..Len(calls) : \/ calls[i].entered
                              \/ i = Len(calls) /\ calls[i].will_know = {}

(* An unknown that no oneof lists any more, or that is a predicate         *)
(* already, is about to be erased.                                         *)
UnknownsInv ==
  /\ expert \in Expert
  /\ UNION expert.oneofs \subseteq expert.unknowns
  /\ \A o \in expert.oneofs : Cardinality(o) > 1
  /\ \A p \in expert.unknowns \intersect expert.predicates : <<p, TRUE>> \in Pending
  /\ \A p \in expert.unknowns \ UNION expert.oneofs :
       \/ <<p, TRUE>> \in Pending /\ p \in expert.predicates
       \/ <<p, FALSE>> \in Pending

KnowledgeInv ==
  /\ CallsInv
  /\ UnknownsInv
  /\ world \in belief
  /\ belief = Agreeing(Worlds(expert), Pending)
  /\ PropagatesTruth
==============================================================================
