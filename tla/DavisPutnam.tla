---------------------------- MODULE DavisPutnam ----------------------------
(***************************************************************************)
(* The satisfiability test of Contingent-FF (dp_CNF, dp, do_unit_props).   *)
(* The caller puts literals on the decision stack and asks whether the     *)
(* clauses allow them; the test works on that stack and on the array       *)
(* lassigned, which the next call takes over as it is left.  dp calls      *)
(* itself: frames holds the calls that are open.                           *)
(***************************************************************************)
EXTENDS Integers, Sequences, FiniteSets

CONSTANTS NumCodes,      \* number of CNF variables
          Databases,   \* sets of clauses; a clause is a set of literals
          Queries,     \* sequences of literals a caller may ask about
          Capacity,    \* cells of the decision stack
          MaxCalls     \* bound on the calls of one behaviour

Codes == 1..NumCodes
Literals == Codes \union {-v : v \in Codes}

ASSUME SolverAssumption ==
  /\ NumCodes \in Nat
  /\ \A db \in Databases : db \subseteq SUBSET Literals
  /\ Queries \subseteq Seq(Literals)
  /\ Capacity \in Nat
  /\ MaxCalls \in Nat

(* What callers see to: something is asked, no clause is empty, and the    *)
(* stack is allocated with a cell for every variable.                      *)
ASSUME CallerAssumption ==
  /\ <<>> \notin Queries
  /\ \A db \in Databases : {} \notin db
  /\ NumCodes <= Capacity

VARIABLES clauses,         \* the clause database
          decision_stack,  \* gdecision_stack
          lassigned,       \* value of each variable, -1 for none
          frames,          \* open calls of dp
          idx,             \* stack entry to insert or to propagate
          todo,            \* clauses still to look at for that entry
          pc, sat, asked, calls

vars == <<clauses, decision_stack, lassigned, frames, idx, todo, pc, sat, asked, calls>>

Open == -1
Code(l) == IF l > 0 THEN l ELSE -l
Sign(l) == IF l > 0 THEN 1 ELSE 0
Depth == Len(decision_stack)

OpenLiterals(c) == {l \in c : lassigned[Code(l)] = Open}
Satisfied(c) == \E l \in c : lassigned[Code(l)] = Sign(l)
Containing(l) == {c \in clauses : l \in c}

(* The stack with the entries above i moved down over it.                  *)
WithoutEntry(i) ==
  [k \in 1..Depth - 1 |-> IF k < i THEN decision_stack[k] ELSE decision_stack[k + 1]]

(* The assignment without the stack entries that lie at or above from.     *)
Retracted(assigned, from) ==
  [v \in Codes |-> IF \E k \in from..Depth : Code(decision_stack[k]) = v
                   THEN Open ELSE assigned[v]]

Init ==
  /\ clauses \in Databases
  /\ decision_stack = <<>>
  /\ lassigned = [v \in Codes |-> Open]
  /\ frames = <<>> /\ idx = 1 /\ todo = {}
  /\ pc = "idle" /\ sat = FALSE /\ asked = <<>> /\ calls = 0

(* dp_CNF is entered: the caller fills the stack; a variable that still    *)
(* has a value ends the planner.                                           *)
Call ==
  /\ pc = "idle" /\ calls < MaxCalls
  /\ \E q \in Queries :
       /\ decision_stack' = q
       /\ asked' = q
       /\ pc' = IF q = <<>> \/ \E v \in Codes : lassigned[v] # Open THEN "exit" ELSE "insert"
  /\ calls' = calls + 1 /\ idx' = 1 /\ frames' = <<>> /\ todo' = {}
  /\ UNCHANGED <<clauses, lassigned, sat>>

(* A decision is assigned; one already made is dropped from the stack, a   *)
(* contradictory one undoes those before it and answers FALSE, leaving     *)
(* the stack as it is.                                                     *)
PreInsert ==
  /\ pc = "insert" /\ idx <= Depth
  /\ LET l == decision_stack[idx] IN
       \/ /\ lassigned[Code(l)] = Sign(l)
          /\ decision_stack' = WithoutEntry(idx)
          /\ UNCHANGED <<lassigned, idx, pc, sat>>
       \/ /\ lassigned[Code(l)] = 1 - Sign(l)
          /\ lassigned' = [v \in Codes |-> IF \E k \in 1..idx - 1 : Code(decision_stack[k]) = v
                                           THEN Open ELSE lassigned[v]]
          /\ sat' = FALSE /\ pc' = "idle"
          /\ UNCHANGED <<decision_stack, idx>>
       \/ /\ lassigned[Code(l)] = Open
          /\ lassigned' = [lassigned EXCEPT ![Code(l)] = Sign(l)]
          /\ idx' = idx + 1
          /\ UNCHANGED <<decision_stack, pc, sat>>
  /\ UNCHANGED <<clauses, frames, todo, asked, calls>>

(* Propagation of the entry i: every clause with its complement.           *)
Propagating(i, stack) ==
  /\ idx' = i
  /\ todo' = IF i <= Len(stack) THEN Containing(-stack[i]) ELSE {}
  /\ pc' = "propagate"

EndPreInsert ==
  /\ pc = "insert" /\ idx > Depth
  /\ IF Depth = 0 THEN pc' = "exit" /\ UNCHANGED <<idx, todo>>
     ELSE Propagating(1, decision_stack)
  /\ UNCHANGED <<clauses, decision_stack, lassigned, frames, sat, asked, calls>>

\* Mutant: a clause with one open literal is taken for a contradiction.
LookAtClauseStrict ==
  /\ pc = "propagate"
  /\ \E c \in todo :
       /\ todo' = todo \ {c}
       /\ IF ~ Satisfied(c) /\ Cardinality(OpenLiterals(c)) <= 1
          THEN pc' = "return" /\ sat' = FALSE
          ELSE UNCHANGED <<pc, sat>>
  /\ UNCHANGED <<clauses, decision_stack, lassigned, frames, idx, asked, calls>>

\* Mutant: satisfied clauses are not told from the others.
LookAtClauseUnsatisfied ==
  /\ pc = "propagate"
  /\ \E c \in todo :
       /\ todo' = todo \ {c}
       /\ \/ /\ OpenLiterals(c) = {}
             /\ pc' = "return" /\ sat' = FALSE
             /\ UNCHANGED <<decision_stack, lassigned>>
          \/ /\ Cardinality(OpenLiterals(c)) > 1
             /\ UNCHANGED <<decision_stack, lassigned, pc, sat>>
          \/ \E l \in OpenLiterals(c) :
               /\ OpenLiterals(c) = {l}
               /\ lassigned' = [lassigned EXCEPT ![Code(l)] = Sign(l)]
               /\ decision_stack' = Append(decision_stack, l)
               /\ UNCHANGED <<pc, sat>>
  /\ UNCHANGED <<clauses, frames, idx, asked, calls>>

(* One clause of the membership list: nothing to do when it is satisfied   *)
(* or has two open literals, a contradiction when it has none, and its one *)
(* open literal is assigned and pushed.                                    *)
LookAtClause ==
  /\ pc = "propagate"
  /\ \E c \in todo :
       /\ todo' = todo \ {c}
       /\ \/ /\ Satisfied(c) \/ Cardinality(OpenLiterals(c)) > 1
             /\ UNCHANGED <<decision_stack, lassigned, pc, sat>>
          \/ /\ ~ Satisfied(c) /\ OpenLiterals(c) = {}
             /\ pc' = "return" /\ sat' = FALSE
             /\ UNCHANGED <<decision_stack, lassigned>>
          \/ /\ ~ Satisfied(c)
             /\ \E l \in OpenLiterals(c) :
                  /\ OpenLiterals(c) = {l}
                  /\ IF Depth = Capacity
                     THEN pc' = "exit" /\ UNCHANGED <<decision_stack, lassigned>>
                     ELSE /\ lassigned' = [lassigned EXCEPT ![Code(l)] = Sign(l)]
                          /\ decision_stack' = Append(decision_stack, l)
                          /\ UNCHANGED pc
             /\ UNCHANGED sat
  /\ UNCHANGED <<clauses, frames, idx, asked, calls>>

(* The next entry of the stack, which may have grown; dp is called when    *)
(* all of them are propagated.                                             *)
NextEntry ==
  /\ pc = "propagate" /\ todo = {}
  /\ IF idx < Depth THEN Propagating(idx + 1, decision_stack)
     ELSE pc' = "dp" /\ UNCHANGED <<idx, todo>>
  /\ UNCHANGED <<clauses, decision_stack, lassigned, frames, sat, asked, calls>>

(* dp tries the literal l: a new entry, propagated from there.             *)
Decide(l, entry) ==
  IF entry = Capacity
  THEN pc' = "exit" /\ UNCHANGED <<decision_stack, lassigned, frames, idx, todo>>
  ELSE LET stack == Append(SubSeq(decision_stack, 1, entry), l) IN
       /\ decision_stack' = stack
       /\ lassigned' = [Retracted(lassigned, entry + 1) EXCEPT ![Code(l)] = Sign(l)]
       /\ Propagating(entry + 1, stack)

(* dp is entered: with every variable assigned the clauses are satisfied,  *)
(* otherwise the highest open variable is split on, true first.            *)
EnterDp ==
  /\ pc = "dp"
  /\ \/ /\ \A v \in Codes : lassigned[v] # Open
        /\ sat' = TRUE /\ pc' = "return"
        /\ UNCHANGED <<decision_stack, lassigned, frames, idx, todo>>
     \/ \E v \in Codes :
          /\ lassigned[v] = Open /\ \A w \in v + 1..NumCodes : lassigned[w] # Open
          /\ frames' = Append(frames, [entry |-> Depth, dec_v |-> v, negative |-> FALSE])
          /\ Decide(v, Depth)
          /\ UNCHANGED sat
  /\ UNCHANGED <<clauses, asked, calls>>

Callers == SubSeq(frames, 1, Len(frames) - 1)
Innermost == frames[Len(frames)]

(* The positive branch failed: its entries are retracted and the variable  *)
(* is tried false.                                                         *)
Retry ==
  /\ pc = "return" /\ ~ sat /\ Len(frames) > 0 /\ ~ Innermost.negative
  /\ frames' = Append(Callers, [Innermost EXCEPT !.negative = TRUE])
  /\ Decide(-Innermost.dec_v, Innermost.entry)
  /\ UNCHANGED <<clauses, sat, asked, calls>>

(* Both branches failed: dp retracts its entries and returns FALSE.        *)
FailFrame ==
  /\ pc = "return" /\ ~ sat /\ Len(frames) > 0 /\ Innermost.negative
  /\ lassigned' = Retracted(lassigned, Innermost.entry + 1)
  /\ decision_stack' = SubSeq(decision_stack, 1, Innermost.entry)
  /\ frames' = Callers
  /\ UNCHANGED <<clauses, idx, todo, pc, sat, asked, calls>>

(* A solution: dp returns TRUE without retracting.                         *)
SolveFrame ==
  /\ pc = "return" /\ sat /\ Len(frames) > 0
  /\ frames' = Callers
  /\ UNCHANGED <<clauses, decision_stack, lassigned, idx, todo, pc, sat, asked, calls>>

\* Mutant: the caller is trusted to empty the array.
ReturnKeep ==
  /\ pc = "return" /\ frames = <<>>
  /\ decision_stack' = <<>>
  /\ pc' = "idle"
  /\ UNCHANGED <<clauses, lassigned, frames, idx, todo, sat, asked, calls>>

(* dp_CNF undoes what is on the stack and returns.                         *)
Return ==
  /\ pc = "return" /\ frames = <<>>
  /\ lassigned' = Retracted(lassigned, 1)
  /\ decision_stack' = <<>>
  /\ pc' = "idle"
  /\ UNCHANGED <<clauses, frames, idx, todo, sat, asked, calls>>

Next ==
  \/ Call \/ PreInsert \/ EndPreInsert \/ LookAtClause \/ NextEntry
  \/ EnterDp \/ Retry \/ FailFrame \/ SolveFrame \/ Return

dp_CNF == Init /\ [][Next]_vars /\ WF_vars(Next)
------------------------------------------------------------------------------
TypeOK ==
  /\ clauses \in SUBSET SUBSET Literals
  /\ decision_stack \in Seq(Literals)
  /\ lassigned \in [Codes -> {-1, 0, 1}]
  /\ frames \in Seq([entry : Nat, dec_v : Codes, negative : BOOLEAN])
  /\ idx \in Nat \ {0}
  /\ todo \in SUBSET SUBSET Literals
  /\ pc \in {"idle", "insert", "propagate", "dp", "return", "exit"}
  /\ sat \in BOOLEAN
  /\ asked \in Seq(Literals)
  /\ calls \in Nat

Holds(a, l) == (a[Code(l)] = Sign(l))
Models == {a \in [Codes -> {0, 1}] : \A c \in clauses : \E l \in c : Holds(a, l)}

(* The answer is right: TRUE exactly when some assignment satisfies all    *)
(* clauses and all literals the caller asked about.                        *)
AnswerExact ==
  pc = "idle" /\ calls > 0 =>
    sat = \E a \in Models : \A k \in 1..Len(asked) : Holds(a, asked[k])

(* Propagation, splitting and retraction keep the array and the stack in   *)
(* step: each entry is assigned as it stands, once, and nothing else is.   *)
StackMatches ==
  pc \in {"propagate", "dp", "return"} =>
    /\ \A k \in 1..Depth : Holds(lassigned, decision_stack[k])
    /\ \A j, k \in 1..Depth : Code(decision_stack[j]) = Code(decision_stack[k]) => j = k
    /\ \A v \in Codes : lassigned[v] # Open => \E k \in 1..Depth : Code(decision_stack[k]) = v

(* No call meets an assignment the last one left, and the stack never      *)
(* needs more cells than there are variables: the planner's exits in       *)
(* dp_CNF and do_unit_props are not reached.                               *)
NeverExits == pc # "exit"

(* Unit propagation only assigns what the decisions entail: a model of the *)
(* clauses that agrees with what was asked and with the literals dp tried  *)
(* agrees with every entry of the stack.                                   *)
Tried == {decision_stack[frames[f].entry + 1] : f \in 1..Len(frames)}
PropagationEntailed ==
  pc \in {"propagate", "dp"} =>
    \A a \in Models :
      (\A k \in 1..Len(asked) : Holds(a, asked[k])) /\ (\A l \in Tried : Holds(a, l))
         => \A k \in 1..Depth : Holds(a, decision_stack[k])
==============================================================================
