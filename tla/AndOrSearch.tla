----------------------------- MODULE AndOrSearch -----------------------------
(***************************************************************************)
(* search.c of Contingent-FF: the search for a plan tree.  A node is named *)
(* by the path that leads to it, a sequence of <<operator, outcome>>; its  *)
(* belief state is the set of histories of that path.  An expansion builds *)
(* the sons one operator at a time, in an order that the order of the      *)
(* facts in the state decides, then f values, best edges and solved and    *)
(* failed marks are brought up the path to the initial state.              *)
(***************************************************************************)
EXTENDS BeliefSpace, Integers, SequencesExt

CONSTANTS Problems,       \* [ops: names -> operators, worlds, goal, equality]
          Commands,       \* [alg, mode, giveup, cost, stagnating, weight]
          H(_, _),        \* the heuristic on a problem and a belief state
          MaxPlanLength   \* MAX_PLAN_LENGTH

INFINITY == -1
GIVEUP   == "give-up"     \* GIVEUP_ID
NoEdge   == "none"        \* a null best_outgoing_edge
Root     == <<>>

(* No cost or weight is negative: cocg's call of the planner sets neither. *)
(* An operator observes one fact or none (result_to_dest exits on more).   *)
ASSUME SearchAssumption ==
  /\ MaxPlanLength \in Nat \ {0}
  /\ \A p \in Problems : /\ GIVEUP \notin DOMAIN p.ops /\ NoEdge \notin DOMAIN p.ops
                         /\ \A op \in DOMAIN p.ops : \A x, y \in p.ops[op].obs : x = y
  /\ \A c \in Commands : /\ c.alg \in 0..1 /\ c.mode \in 0..2 /\ c.stagnating \in 0..2
                         /\ c.cost \in Nat /\ c.weight \in Nat

VARIABLES problem, cmd,
          nodes,   \* the search space, a record for every path built so far
          pc,      \* "select", "expand", "update", "done" or an exit(1)
          leaf,    \* the open leaf that is being expanded
          todo,    \* the operators still to be applied to it
          up       \* the node whose f value is updated next

vars == <<problem, cmd, nodes, pc, leaf, todo, up>>

action_cost(op) == IF op = GIVEUP THEN cmd.cost ELSE 1
observation(op) == op # GIVEUP /\ IsObservation(problem.ops[op])
avg(v1, v2) == (v1 + v2) \div 2

TrueSon(n, op)  == Append(n, <<op, "true">>)
FalseSon(n, op) == Append(n, <<op, "false">>)
Son(n, op)      == Append(n, <<op, "out">>)
SonsBy(n, op) == IF observation(op) THEN {TrueSon(n, op), FalseSon(n, op)} ELSE {Son(n, op)}
Parent(n) == SubSeq(n, 1, Len(n) - 1)

(* get_1P: the estimate is capped when giving up is allowed.               *)
get_1P(p, c, S) ==
  IF c.giveup /\ (H(p, S) = INFINITY \/ H(p, S) > c.cost) THEN c.cost ELSE H(p, S)

NewNode(p, c, S) ==
  LET solved == p.goal \subseteq KnownIn(S)
      h == IF solved THEN 0 ELSE get_1P(p, c, S)
      f == IF h = INFINITY THEN INFINITY ELSE c.weight * h
  IN  [S |-> S, f |-> f, astar |-> f, solved |-> solved, failed |-> (h = INFINITY),
       edges |-> <<>>, best |-> NoEdge]

GivenUp == [S |-> {}, f |-> cmd.cost, astar |-> cmd.cost, solved |-> TRUE,
            failed |-> FALSE, edges |-> <<>>, best |-> NoEdge]

Init ==
  /\ problem \in Problems /\ cmd \in Commands
  /\ nodes = [n \in {Root} |-> NewNode(problem, cmd, {<<w>> : w \in problem.worlds})]
  /\ pc = "select" /\ leaf = Root /\ todo = {} /\ up = Root
------------------------------------------------------------------------------
(* get_open_leaf_of_best_subtree.                                          *)

(* At an observation the worse open branch is taken, the true one first.   *)
BestSon(n) ==
  LET op == nodes[n].best
      t  == nodes[TrueSon(n, op)]
      f  == nodes[FalseSon(n, op)]
  IN  IF ~observation(op) THEN Son(n, op)
      ELSE IF ~t.solved /\ (f.solved \/ f.f >= t.f) THEN TrueSon(n, op) ELSE FalseSon(n, op)

(* The nodes that following the best edges from the initial state meets.   *)
BestWalk ==
  {n \in DOMAIN nodes :
     \A i \in 1..Len(n) : LET k == SubSeq(n, 1, i - 1)
                         IN  nodes[k].best # NoEdge /\ SubSeq(n, 1, i) = BestSon(k)}

RootDecided == nodes[Root].solved \/ nodes[Root].failed

SelectLeaf ==
  /\ pc = "select" /\ ~RootDecided
  /\ \E open \in BestWalk :
         nodes[open].best = NoEdge /\
         IF \E n \in BestWalk : nodes[n].solved \/ nodes[n].failed
         THEN pc' = "solved or failed in open leaf getting" /\ UNCHANGED <<leaf, todo>>
         ELSE IF Len(open) = MaxPlanLength
         THEN pc' = "increase MAX_PLAN_LENGTH" /\ UNCHANGED <<leaf, todo>>
         ELSE /\ pc' = "expand" /\ leaf' = open
              /\ todo' = {op \in DOMAIN problem.ops :
                            problem.ops[op].pre \subseteq KnownIn(nodes[open].S)}
  /\ UNCHANGED <<problem, cmd, nodes, up>>

Finish ==
  /\ pc = "select" /\ RootDecided
  /\ pc' = "done"
  /\ UNCHANGED <<problem, cmd, nodes, leaf, todo, up>>
------------------------------------------------------------------------------
(* stagnates: the ancestors, nearest first, up to the last observation.  A *)
(* node reached by an observation, and what is before it, is not compared. *)

Compared(n) ==
  {k \in {SubSeq(n, 1, i) : i \in 0..Len(n)} :
     \A i \in (IF k = Root THEN 1 ELSE Len(k))..Len(n) : n[i][2] = "out"}

\* Mutant: the direct predecessor only, and known facts only.
SingleStagnatesKnown(S, k) == KnownIn(S) \subseteq UNION {h[Len(k) + 1] : h \in S}

(* single_stagnates: no fact is true in the new state and not in the old   *)
(* one or, if that is not enough to dominate, both states are equal.       *)
SingleStagnates(S, k) ==
  \A h \in S : IF problem.equality THEN Now(h) = h[Len(k) + 1]
               ELSE Now(h) \subseteq h[Len(k) + 1]

Stagnates(S, n) ==
  CASE cmd.stagnating = 0 -> FALSE
    [] cmd.stagnating = 1 -> SingleStagnates(S, n)
    [] cmd.stagnating = 2 -> \E k \in Compared(n) : SingleStagnates(S, k)

AddToBfsSpace(op, sons) ==
  nodes' = [n \in DOMAIN nodes \union DOMAIN sons |->
              IF n \in DOMAIN sons THEN sons[n]
              ELSE IF n = leaf THEN [nodes[n] EXCEPT !.edges = <<op>> \o @] ELSE nodes[n]]

ApplyOperator(op) ==
  /\ pc = "expand" /\ op \in todo /\ ~observation(op)
  /\ LET S  == nodes[leaf].S
         S2 == Extended(S, problem.ops[op])
     IN  IF \/ \E h \in S : ContradictsItself(Now(h), problem.ops[op])
            \/ Stagnates(S2, leaf)
         THEN UNCHANGED nodes
         ELSE AddToBfsSpace(op, [m \in SonsBy(leaf, op) |-> NewNode(problem, cmd, S2)])
  /\ todo' = todo \ {op}
  /\ UNCHANGED <<problem, cmd, pc, leaf, up>>

ApplyObservation(op) ==
  /\ pc = "expand" /\ op \in todo /\ observation(op)
  /\ LET S == nodes[leaf].S
         f == CHOOSE x \in problem.ops[op].obs : TRUE
     IN  IF f \notin UnknownIn(S) THEN UNCHANGED nodes
         ELSE AddToBfsSpace(op,
                [m \in SonsBy(leaf, op) |->
                   NewNode(problem, cmd, Observed(S, f, m = TrueSon(leaf, op)))])
  /\ todo' = todo \ {op}
  /\ UNCHANGED <<problem, cmd, pc, leaf, up>>

EndExpansion ==
  /\ pc = "expand" /\ todo = {}
  /\ IF cmd.giveup THEN AddToBfsSpace(GIVEUP, [m \in SonsBy(leaf, GIVEUP) |-> GivenUp])
     ELSE UNCHANGED nodes
  /\ pc' = "update" /\ up' = leaf
  /\ UNCHANGED <<problem, cmd, leaf, todo>>
------------------------------------------------------------------------------
(* update_fvalues_and_markers, one node of the path at a time.             *)

EdgeSolved(n, op) == \A m \in SonsBy(n, op) : nodes[m].solved
EdgeFailed(n, op) == \E m \in SonsBy(n, op) : nodes[m].failed

Combined(t, f) ==
  CASE cmd.mode = 0 -> t + f
    [] cmd.mode = 1 -> IF t > f THEN t ELSE f
    [] cmd.mode = 2 -> avg(t, f)

EdgeValue(n, op, field) ==
  IF observation(op) THEN Combined(nodes[TrueSon(n, op)][field], nodes[FalseSon(n, op)][field])
  ELSE nodes[Son(n, op)][field]

EdgeF(n, op) == EdgeValue(n, op, "f") + (IF cmd.alg = 0 THEN action_cost(op) ELSE 0)
EdgeAstar(n, op) == EdgeValue(n, op, "astar") + action_cost(op)

NoBest == [min |-> -2, astar |-> -2, edge |-> NoEdge, solved |-> FALSE]

(* Ties go to the later edge of the list after an actuation, to the        *)
(* earlier one after an observation.  In greedy search solved edges come   *)
(* first, then ties are broken by astar; min stays as it was there.        *)
ConsiderEdge(n, b, op) ==
  LET obs == observation(op)
      f == EdgeF(n, op)
      a == EdgeAstar(n, op)
      s == EdgeSolved(n, op)
      taken == IF b.min = -2 \/ f < b.min \/ (~obs /\ f = b.min)
               THEN [min |-> f, astar |-> a, edge |-> op, solved |-> s] ELSE b
      tie == f = taken.min /\ IF obs THEN a <= taken.astar ELSE a < taken.astar
  IN  IF cmd.alg = 1 /\ b.solved /\ ~s THEN b
      ELSE IF cmd.alg = 1 /\ (tie \/ (s /\ ~taken.solved))
      THEN [taken EXCEPT !.astar = a, !.edge = op, !.solved = s]
      ELSE taken

LiveEdges(n) == {op \in ToSet(nodes[n].edges) : ~EdgeFailed(n, op)}

BestOf(n) ==
  LET edges == nodes[n].edges
      best[i \in 0..Len(edges)] ==
        IF i = 0 THEN NoBest
        ELSE IF EdgeFailed(n, edges[i]) THEN best[i - 1]
        ELSE ConsiderEdge(n, best[i - 1], edges[i])
  IN  best[Len(edges)]

(* The exit(1) tests of the loop over the edges.                           *)
BadValues(n) ==
  \E op \in ToSet(nodes[n].edges) : \E m \in SonsBy(n, op) :
    IF nodes[m].failed THEN nodes[m].f # INFINITY
    ELSE ~EdgeFailed(n, op) /\ nodes[m].f < 0

\* Mutant: as in the original planner, one solved edge solves the node.
UpdatedAnySolved(n) ==
  LET b == BestOf(n) IN
  IF LiveEdges(n) = {} THEN [nodes[n] EXCEPT !.failed = TRUE, !.f = INFINITY]
  ELSE [nodes[n] EXCEPT !.f = b.min, !.astar = b.astar, !.best = b.edge,
                        !.solved = @ \/ \E op \in ToSet(nodes[n].edges) :
                                           EdgeSolved(n, op)]

Updated(n) ==
  LET b == BestOf(n) IN
  IF LiveEdges(n) = {} THEN [nodes[n] EXCEPT !.failed = TRUE, !.f = INFINITY]
  ELSE [nodes[n] EXCEPT !.f = b.min, !.astar = b.astar, !.best = b.edge,
                        !.solved = @ \/ b.solved]

\* Mutant: the values stop at the parent of the expanded leaf.
UpdateNodeOnce ==
  /\ pc = "update"
  /\ nodes' = [nodes EXCEPT ![up] = Updated(up)]
  /\ IF up = Root \/ up # leaf THEN pc' = "select" /\ UNCHANGED up
     ELSE up' = Parent(up) /\ UNCHANGED pc
  /\ UNCHANGED <<problem, cmd, leaf, todo>>

UpdateNode ==
  /\ pc = "update"
  /\ IF BadValues(up) THEN pc' = "failed node and f value disagree" /\ UNCHANGED <<nodes, up>>
     ELSE /\ nodes' = [nodes EXCEPT ![up] = Updated(up)]
          /\ IF up = Root THEN pc' = "select" /\ UNCHANGED up
             ELSE up' = Parent(up) /\ UNCHANGED pc
  /\ UNCHANGED <<problem, cmd, leaf, todo>>

Next == \/ SelectLeaf \/ Finish \/ EndExpansion \/ UpdateNode
        \/ \E op \in todo : ApplyOperator(op) \/ ApplyObservation(op)

do_best_first_search == Init /\ [][Next]_vars /\ WF_vars(Next)
------------------------------------------------------------------------------
(* The costs a search could promise: least fixpoint of the same backup     *)
(* over the sets of worlds reachable from the initial one.  Unsolvable is  *)
(* more than any plan of a problem with few belief states can cost.        *)
Unsolvable == 1000
Believed(B, op) == {Progress(w, op) : w \in B}

ResultsOf(p, B, op) ==
  LET o == p.ops[op] IN
  IF ~IsObservation(o)
  THEN IF \E w \in B : ContradictsItself(w, o) THEN {} ELSE {{Believed(B, o)}}
  ELSE LET yes == {w \in B : o.obs \subseteq w}
       IN  IF yes \in {{}, B} THEN {} ELSE {{yes, B \ yes}}

ApplicableIn(p, B) == {op \in DOMAIN p.ops : \A w \in B : p.ops[op].pre \subseteq w}

SuccessorsOf(p, B) == UNION UNION {ResultsOf(p, B, op) : op \in ApplicableIn(p, B)}

ReachableBeliefs(p) ==
  LET grow[i \in 0..8] == IF i = 0 THEN {p.worlds}
                          ELSE LET X == grow[i - 1]
                               IN  X \union UNION {SuccessorsOf(p, B) : B \in X}
  IN  grow[8]

CombineCosts(mode, T) ==   \* T: the costs of one or two outcomes
  LET hi == CHOOSE x \in T : \A y \in T : y <= x
      lo == CHOOSE x \in T : \A y \in T : x <= y
  IN  IF hi >= Unsolvable THEN Unsolvable
      ELSE CASE mode = 0 -> hi + lo [] mode = 1 -> hi [] mode = 2 -> avg(hi, lo)

BackedUp(p, mode, cost) ==
  [B \in DOMAIN cost |->
     IF \A w \in B : p.goal \subseteq w THEN 0
     ELSE LET byOp(op) == IF ResultsOf(p, B, op) = {} THEN Unsolvable
                          ELSE LET X == CHOOSE x \in ResultsOf(p, B, op) : TRUE
                                   c == IF IsObservation(p.ops[op])
                                        THEN CombineCosts(mode, {cost[Y] : Y \in X})
                                        ELSE cost[CHOOSE Y \in X : TRUE]
                               IN  IF c >= Unsolvable THEN Unsolvable ELSE 1 + c
              all == {byOp(op) : op \in ApplicableIn(p, B)} \union {Unsolvable}
          IN  CHOOSE x \in all : \A y \in all : x <= y]

LeastCosts ==
  [p \in Problems, mode \in 0..2 |->
     FoldLeft(LAMBDA cost, i : BackedUp(p, mode, cost),
              [B \in ReachableBeliefs(p) |-> Unsolvable], [i \in 1..12 |-> i])[p.worlds]]

LeastCost == LeastCosts[problem, cmd.mode]
------------------------------------------------------------------------------
(* None of the "?" tests that exit(1) ever fires: the walk to the open     *)
(* leaf meets no solved or failed node, and f is finite exactly where a    *)
(* node has not failed (search.c, get_open_leaf_of_best_subtree and        *)
(* update_fvalues_and_markers).                                            *)
NeverAborts ==
  pc \notin {"solved or failed in open leaf getting", "failed node and f value disagree"}

(* "If a node is marked solved then bestedge MUST point to a solved        *)
(* successor state" (search.c, update_fvalues_and_markers): also after     *)
(* later updates of the nodes above and below it.                          *)
SolvedByBestEdge ==
  \A n \in DOMAIN nodes :
    nodes[n].solved => \/ nodes[n].best = NoEdge
                       \/ EdgeSolved(n, nodes[n].best)

(* What print_plan prints is the tree of the best edges.  Where one leads   *)
(* in world v, and a step of a run of the tree; at a leaf the run rests.    *)
OutcomeOf(n, op, v) ==
  IF ~observation(op) THEN [node |-> Son(n, op), world |-> Progress(v, problem.ops[op])]
  ELSE [node |-> IF problem.ops[op].obs \subseteq v THEN TrueSon(n, op) ELSE FalseSon(n, op),
        world |-> v]

Performed(p) ==
  IF nodes[p.node].best \in {NoEdge, GIVEUP} THEN p
  ELSE OutcomeOf(p.node, nodes[p.node].best, p.world)

(* A run in world w: every operator is applicable and the goal holds at    *)
(* the end, unless the branch gives up.                                    *)
PlanWorksIn(w) ==
  LET at[i \in 0..MaxPlanLength] ==
        IF i = 0 THEN [node |-> Root, world |-> w] ELSE Performed(at[i - 1])
      end == at[MaxPlanLength]
  IN  /\ \A i \in 0..MaxPlanLength :
           LET op == nodes[at[i].node].best
           IN  op \notin {NoEdge, GIVEUP} => problem.ops[op].pre \subseteq at[i].world
      /\ nodes[end.node].best = GIVEUP
           \/ (nodes[end.node].best = NoEdge /\ problem.goal \subseteq end.world)

(* The tree that is printed solves the task in every initial world.        *)
PlanSolvesEveryWorld ==
  pc = "done" /\ nodes[Root].solved => \A w \in problem.worlds : PlanWorksIn(w)

(* "initial state failed! problem proved unsolvable!" (search.c): no plan  *)
(* tree exists, whatever was cut off as stagnating or contradictory.       *)
FailedProvesUnsolvable ==
  pc = "done" /\ nodes[Root].failed => LeastCost = Unsolvable

(* With an admissible heuristic AO* finds a cheapest plan, under each way  *)
(* of combining the branches of an observation.                            *)
CheapestPlan ==
  pc = "done" /\ nodes[Root].solved /\ cmd.alg = 0 /\ ~cmd.giveup =>
    nodes[Root].f = LeastCost

(* Between expansions the f value of every inner node is the cheapest of   *)
(* its live edges: bringing values up one path is enough, in a tree.       *)
ValuesBackedUp ==
  pc \in {"select", "done"} /\ cmd.alg = 0 =>
    \A n \in DOMAIN nodes :
      nodes[n].best # NoEdge /\ ~nodes[n].failed =>
        /\ nodes[n].best \in LiveEdges(n)
        /\ \A op \in LiveEdges(n) : nodes[n].f <= EdgeF(n, op)
        /\ nodes[n].f = EdgeF(n, nodes[n].best)

(* The marks and values an expansion leaves behind agree all over the      *)
(* tree, although only one path is brought up to date; so the tree of the  *)
(* best edges, whose marks come from different expansions, is a plan that  *)
(* works whatever is observed.                                             *)
MarksAgree == NeverAborts /\ SolvedByBestEdge /\ ValuesBackedUp
SearchSound == MarksAgree /\ PlanSolvesEveryWorld

(* No answer means that there is no plan, and AO* finds a cheapest one.    *)
SearchOptimal == FailedProvesUnsolvable /\ CheapestPlan

(* Every search ends: with an answer, or at MAX_PLAN_LENGTH.               *)
SearchEnds == <>(pc \in {"done", "increase MAX_PLAN_LENGTH"})
==============================================================================
