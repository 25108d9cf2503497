-------------------------- MODULE AndOrSearchProofs --------------------------
(***************************************************************************)
(* Contingent-FF's search, for every task, heuristic and setting: the      *)
(* marks and values in the search space agree although an expansion brings *)
(* only one path of it up to date, and the tree of the best edges is a     *)
(* plan that works in every initial world.                                 *)
(***************************************************************************)
EXTENDS AndOrSearch, SequenceTheorems, WellFoundedInduction, TLAPS

(* Every fact of a task, and every belief state: a set of histories.       *)
FactsOf(p) ==
  (UNION p.worlds) \union UNION {UNION {e.A : e \in p.ops[op].effs} : op \in DOMAIN p.ops}
Beliefs(p) == SUBSET (Seq(SUBSET FactsOf(p)) \ {<<>>})

(* What a heuristic returns: a number of steps, or INFINITY.               *)
HeuristicType ==
  \A p \in Problems : \A S \in Beliefs(p) : H(p, S) \in Nat \union {INFINITY}

Edge  == DOMAIN problem.ops \union {GIVEUP}
Paths == Seq(Edge \X {"true", "false", "out"})
NodeRecord ==
  [S : Beliefs(problem), f : Nat \union {INFINITY}, astar : Int, solved : BOOLEAN,
   failed : BOOLEAN, edges : Seq(Edge), best : Edge \union {NoEdge}]

(* A node's f value says whether it failed, and what failed is not solved. *)
Consistent(r) == (r.failed <=> r.f = INFINITY) /\ ~(r.solved /\ r.failed)

(* The best edge of a node is live, the node is solved if that edge is,    *)
(* and in AO* no live edge is cheaper.                                     *)
Settled(n) ==
  nodes[n].best # NoEdge /\ ~nodes[n].failed =>
    /\ nodes[n].best \in LiveEdges(n)
    /\ nodes[n].solved = EdgeSolved(n, nodes[n].best)
    /\ cmd.alg = 0 => /\ nodes[n].f = EdgeF(n, nodes[n].best)
                      /\ \A op \in LiveEdges(n) : nodes[n].f <= EdgeF(n, op)

WayTo(n) == {SubSeq(n, 1, i) : i \in 0..Len(n)}

(* The nodes that are still to be brought up to date.                      *)
Pending == IF pc = "expand" THEN WayTo(leaf) ELSE IF pc = "update" THEN WayTo(up) ELSE {}

Undecided(k) == k \in DOMAIN nodes /\ ~nodes[k].solved /\ ~nodes[k].failed

SearchSpace ==
  /\ nodes \in [DOMAIN nodes -> NodeRecord]
  /\ DOMAIN nodes \subseteq Paths
  /\ Root \in DOMAIN nodes
  /\ \A n \in DOMAIN nodes : \A op \in ToSet(nodes[n].edges) : SonsBy(n, op) \subseteq DOMAIN nodes

(* The inductive invariant.                                                *)
SearchInv ==
  /\ problem \in Problems /\ cmd \in Commands
  /\ pc \in {"select", "expand", "update", "done", "increase MAX_PLAN_LENGTH"}
  /\ SearchSpace
  /\ leaf \in DOMAIN nodes /\ up \in DOMAIN nodes
  /\ todo \subseteq DOMAIN problem.ops
  /\ \A n \in DOMAIN nodes : Consistent(nodes[n])
  /\ \A n \in Pending : Undecided(n)
  /\ \A n \in DOMAIN nodes \ Pending : Settled(n)
------------------------------------------------------------------------------
(* Paths, and what lies on the way to them.                                *)

(* What leads to a path is a path that is no longer.                       *)
LEMMA PrefixIs ==
  ASSUME NEW n \in Paths, NEW i \in 0..Len(n)
  PROVE  /\ SubSeq(n, 1, i) \in Paths
         /\ Len(SubSeq(n, 1, i)) = i
         /\ \A j \in 1..i : SubSeq(n, 1, i)[j] = n[j]
<1>1. \A j \in 1..i : n[j] \in Edge \X {"true", "false", "out"}
  BY DEF Paths
<1>2. i \in Int /\ Len(n) \in Nat
  BY DEF Paths
<1>3. 1 \in Int
  OBVIOUS
<1>4. /\ SubSeq(n, 1, i) \in Paths
      /\ Len(SubSeq(n, 1, i)) = IF 1 <= i THEN i - 1 + 1 ELSE 0
      /\ \A j \in 1..i - 1 + 1 : SubSeq(n, 1, i)[j] = n[1 + j - 1]
  BY <1>1, <1>2, <1>3, SubSeqProperties DEF Paths
<1>5. Len(SubSeq(n, 1, i)) = i
  BY <1>2, <1>4
<1>6. \A j \in 1..i : SubSeq(n, 1, i)[j] = n[j]
  BY <1>2, <1>4
<1> QED
  BY <1>4, <1>5, <1>6

(* A son is one step longer than its parent, which it determines.          *)
LEMMA SonIs ==
  ASSUME NEW n \in Paths, NEW op \in Edge, NEW m \in SonsBy(n, op)
  PROVE  m \in Paths /\ Len(m) = Len(n) + 1 /\ Parent(m) = n
<1>1. PICK x \in {"true", "false", "out"} : m = Append(n, <<op, x>>)
  BY DEF SonsBy, TrueSon, FalseSon, Son
<1>2. <<op, x>> \in Edge \X {"true", "false", "out"}
  OBVIOUS
<1>3. m \in Paths /\ Len(m) = Len(n) + 1
  BY <1>1, <1>2, AppendProperties DEF Paths
<1>4. \A i \in 1..Len(n) : m[i] = n[i]
  BY <1>1, <1>2, AppendProperties DEF Paths
<1>5. Len(n) \in Nat /\ Len(m) - 1 = Len(n)
  BY <1>3 DEF Paths
<1>6. Parent(m) \in Paths /\ Len(Parent(m)) = Len(n) /\ \A i \in 1..Len(n) : Parent(m)[i] = m[i]
  <2>1. Len(n) \in 0..Len(m) /\ Parent(m) = SubSeq(m, 1, Len(n))
    BY <1>3, <1>5 DEF Parent
  <2> QED
    BY <1>3, <2>1, PrefixIs
<1>7. Parent(m) = n
  BY <1>4, <1>6, SeqEqual DEF Paths
<1> QED
  BY <1>3, <1>7

(* Every path is on the way to itself.                                     *)
LEMMA SelfIsPrefix ==
  ASSUME NEW n \in Paths
  PROVE  n \in WayTo(n) /\ SubSeq(n, 1, Len(n)) = n
BY SubSeqFull DEF WayTo, Paths

(* The parent of what is on the way to a path is on the way to it.         *)
LEMMA PrefixOfPrefix ==
  ASSUME NEW n \in Paths, NEW i \in 0..Len(n), NEW j \in 0..i
  PROVE  SubSeq(SubSeq(n, 1, i), 1, j) = SubSeq(n, 1, j)
<1>1. Len(n) \in Nat
  BY DEF Paths
<1>2. PICK m : m = SubSeq(n, 1, i)
  OBVIOUS
<1>3. m \in Paths /\ Len(m) = i /\ \A k \in 1..i : m[k] = n[k]
  BY <1>2, PrefixIs
<1>4. /\ SubSeq(m, 1, j) \in Paths /\ Len(SubSeq(m, 1, j)) = j
      /\ \A k \in 1..j : SubSeq(m, 1, j)[k] = m[k]
  BY <1>3, PrefixIs
<1>5. j \in 0..Len(n)
  BY <1>1
<1>6. /\ SubSeq(n, 1, j) \in Paths /\ Len(SubSeq(n, 1, j)) = j
      /\ \A k \in 1..j : SubSeq(n, 1, j)[k] = n[k]
  BY <1>5, PrefixIs
<1>7. \A k \in 1..j : SubSeq(m, 1, j)[k] = SubSeq(n, 1, j)[k]
  BY <1>1, <1>3, <1>4, <1>6
<1>8. SubSeq(m, 1, j) = SubSeq(n, 1, j)
  BY <1>4, <1>6, <1>7, SeqEqual DEF Paths
<1> QED
  BY <1>2, <1>8

(* The nodes on the way to a path are paths and no longer than it.         *)
LEMMA PrefixesArePaths ==
  ASSUME NEW n \in Paths, NEW k \in WayTo(n)
  PROVE  k \in Paths /\ Len(k) \in 0..Len(n)
BY PrefixIs DEF WayTo

(* If a son is on the way to a path, so is its parent.                     *)
LEMMA ParentOnTheWay ==
  ASSUME NEW n \in Paths, NEW k \in Paths, NEW op \in Edge, NEW m \in SonsBy(k, op),
         m \in WayTo(n)
  PROVE  k \in WayTo(n)
<1>1. PICK i \in 0..Len(n) : m = SubSeq(n, 1, i)
  BY DEF WayTo
<1>2. Len(m) = i /\ Len(m) = Len(k) + 1 /\ Parent(m) = k
  BY <1>1, PrefixIs, SonIs
<1>3. Len(k) \in Nat /\ Len(n) \in Nat
  BY DEF Paths
<1>4. i - 1 \in 0..i /\ i - 1 \in 0..Len(n)
  BY <1>2, <1>3
<1>5. k = SubSeq(SubSeq(n, 1, i), 1, i - 1)
  BY <1>1, <1>2 DEF Parent
<1>6. k = SubSeq(n, 1, i - 1)
  BY <1>4, <1>5, PrefixOfPrefix
<1> QED
  BY <1>4, <1>6 DEF WayTo

(* What is on the way to the parent: everything but the path itself.       *)
LEMMA WayToParent ==
  ASSUME NEW n \in Paths, n # Root
  PROVE  Parent(n) \in WayTo(n) /\ WayTo(Parent(n)) = WayTo(n) \ {n}
<1>1. Len(n) \in Nat \ {0}
  BY EmptySeq DEF Paths, Root
<1>2. PICK l \in Nat : l = Len(n) - 1
  BY <1>1
<1>3. l \in 0..Len(n) /\ Parent(n) = SubSeq(n, 1, l)
  BY <1>1, <1>2 DEF Parent
<1>4. Parent(n) \in Paths /\ Len(Parent(n)) = l
  BY <1>3, PrefixIs
<1>5. \A j \in 0..l : SubSeq(Parent(n), 1, j) = SubSeq(n, 1, j)
  BY <1>3, PrefixOfPrefix
<1>6. WayTo(Parent(n)) = {SubSeq(n, 1, j) : j \in 0..l}
  BY <1>4, <1>5 DEF WayTo
<1>7. \A j \in 0..l : SubSeq(n, 1, j) # n
  <2> SUFFICES ASSUME NEW j \in 0..l
               PROVE  SubSeq(n, 1, j) # n
    OBVIOUS
  <2>1. j \in 0..Len(n) /\ j # Len(n)
    BY <1>1, <1>2
  <2> QED
    BY <2>1, PrefixIs
<1>8. SubSeq(n, 1, Len(n)) = n
  BY SelfIsPrefix
<1>9. 0..Len(n) = (0..l) \union {Len(n)}
  BY <1>1, <1>2
<1>10. WayTo(n) = {SubSeq(n, 1, j) : j \in 0..l} \union {n}
  BY <1>8, <1>9 DEF WayTo
<1> QED
  BY <1>3, <1>6, <1>7, <1>10 DEF WayTo

(* Only the initial state is on the way to itself.                         *)
LEMMA WayToRoot == Root \in Paths /\ WayTo(Root) = {Root}
<1>1. Root \in Paths /\ Len(Root) = 0
  BY DEF Paths, Root
<1>2. SubSeq(Root, 1, 0) = Root
  BY <1>1, SelfIsPrefix
<1>3. 0..Len(Root) = {0}
  BY <1>1
<1> QED
  BY <1>1, <1>2, <1>3 DEF WayTo
------------------------------------------------------------------------------
(* The nodes an expansion adds.                                            *)

(* A node nobody has looked at yet: a leaf whose value fits its marks.     *)
Fresh(r) == r \in NodeRecord /\ r.edges = <<>> /\ r.best = NoEdge /\ Consistent(r)

(* An action step leads from belief states to belief states.               *)
LEMMA ExtendedIs ==
  ASSUME NEW p, NEW S \in Beliefs(p), NEW op \in DOMAIN p.ops
  PROVE  Extended(S, p.ops[op]) \in Beliefs(p)
<1>1. ASSUME NEW h \in S
      PROVE  Append(h, Progress(Now(h), p.ops[op])) \in Seq(SUBSET FactsOf(p)) \ {<<>>}
  <2>1. h \in Seq(SUBSET FactsOf(p)) /\ Len(h) \in 1..Len(h)
    BY EmptySeq DEF Beliefs
  <2>2. Now(h) \in SUBSET FactsOf(p)
    BY <2>1, ElementOfSeq DEF Now
  <2>3. ASSUME NEW x \in Adds(Now(h), p.ops[op])
        PROVE  x \in FactsOf(p)
    <3>1. PICK e \in p.ops[op].effs : x \in e.A
      BY DEF Adds
    <3>2. x \in UNION {d.A : d \in p.ops[op].effs}
      BY <3>1
    <3> QED
      BY <3>2 DEF FactsOf
  <2> QED
    BY <2>1, <2>2, <2>3, AppendProperties DEF Progress
<1> QED
  BY <1>1 DEF Beliefs, Extended

(* So does a branch of an observation.                                     *)
LEMMA ObservedIs ==
  ASSUME NEW p, NEW S \in Beliefs(p), NEW f, NEW value
  PROVE  Observed(S, f, value) \in Beliefs(p)
<1>1. ASSUME NEW h \in S
      PROVE  Append(h, Now(h)) \in Seq(SUBSET FactsOf(p)) \ {<<>>}
  <2>1. h \in Seq(SUBSET FactsOf(p)) /\ Len(h) \in 1..Len(h)
    BY EmptySeq DEF Beliefs
  <2>2. Now(h) \in SUBSET FactsOf(p)
    BY <2>1, ElementOfSeq DEF Now
  <2> QED
    BY <2>1, <2>2, AppendProperties
<1> QED
  BY <1>1 DEF Beliefs, Observed

(* A new node has failed exactly if its value is infinite.                 *)
LEMMA NewNodeIs ==
  ASSUME HeuristicType, problem \in Problems, cmd \in Commands, NEW S \in Beliefs(problem)
  PROVE  Fresh(NewNode(problem, cmd, S))
<1>1. cmd.cost \in Nat /\ cmd.weight \in Nat
  BY SearchAssumption
<1>2. get_1P(problem, cmd, S) \in Nat \union {INFINITY}
  BY <1>1 DEF get_1P, HeuristicType
<1>3. PICK solved \in BOOLEAN : solved = (problem.goal \subseteq KnownIn(S))
  OBVIOUS
<1>4. PICK h \in Nat \union {INFINITY} : h = IF solved THEN 0 ELSE get_1P(problem, cmd, S)
  BY <1>2
<1>5. \A x, y \in Nat : x * y \in Nat
  OBVIOUS
<1>6. PICK f \in Nat \union {INFINITY} : f = IF h = INFINITY THEN INFINITY ELSE cmd.weight * h
  BY <1>1, <1>5
<1>7. PICK failed \in BOOLEAN : failed = (h = INFINITY)
  OBVIOUS
<1>8. (failed <=> f = INFINITY) /\ ~(solved /\ failed)
  <2>1. f = INFINITY <=> h = INFINITY
    BY <1>1, <1>5, <1>6 DEF INFINITY
  <2>2. solved => h # INFINITY
    BY <1>4 DEF INFINITY
  <2> QED
    BY <1>7, <2>1, <2>2
<1>9. PICK r : r = NewNode(problem, cmd, S)
  OBVIOUS
<1>10. r = [S |-> S, f |-> f, astar |-> f, solved |-> solved, failed |-> failed,
            edges |-> <<>>, best |-> NoEdge]
  <2>1. r = [S |-> S, f |-> f, astar |-> f, solved |-> solved, failed |-> (h = INFINITY),
             edges |-> <<>>, best |-> NoEdge]
    BY <1>3, <1>4, <1>6, <1>9 DEF NewNode
  <2> QED
    BY <1>7, <2>1, Zenon
<1>11. f \in Int /\ <<>> \in Seq(Edge)
  BY EmptySeq DEF INFINITY
<1>12. r \in NodeRecord
  BY <1>10, <1>11 DEF NodeRecord
<1>13. r.edges = <<>> /\ r.best = NoEdge /\ Consistent(r)
  BY <1>8, <1>10 DEF Consistent
<1> QED
  BY <1>9, <1>12, <1>13 DEF Fresh

(* The node of giving up counts as solved, at the cost of giving up.       *)
LEMMA GivenUpIs ==
  ASSUME cmd \in Commands
  PROVE  Fresh(GivenUp)
<1>1. cmd.cost \in Nat
  BY SearchAssumption
<1>2. <<>> \in Seq(Edge) /\ {} \in Beliefs(problem)
  BY EmptySeq DEF Beliefs
<1> QED
  BY <1>1, <1>2 DEF Fresh, NodeRecord, Consistent, GivenUp, INFINITY
------------------------------------------------------------------------------
(* The best edge of a node.                                                *)

Well ==
  /\ problem \in Problems /\ cmd \in Commands
  /\ SearchSpace
  /\ \A n \in DOMAIN nodes : Consistent(nodes[n])

(* Induction over the naturals, about a set.                               *)
LEMMA NatSetInduction ==
  ASSUME NEW T, 0 \in T, \A n \in Nat : n \in T => n + 1 \in T
  PROVE  Nat \subseteq T
<1> DEFINE Out == Nat \ T
           R == OpToRel(<, Nat)
<1> SUFFICES ASSUME Out # {} PROVE FALSE
  OBVIOUS
<1>1. PICK x \in Out : \A y \in Out : <<y, x>> \notin R
  BY NatLessThanWellFounded, WFMin
<1>2. x - 1 \in Nat /\ x = (x - 1) + 1
  OBVIOUS
<1>3. x - 1 \in T
  <2>1. <<x - 1, x>> \in R
    BY <1>2 DEF OpToRel
  <2> QED
    BY <1>1, <1>2, <2>1
<1> QED
  BY <1>2, <1>3

(* Values of outcomes combine to a value.                                  *)
LEMMA CombinedIs ==
  ASSUME cmd \in Commands, NEW t \in Int, NEW f \in Int
  PROVE  Combined(t, f) \in Int /\ (t \in Nat /\ f \in Nat => Combined(t, f) \in Nat)
<1>1. cmd.mode \in 0..2
  BY SearchAssumption
<1>2. cmd.mode = 0 \/ cmd.mode = 1 \/ cmd.mode = 2
  BY <1>1
<1>3. (t + f) \div 2 \in Int /\ (t \in Nat /\ f \in Nat => (t + f) \div 2 \in Nat)
  OBVIOUS
<1> QED
  BY <1>2, <1>3 DEF Combined, avg

(* The sons of an edge are nodes.                                          *)
LEMMA SonsAreNodes ==
  ASSUME SearchSpace, NEW n \in DOMAIN nodes, NEW op \in ToSet(nodes[n].edges)
  PROVE  /\ op \in Edge /\ n \in Paths
         /\ \A m \in SonsBy(n, op) : m \in DOMAIN nodes /\ nodes[m] \in NodeRecord
<1>1. nodes[n] \in NodeRecord /\ n \in Paths
  BY DEF SearchSpace
<1>2. nodes[n].edges \in Seq(Edge)
  BY <1>1 DEF NodeRecord
<1>3. op \in Edge
  BY <1>2 DEF ToSet
<1> QED
  BY <1>1, <1>3 DEF SearchSpace

(* The value of a live edge is a number of steps.                          *)
LEMMA EdgeValueIs ==
  ASSUME Well, NEW n \in DOMAIN nodes, NEW op \in LiveEdges(n)
  PROVE  EdgeF(n, op) \in Nat /\ EdgeAstar(n, op) \in Int
<1>1. op \in ToSet(nodes[n].edges) /\ ~EdgeFailed(n, op)
  BY DEF LiveEdges
<1>2. cmd \in Commands /\ SearchSpace
  BY DEF Well
<1>3. ASSUME NEW m \in SonsBy(n, op)
      PROVE  nodes[m].f \in Nat /\ nodes[m].astar \in Int
  <2>1. m \in DOMAIN nodes /\ nodes[m] \in NodeRecord
    BY <1>1, <1>2, SonsAreNodes
  <2>2. ~nodes[m].failed
    BY <1>1, <1>3 DEF EdgeFailed
  <2>3. Consistent(nodes[m])
    BY <2>1 DEF Well
  <2>4. nodes[m].f \in Nat \union {INFINITY} /\ nodes[m].astar \in Int
    BY <2>1 DEF NodeRecord
  <2> QED
    BY <2>2, <2>3, <2>4 DEF Consistent
<1>4. EdgeValue(n, op, "f") \in Nat /\ EdgeValue(n, op, "astar") \in Int
  <2>1. CASE observation(op)
    <3>1. TrueSon(n, op) \in SonsBy(n, op) /\ FalseSon(n, op) \in SonsBy(n, op)
      BY <2>1 DEF SonsBy
    <3> QED
      <4>1. PICK t \in Nat, f \in Nat : t = nodes[TrueSon(n, op)].f /\ f = nodes[FalseSon(n, op)].f
        BY <1>3, <3>1
      <4>2. PICK ta \in Int, fa \in Int :
              ta = nodes[TrueSon(n, op)].astar /\ fa = nodes[FalseSon(n, op)].astar
        BY <1>3, <3>1
      <4>3. Combined(t, f) \in Nat /\ Combined(ta, fa) \in Int
        BY <1>2, CombinedIs
      <4> QED
        BY <2>1, <4>1, <4>2, <4>3 DEF EdgeValue
  <2>2. CASE ~observation(op)
    <3>1. Son(n, op) \in SonsBy(n, op)
      BY <2>2 DEF SonsBy
    <3> QED
      BY <1>3, <2>2, <3>1 DEF EdgeValue
  <2> QED
    BY <2>1, <2>2
<1>5. action_cost(op) \in Nat
  BY <1>2, SearchAssumption DEF action_cost
<1> QED
  BY <1>4, <1>5 DEF EdgeF, EdgeAstar

Choice(m, a, e, s) == [min |-> m, astar |-> a, edge |-> e, solved |-> s]

(* What is known of the best edge among those of T.                        *)
BestAmong(n, b, T) ==
  IF T = {} THEN b = NoBest
  ELSE /\ b = Choice(b.min, b.astar, b.edge, b.solved) /\ b.edge \in T
       /\ b.min \in Nat /\ b.astar \in Int
       /\ b.solved = EdgeSolved(n, b.edge)
       /\ cmd.alg = 0 => b.min = EdgeF(n, b.edge) /\ \A op \in T : EdgeF(n, op) \in Nat /\ b.min <= EdgeF(n, op)

(* Considering one more edge keeps it so, whichever edge wins.             *)
LEMMA ConsiderIs ==
  ASSUME cmd \in Commands, NEW n, NEW op, EdgeF(n, op) \in Nat, EdgeAstar(n, op) \in Int,
         NEW T, NEW b, BestAmong(n, b, T)
  PROVE  BestAmong(n, ConsiderEdge(n, b, op), T \union {op})
<1>1. PICK f \in Nat, a \in Int : f = EdgeF(n, op) /\ a = EdgeAstar(n, op)
  OBVIOUS
<1>2. PICK s \in BOOLEAN : s = EdgeSolved(n, op)
  BY DEF EdgeSolved
<1>3. PICK taken : taken = IF b.min = -2 \/ f < b.min \/ (~observation(op) /\ f = b.min)
                           THEN Choice(f, a, op, s) ELSE b
  OBVIOUS
<1>4. PICK c : c = ConsiderEdge(n, b, op)
  OBVIOUS
<1>5. \/ cmd.alg = 1 /\ b.solved /\ ~s /\ c = b
      \/ cmd.alg = 1 /\ ~(b.solved /\ ~s) /\ c = [taken EXCEPT !.astar = a, !.edge = op, !.solved = s]
      \/ ~(cmd.alg = 1 /\ b.solved /\ ~s) /\ c = taken
  BY <1>1, <1>2, <1>3, <1>4 DEF ConsiderEdge, Choice
<1>6. CASE T = {}
  <2>1. b = Choice(-2, -2, NoEdge, FALSE)
    BY <1>6 DEF BestAmong, NoBest, Choice
  <2>2. taken = Choice(f, a, op, s) /\ ~b.solved
    BY <1>3, <2>1 DEF Choice
  <2>3. c = Choice(f, a, op, s)
    BY <1>5, <2>2 DEF Choice
  <2>4. c.edge = op /\ c.min = f /\ c.astar = a /\ c.solved = s
    BY <2>3 DEF Choice
  <2>5. c = Choice(c.min, c.astar, c.edge, c.solved)
    BY <2>3, <2>4
  <2> QED
    BY <1>1, <1>2, <1>4, <1>6, <2>4, <2>5 DEF BestAmong
<1>7. CASE T # {}
  <2>1. /\ b = Choice(b.min, b.astar, b.edge, b.solved)
        /\ b.edge \in T /\ b.min \in Nat /\ b.astar \in Int
        /\ b.solved = EdgeSolved(n, b.edge)
        /\ cmd.alg = 0 => b.min = EdgeF(n, b.edge) /\ \A o \in T : EdgeF(n, o) \in Nat /\ b.min <= EdgeF(n, o)
    BY <1>7 DEF BestAmong
  <2>2. \/ taken = Choice(f, a, op, s) /\ f <= b.min
        \/ taken = b /\ b.min <= f
    BY <1>3, <2>1
  <2>3. \/ c = b /\ (cmd.alg = 0 => b.min <= f)
        \/ c = Choice(f, a, op, s) /\ (cmd.alg = 0 => f <= b.min)
        \/ cmd.alg = 1 /\ c = Choice(b.min, a, op, s)
    <3>1. CASE cmd.alg = 1 /\ b.solved /\ ~s /\ c = b
      BY <3>1
    <3>2. CASE cmd.alg = 1 /\ c = [taken EXCEPT !.astar = a, !.edge = op, !.solved = s]
      <4>1. CASE taken = Choice(f, a, op, s) /\ f <= b.min
        <5>1. c = Choice(f, a, op, s)
          BY <3>2, <4>1 DEF Choice
        <5> QED
          BY <4>1, <5>1
      <4>2. CASE taken = b
        <5>1. PICK m, x, e, y : b = Choice(m, x, e, y) /\ m = b.min
          BY <2>1
        <5>2. c = Choice(m, a, op, s)
          BY <3>2, <4>2, <5>1 DEF Choice
        <5> QED
          BY <3>2, <5>1, <5>2
      <4> QED
        BY <2>2, <4>1, <4>2
    <3>3. CASE c = taken
      BY <2>2, <3>3
    <3> QED
      BY <1>5, <3>1, <3>2, <3>3
  <2>4. CASE c = b /\ (cmd.alg = 0 => b.min <= f)
    BY <1>1, <1>4, <2>1, <2>4 DEF BestAmong
  <2>5. CASE c = Choice(f, a, op, s) /\ (cmd.alg = 0 => f <= b.min)
    <3>1. c.min = f /\ c.astar = a /\ c.edge = op /\ c.solved = s
      BY <2>5 DEF Choice
    <3>2. c = Choice(c.min, c.astar, c.edge, c.solved)
      BY <2>5, <3>1, Zenon
    <3>3. cmd.alg = 0 => \A o \in T \union {op} : EdgeF(n, o) \in Nat /\ f <= EdgeF(n, o)
      <4> SUFFICES ASSUME cmd.alg = 0, NEW o \in T
                   PROVE  EdgeF(n, o) \in Nat /\ f <= EdgeF(n, o)
        BY <1>1
      <4> QED
        BY <2>1, <2>5
    <3> QED
      BY <1>1, <1>2, <1>4, <3>1, <3>2, <3>3 DEF BestAmong
  <2>6. CASE cmd.alg = 1 /\ c = Choice(b.min, a, op, s)
    <3>1. c.min = b.min /\ c.astar = a /\ c.edge = op /\ c.solved = s
      BY <2>6 DEF Choice
    <3>2. c = Choice(c.min, c.astar, c.edge, c.solved)
      BY <2>6, <3>1, Zenon
    <3>3. cmd.alg # 0
      BY <2>6
    <3> QED
      BY <1>1, <1>2, <1>4, <2>1, <3>1, <3>2, <3>3 DEF BestAmong
  <2> QED
    BY <2>3, <2>4, <2>5, <2>6
<1> QED
  BY <1>6, <1>7

(* best is the best edge after each edge of a list.                        *)
IsConsidered(best, n, edges) ==
  best = [i \in 0..Len(edges) |->
            IF i = 0 THEN NoBest
            ELSE IF EdgeFailed(n, edges[i]) THEN best[i - 1]
            ELSE ConsiderEdge(n, best[i - 1], edges[i])]

ConsideredUpTo(best, n, edges, k) ==
  best = [i \in 0..k |->
            IF i = 0 THEN NoBest
            ELSE IF EdgeFailed(n, edges[i]) THEN best[i - 1]
            ELSE ConsiderEdge(n, best[i - 1], edges[i])]

(* Every list of edges can be gone through, by induction on its length.    *)
LEMMA ConsideredExists ==
  ASSUME NEW n, NEW edges, Len(edges) \in Nat
  PROVE  \E best : IsConsidered(best, n, edges)
<1> DEFINE T == {k \in Nat : \E best : ConsideredUpTo(best, n, edges, k)}
<1>1. 0 \in T
  <2>1. ConsideredUpTo([i \in 0..0 |-> NoBest], n, edges, 0)
    BY DEF ConsideredUpTo
  <2> QED
    BY <2>1
<1>2. ASSUME NEW k \in Nat, k \in T
      PROVE  k + 1 \in T
  <2>1. PICK f : ConsideredUpTo(f, n, edges, k)
    BY <1>2
  <2>2. PICK last : last = IF EdgeFailed(n, edges[k + 1]) THEN f[k]
                           ELSE ConsiderEdge(n, f[k], edges[k + 1])
    OBVIOUS
  <2>3. PICK g : g = [i \in 0..k + 1 |-> IF i <= k THEN f[i] ELSE last]
    OBVIOUS
  <2>4. ASSUME NEW i \in 0..k + 1
        PROVE  g[i] = IF i = 0 THEN NoBest
                      ELSE IF EdgeFailed(n, edges[i]) THEN g[i - 1]
                      ELSE ConsiderEdge(n, g[i - 1], edges[i])
    <3>1. CASE i = k + 1
      <4>1. i - 1 = k /\ g[k] = f[k] /\ g[i] = last /\ i # 0
        BY <2>3, <3>1
      <4> QED
        BY <2>2, <3>1, <4>1
    <3>2. CASE i \in 0..k
      <4>1. f[i] = IF i = 0 THEN NoBest
                   ELSE IF EdgeFailed(n, edges[i]) THEN f[i - 1]
                   ELSE ConsiderEdge(n, f[i - 1], edges[i])
        BY <2>1, <3>2 DEF ConsideredUpTo
      <4>2. g[i] = f[i] /\ (i # 0 => g[i - 1] = f[i - 1])
        BY <2>3, <3>2
      <4> QED
        BY <4>1, <4>2
    <3> QED
      BY <3>1, <3>2
  <2>5. ConsideredUpTo(g, n, edges, k + 1)
    BY <2>3, <2>4 DEF ConsideredUpTo
  <2> QED
    BY <2>5
<1> HIDE DEF T
<1>3. Nat \subseteq T
  BY <1>1, <1>2, NatSetInduction
<1> QED
  BY <1>3 DEF T, ConsideredUpTo, IsConsidered

LiveUpTo(n, k) == {op \in {nodes[n].edges[j] : j \in 1..k} : ~EdgeFailed(n, op)}

(* The loop over the edges of a node finds the best of its live edges.     *)
LEMMA BestOfIs ==
  ASSUME Well, NEW n \in DOMAIN nodes
  PROVE  BestAmong(n, BestOf(n), LiveEdges(n))
<1>1. PICK edges : edges = nodes[n].edges
  OBVIOUS
<1>2. edges \in Seq(Edge) /\ cmd \in Commands
  BY <1>1 DEF Well, SearchSpace, NodeRecord
<1>3. PICK N \in Nat : N = Len(edges)
  BY <1>2
<1>4. \E best : IsConsidered(best, n, edges)
  BY <1>3, ConsideredExists
<1>5. PICK best : best = CHOOSE b : IsConsidered(b, n, edges)
  OBVIOUS
<1>6. IsConsidered(best, n, edges)
  BY <1>4, <1>5
<1>7. BestOf(n) = best[N]
  BY <1>1, <1>3, <1>5, Zenon DEF BestOf, IsConsidered
<1>8. LiveUpTo(n, N) = LiveEdges(n)
  BY <1>1, <1>2, <1>3 DEF LiveUpTo, LiveEdges, ToSet
<1> DEFINE T == {k \in Nat : k <= N => BestAmong(n, best[k], LiveUpTo(n, k))}
<1>9. 0 \in T
  <2>1. LiveUpTo(n, 0) = {}
    BY DEF LiveUpTo
  <2>2. best[0] = NoBest
    BY <1>3, <1>6 DEF IsConsidered
  <2> QED
    BY <2>1, <2>2 DEF BestAmong
<1>10. ASSUME NEW k \in Nat, k \in T
       PROVE  k + 1 \in T
  <2> SUFFICES ASSUME k + 1 <= N
               PROVE  BestAmong(n, best[k + 1], LiveUpTo(n, k + 1))
    OBVIOUS
  <2>1. BestAmong(n, best[k], LiveUpTo(n, k))
    BY <1>3, <1>10
  <2>2. PICK op : op = edges[k + 1]
    OBVIOUS
  <2>3. best[k + 1] = IF EdgeFailed(n, op) THEN best[k] ELSE ConsiderEdge(n, best[k], op)
    <3>1. k + 1 \in 0..Len(edges) /\ k + 1 # 0 /\ (k + 1) - 1 = k
      BY <1>3
    <3> QED
      BY <1>6, <2>2, <3>1 DEF IsConsidered
  <2>4. LiveUpTo(n, k + 1) = LiveUpTo(n, k) \union (IF EdgeFailed(n, op) THEN {} ELSE {op})
    <3>1. 1..k + 1 = (1..k) \union {k + 1}
      OBVIOUS
    <3> QED
      BY <1>1, <2>2, <3>1 DEF LiveUpTo
  <2>5. CASE EdgeFailed(n, op)
    BY <2>1, <2>3, <2>4, <2>5
  <2>6. CASE ~EdgeFailed(n, op)
    <3>1. op \in LiveEdges(n)
      BY <1>1, <1>2, <1>3, <2>2, <2>6 DEF LiveEdges, ToSet
    <3>2. EdgeF(n, op) \in Nat /\ EdgeAstar(n, op) \in Int
      BY <3>1, EdgeValueIs
    <3>3. BestAmong(n, ConsiderEdge(n, best[k], op), LiveUpTo(n, k) \union {op})
      BY <1>2, <2>1, <3>2, ConsiderIs
    <3> QED
      BY <2>3, <2>4, <2>6, <3>3
  <2> QED
    BY <2>5, <2>6
<1> HIDE DEF T
<1>11. Nat \subseteq T
  BY <1>9, <1>10, NatSetInduction
<1> QED
  BY <1>7, <1>8, <1>11 DEF T
------------------------------------------------------------------------------
(* What a step does to the rest of the tree.                               *)

(* What is said of an edge stays while the sons are as before.             *)
LEMMA EdgesStay ==
  ASSUME problem' = problem, cmd' = cmd, NEW n, NEW op,
         \A m \in SonsBy(n, op) : nodes'[m] = nodes[m]
  PROVE  /\ EdgeSolved(n, op)' = EdgeSolved(n, op)
         /\ EdgeFailed(n, op)' = EdgeFailed(n, op)
         /\ EdgeF(n, op)' = EdgeF(n, op)
<1>1. PICK later : later = nodes'
  OBVIOUS
<1>2. observation(op)' = observation(op) /\ action_cost(op)' = action_cost(op)
  BY DEF observation, action_cost
<1>3. SonsBy(n, op)' = SonsBy(n, op)
  BY <1>2 DEF SonsBy, TrueSon, FalseSon, Son
<1>4. \A m \in SonsBy(n, op) : later[m] = nodes[m]
  BY <1>1
<1>5. EdgeSolved(n, op)' = (\A m \in SonsBy(n, op) : later[m].solved)
  BY <1>1, <1>3 DEF EdgeSolved
<1>6. EdgeFailed(n, op)' = (\E m \in SonsBy(n, op) : later[m].failed)
  BY <1>1, <1>3 DEF EdgeFailed
<1>7. EdgeSolved(n, op)' = EdgeSolved(n, op)
  BY <1>4, <1>5 DEF EdgeSolved
<1>8. EdgeFailed(n, op)' = EdgeFailed(n, op)
  BY <1>4, <1>6 DEF EdgeFailed
<1>9. EdgeValue(n, op, "f")' = EdgeValue(n, op, "f")
  <2>1. CASE observation(op)
    <3>1. TrueSon(n, op) \in SonsBy(n, op) /\ FalseSon(n, op) \in SonsBy(n, op)
      BY <2>1 DEF SonsBy
    <3>2. later[TrueSon(n, op)] = nodes[TrueSon(n, op)] /\ later[FalseSon(n, op)] = nodes[FalseSon(n, op)]
      BY <1>4, <3>1
    <3> QED
      <4>1. \A t, f : Combined(t, f)' = Combined(t, f)
        BY DEF Combined
      <4>2. EdgeValue(n, op, "f") = Combined(nodes[TrueSon(n, op)].f, nodes[FalseSon(n, op)].f)
        BY <2>1 DEF EdgeValue
      <4>3. EdgeValue(n, op, "f")'
              = Combined(later[TrueSon(n, op)].f, later[FalseSon(n, op)].f)'
        BY <1>1, <1>2, <2>1 DEF EdgeValue, TrueSon, FalseSon
      <4> QED
        BY <3>2, <4>1, <4>2, <4>3
  <2>2. CASE ~observation(op)
    <3>1. later[Son(n, op)] = nodes[Son(n, op)]
      BY <1>4, <2>2 DEF SonsBy
    <3> QED
      BY <1>1, <1>2, <2>2, <3>1 DEF EdgeValue, Son
  <2> QED
    BY <2>1, <2>2
<1>10. EdgeF(n, op)' = EdgeF(n, op)
  BY <1>2, <1>9 DEF EdgeF
<1> QED
  BY <1>7, <1>8, <1>10

(* A node is settled as before while it and its sons are as before.        *)
LEMMA StaysSettled ==
  ASSUME problem' = problem, cmd' = cmd, NEW n, Settled(n), nodes'[n] = nodes[n],
         \A op \in ToSet(nodes[n].edges) : \A m \in SonsBy(n, op) : nodes'[m] = nodes[m]
  PROVE  Settled(n)'
<1>4. ASSUME NEW op \in ToSet(nodes[n].edges)
      PROVE  /\ EdgeSolved(n, op)' = EdgeSolved(n, op)
             /\ EdgeFailed(n, op)' = EdgeFailed(n, op)
             /\ EdgeF(n, op)' = EdgeF(n, op)
  BY EdgesStay
<1>5. LiveEdges(n)' = LiveEdges(n)
  BY <1>4 DEF LiveEdges
<1>6. \A op \in LiveEdges(n) : op \in ToSet(nodes[n].edges)
  BY DEF LiveEdges
<1>7. CASE nodes[n].best # NoEdge /\ ~nodes[n].failed
  <2>1. nodes[n].best \in LiveEdges(n)
    BY <1>7 DEF Settled
  <2>2. nodes[n].best \in ToSet(nodes[n].edges)
    BY <1>6, <2>1
  <2>3. nodes[n].solved = EdgeSolved(n, nodes[n].best)
    BY <1>7 DEF Settled
  <2>4. (nodes[n].solved = EdgeSolved(n, nodes[n].best))'
    BY <1>4, <2>2, <2>3
  <2>5. cmd.alg = 0 => /\ nodes[n].f = EdgeF(n, nodes[n].best)
                       /\ \A op \in LiveEdges(n) : nodes[n].f <= EdgeF(n, op)
    BY <1>7 DEF Settled
  <2>6. (cmd.alg = 0 => /\ nodes[n].f = EdgeF(n, nodes[n].best)
                        /\ \A op \in LiveEdges(n) : nodes[n].f <= EdgeF(n, op))'
    BY <1>4, <1>5, <1>6, <2>2, <2>5
  <2> QED
    BY <1>5, <2>1, <2>4, <2>6 DEF Settled
<1>8. CASE ~(nodes[n].best # NoEdge /\ ~nodes[n].failed)
  BY <1>8 DEF Settled
<1> QED
  BY <1>7, <1>8

(* Adding the sons of an edge of the leaf keeps the rest of the space.     *)
Grown ==
  /\ SearchSpace'
  /\ DOMAIN nodes \subseteq DOMAIN nodes'
  /\ (\A n \in DOMAIN nodes : Consistent(nodes[n]))'
  /\ \A n \in WayTo(leaf) : Undecided(n)'
  /\ \A n \in DOMAIN nodes' \ WayTo(leaf) : Settled(n)'

(* An edge more in front of its list, and the rest of a node as before.    *)
LEMMA EdgeAdded ==
  ASSUME NEW r \in NodeRecord, NEW op \in Edge, NEW node,
         node = [r EXCEPT !.edges = <<op>> \o @]
  PROVE  /\ node \in NodeRecord
         /\ node.S = r.S /\ node.f = r.f /\ node.best = r.best
         /\ node.solved = r.solved /\ node.failed = r.failed
         /\ ToSet(node.edges) = {op} \union ToSet(r.edges)
<1>1. r.edges \in Seq(Edge) /\ <<op>> \in Seq(Edge)
  BY DEF NodeRecord
<1>2. PICK edges \in Seq(Edge) : edges = <<op>> \o r.edges
  BY <1>1, ConcatProperties
<1>3. node = [r EXCEPT !.edges = edges]
  BY <1>2
<1>4. node \in NodeRecord /\ node.edges = edges
  <2>1. PICK B, V, E : B = Beliefs(problem) /\ V = Nat \union {INFINITY} /\ E = Edge \union {NoEdge}
    OBVIOUS
  <2>2. NodeRecord = [S : B, f : V, astar : Int, solved : BOOLEAN, failed : BOOLEAN,
                      edges : Seq(Edge), best : E]
    BY <2>1 DEF NodeRecord
  <2> QED
    BY <1>3, <2>2
<1>5. /\ node.S = r.S /\ node.f = r.f /\ node.best = r.best
      /\ node.solved = r.solved /\ node.failed = r.failed
  BY <1>3 DEF NodeRecord
<1>6. PICK old \in Seq(Edge) : old = r.edges
  BY <1>1
<1>7. /\ Len(edges) = Len(old) + 1 /\ Len(old) \in Nat /\ edges[1] = op
      /\ \A i \in 1..Len(old) : edges[i + 1] = old[i]
  <2>1. edges = <<op>> \o old
    BY <1>2, <1>6
  <2>2. Len(old) \in Nat /\ Len(<<op>>) = 1 /\ <<op>>[1] = op
    BY <1>6
  <2>3. /\ Len(edges) = 1 + Len(old)
        /\ \A i \in 1..1 + Len(old) : edges[i] = IF i <= 1 THEN <<op>>[i] ELSE old[i - 1]
    BY <1>1, <2>1, <2>2, ConcatProperties
  <2>4. edges[1] = op
    <3>1. 1 \in 1..1 + Len(old) /\ 1 <= 1
      BY <2>2
    <3> QED
      BY <2>2, <2>3, <3>1
  <2>5. ASSUME NEW i \in 1..Len(old) PROVE edges[i + 1] = old[i]
    <3>1. i + 1 \in 1..1 + Len(old) /\ ~(i + 1 <= 1) /\ (i + 1) - 1 = i
      BY <2>2
    <3> QED
      BY <2>3, <3>1
  <2> QED
    BY <2>2, <2>3, <2>4, <2>5
<1>8. ToSet(edges) = {edges[i] : i \in 1..Len(old) + 1} /\ ToSet(old) = {old[i] : i \in 1..Len(old)}
  <2>1. DOMAIN edges = 1..Len(edges) /\ DOMAIN old = 1..Len(old) /\ Len(edges) = Len(old) + 1
    BY <1>7
  <2>2. DOMAIN edges = 1..Len(old) + 1
    BY <2>1
  <2> QED
    BY <2>1, <2>2, Zenon DEF ToSet
<1>9. ToSet(edges) = {op} \union ToSet(old)
  <2>1. ASSUME NEW x \in ToSet(edges)
        PROVE  x \in {op} \union ToSet(old)
    <3>1. PICK i \in 1..Len(old) + 1 : x = edges[i]
      BY <1>8
    <3>2. CASE i = 1
      BY <1>7, <3>1, <3>2
    <3>3. CASE i # 1
      <4>1. i - 1 \in 1..Len(old) /\ (i - 1) + 1 = i
        BY <1>7, <3>3
      <4> QED
        BY <1>7, <1>8, <3>1, <4>1
    <3> QED
      BY <3>2, <3>3
  <2>2. ASSUME NEW x \in ToSet(old)
        PROVE  x \in ToSet(edges)
    <3>1. PICK i \in 1..Len(old) : x = old[i]
      BY <1>8
    <3>2. i + 1 \in 1..Len(old) + 1
      BY <1>7
    <3> QED
      BY <1>7, <1>8, <3>1, <3>2
  <2>3. op \in ToSet(edges)
    <3>1. 1 \in 1..Len(old) + 1
      BY <1>7
    <3> QED
      BY <1>7, <1>8, <3>1
  <2> QED
    BY <2>1, <2>2, <2>3
<1> QED
  BY <1>4, <1>5, <1>6, <1>9

(* An expansion touches the leaf and its new sons, and nothing else.       *)
LEMMA GrowsWell ==
  ASSUME SearchInv, pc = "expand", problem' = problem, cmd' = cmd,
         NEW op \in Edge, NEW sons, DOMAIN sons = SonsBy(leaf, op),
         \A m \in SonsBy(leaf, op) : Fresh(sons[m]),
         AddToBfsSpace(op, sons)
  PROVE  Grown
<1>1. PICK later : later = nodes'
  OBVIOUS
<1>2. PICK new : new = SonsBy(leaf, op)
  OBVIOUS
<1>3. SearchSpace /\ leaf \in DOMAIN nodes /\ leaf \in Paths /\ nodes[leaf] \in NodeRecord
  BY DEF SearchInv, SearchSpace
<1>4. ASSUME NEW m \in new
      PROVE  m \in Paths /\ Len(m) = Len(leaf) + 1 /\ Parent(m) = leaf
  BY <1>2, <1>3, SonIs
<1>5. Len(leaf) \in Nat /\ leaf \notin new
  BY <1>3, <1>4 DEF Paths
<1>6. PICK node : node = [nodes[leaf] EXCEPT !.edges = <<op>> \o @]
  OBVIOUS
<1>7. /\ DOMAIN later = DOMAIN nodes \union new
      /\ \A n \in DOMAIN later : later[n] = IF n \in new THEN sons[n]
                                            ELSE IF n = leaf THEN node ELSE nodes[n]
      /\ later = [n \in DOMAIN later |-> later[n]]
  BY <1>1, <1>2, <1>6, Zenon DEF AddToBfsSpace
<1>8. /\ node \in NodeRecord
      /\ node.solved = nodes[leaf].solved /\ node.failed = nodes[leaf].failed
      /\ node.f = nodes[leaf].f /\ ToSet(node.edges) = {op} \union ToSet(nodes[leaf].edges)
  <2>1. PICK r : r = nodes[leaf]
    OBVIOUS
  <2>2. r \in NodeRecord /\ node = [r EXCEPT !.edges = <<op>> \o @]
    BY <1>3, <1>6, <2>1
  <2>3. /\ node \in NodeRecord /\ node.solved = r.solved /\ node.failed = r.failed
        /\ node.f = r.f /\ ToSet(node.edges) = {op} \union ToSet(r.edges)
    BY <2>2, EdgeAdded, ZenonT(30)
  <2> QED
    BY <2>1, <2>3
<1>9. ASSUME NEW n \in DOMAIN later
      PROVE  n \in Paths /\ later[n] \in NodeRecord /\ Consistent(later[n])
  <2>1. CASE n \in new
    BY <1>2, <1>4, <1>7, <2>1 DEF Fresh
  <2>2. CASE n \notin new /\ n = leaf
    <3>1. Consistent(nodes[leaf])
      BY <1>3 DEF SearchInv
    <3> QED
      BY <1>3, <1>7, <1>8, <2>2, <3>1 DEF Consistent
  <2>3. CASE n \notin new /\ n # leaf
    <3>1. n \in DOMAIN nodes /\ later[n] = nodes[n]
      BY <1>7, <2>3
    <3> QED
      BY <1>3, <3>1 DEF SearchInv, SearchSpace
  <2> QED
    BY <2>1, <2>2, <2>3
<1>10. ASSUME NEW n \in DOMAIN later, NEW o \in ToSet(later[n].edges)
       PROVE  SonsBy(n, o) \subseteq DOMAIN later
  <2>1. CASE n \in new
    <3>1. later[n].edges = <<>>
      BY <1>2, <1>7, <2>1 DEF Fresh
    <3> QED
      BY <3>1 DEF ToSet
  <2>2. CASE n \notin new /\ n = leaf
    <3>1. o = op \/ o \in ToSet(nodes[leaf].edges)
      BY <1>7, <1>8, <2>2
    <3>2. ASSUME o \in ToSet(nodes[leaf].edges)
          PROVE  SonsBy(leaf, o) \subseteq DOMAIN nodes
      BY <1>3, <3>2 DEF SearchSpace
    <3> QED
      BY <1>2, <1>7, <2>2, <3>1, <3>2
  <2>3. CASE n \notin new /\ n # leaf
    <3>1. n \in DOMAIN nodes /\ o \in ToSet(nodes[n].edges)
      BY <1>7, <2>3
    <3> QED
      BY <1>3, <1>7, <3>1 DEF SearchSpace
  <2> QED
    BY <2>1, <2>2, <2>3
<1>11. \A n, o : SonsBy(n, o)' = SonsBy(n, o)
  BY DEF SonsBy, TrueSon, FalseSon, Son, observation
<1>12. Paths' = Paths /\ NodeRecord' = NodeRecord
  BY DEF Paths, NodeRecord, Edge
<1>13. SearchSpace'
  <2>1. Root \in DOMAIN later
    BY <1>3, <1>7 DEF SearchSpace
  <2> QED
    BY <1>1, <1>7, <1>9, <1>10, <1>11, <1>12, <2>1 DEF SearchSpace
<1>14. ASSUME NEW n \in WayTo(leaf)
       PROVE  Undecided(n)'
  <2>1. Undecided(n)
    BY DEF SearchInv, Pending
  <2>2. Len(n) \in 0..Len(leaf)
    BY <1>3, PrefixesArePaths
  <2>3. n \notin new
    BY <1>4, <1>5, <2>2
  <2>4. n \in DOMAIN later /\ later[n].solved = nodes[n].solved /\ later[n].failed = nodes[n].failed
    BY <1>7, <1>8, <2>1, <2>3 DEF Undecided
  <2> QED
    BY <1>1, <2>1, <2>4 DEF Undecided
<1>15. ASSUME NEW n \in DOMAIN later, n \notin WayTo(leaf)
       PROVE  Settled(n)'
  <2>1. CASE n \in new
    <3>1. later[n].best = NoEdge
      BY <1>2, <1>7, <2>1 DEF Fresh
    <3> QED
      BY <1>1, <3>1 DEF Settled
  <2>2. CASE n \notin new
    <3>1. leaf \in WayTo(leaf)
      BY <1>3, SelfIsPrefix
    <3>2. n # leaf /\ n \in DOMAIN nodes /\ later[n] = nodes[n] /\ n \in Paths
      BY <1>3, <1>7, <1>15, <2>2, <3>1 DEF SearchSpace
    <3>3. Settled(n)
      BY <1>15, <3>2 DEF SearchInv, Pending
    <3>4. ASSUME NEW o \in ToSet(nodes[n].edges), NEW m \in SonsBy(n, o)
          PROVE  later[m] = nodes[m]
      <4>1. o \in Edge /\ m \in DOMAIN nodes
        BY <1>3, <3>2, SonsAreNodes
      <4>2. Parent(m) = n
        BY <3>2, <4>1, SonIs
      <4>3. m \notin new
        BY <1>4, <3>2, <4>2
      <4>4. m # leaf
        BY <1>3, <1>15, <3>1, <3>2, <4>1, ParentOnTheWay
      <4> QED
        BY <1>7, <4>1, <4>3, <4>4
    <3> QED
      BY <1>1, <3>2, <3>3, <3>4, StaysSettled
  <2> QED
    BY <2>1, <2>2
<1> QED
  BY <1>1, <1>7, <1>9, <1>13, <1>14, <1>15 DEF Grown
------------------------------------------------------------------------------
(* Bringing one node up to date.                                           *)

(* No test for a value that does not fit its mark fires.                   *)
LEMMA NoBadValues ==
  ASSUME Well, NEW n \in DOMAIN nodes
  PROVE  ~BadValues(n)
<1> SUFFICES ASSUME NEW op \in ToSet(nodes[n].edges), NEW m \in SonsBy(n, op)
             PROVE  IF nodes[m].failed THEN nodes[m].f = INFINITY ELSE ~(nodes[m].f < 0)
  BY DEF BadValues
<1>1. m \in DOMAIN nodes /\ nodes[m] \in NodeRecord
  BY SonsAreNodes DEF Well
<1>2. Consistent(nodes[m])
  BY <1>1 DEF Well
<1>3. nodes[m].f \in Nat \union {INFINITY}
  BY <1>1 DEF NodeRecord
<1> QED
  BY <1>2, <1>3 DEF Consistent

(* A null pointer is not an edge.                                          *)
LEMMA EdgesNamed ==
  ASSUME problem \in Problems
  PROVE  NoEdge \notin Edge
<1>1. NoEdge \notin DOMAIN problem.ops
  BY SearchAssumption
<1>2. NoEdge # GIVEUP
  BY DEF NoEdge, GIVEUP
<1> QED
  BY <1>1, <1>2 DEF Edge

(* The new record of a node fits the edges of the node.                    *)
SettledAs(n, r) ==
  r.best # NoEdge /\ ~r.failed =>
    /\ r.best \in LiveEdges(n)
    /\ r.solved = EdgeSolved(n, r.best)
    /\ cmd.alg = 0 => r.f = EdgeF(n, r.best) /\ \A op \in LiveEdges(n) : r.f <= EdgeF(n, op)

(* An undecided node that is brought up to date is settled.                *)
LEMMA UpdatedIs ==
  ASSUME Well, NEW n \in DOMAIN nodes, Undecided(n)
  PROVE  /\ Updated(n) \in NodeRecord
         /\ Updated(n).edges = nodes[n].edges /\ Updated(n).S = nodes[n].S
         /\ Updated(n).solved => Updated(n).best # NoEdge
         /\ Consistent(Updated(n))
         /\ SettledAs(n, Updated(n))
<1>1. PICK old : old = nodes[n]
  OBVIOUS
<1>2. old \in NodeRecord /\ ~old.solved /\ ~old.failed
  BY <1>1 DEF Well, SearchSpace, Undecided
<1>3. PICK B, V, E : B = Beliefs(problem) /\ V = Nat \union {INFINITY} /\ E = Edge \union {NoEdge}
  OBVIOUS
<1>4. NodeRecord = [S : B, f : V, astar : Int, solved : BOOLEAN, failed : BOOLEAN,
                    edges : Seq(Edge), best : E]
  BY <1>3 DEF NodeRecord
<1>5. PICK r : r = Updated(n)
  OBVIOUS
<1>6. CASE LiveEdges(n) = {}
  <2>1. r = [old EXCEPT !.failed = TRUE, !.f = INFINITY]
    BY <1>1, <1>5, <1>6 DEF Updated
  <2>2. INFINITY \in V
    BY <1>3
  <2>3. /\ r \in NodeRecord /\ r.edges = old.edges /\ r.S = old.S
        /\ r.failed /\ r.f = INFINITY /\ ~r.solved
    BY <1>2, <1>4, <2>1, <2>2
  <2> QED
    BY <1>1, <1>5, <2>3 DEF Consistent, SettledAs
<1>7. CASE LiveEdges(n) # {}
  <2>1. PICK b : b = BestOf(n)
    OBVIOUS
  <2>2. BestAmong(n, b, LiveEdges(n))
    BY <2>1, BestOfIs
  <2>3. /\ b.edge \in LiveEdges(n) /\ b.min \in Nat /\ b.astar \in Int
        /\ b.solved = EdgeSolved(n, b.edge)
        /\ cmd.alg = 0 => b.min = EdgeF(n, b.edge) /\ \A op \in LiveEdges(n) : b.min <= EdgeF(n, op)
    BY <1>7, <2>2 DEF BestAmong
  <2>4. PICK s \in BOOLEAN : s = EdgeSolved(n, b.edge)
    BY DEF EdgeSolved
  <2>5. b.edge \in Edge
    BY <2>3, SonsAreNodes DEF LiveEdges, Well
  <2>6. r = [old EXCEPT !.f = b.min, !.astar = b.astar, !.best = b.edge, !.solved = @ \/ b.solved]
    BY <1>1, <1>5, <1>7, <2>1 DEF Updated
  <2>7. r = [old EXCEPT !.f = b.min, !.astar = b.astar, !.best = b.edge, !.solved = s]
    <3>1. (old.solved \/ b.solved) = s
      BY <1>2, <2>3, <2>4
    <3> QED
      BY <1>2, <1>4, <2>6, <3>1
  <2>8. b.min \in V /\ b.edge \in E /\ b.min # INFINITY
    BY <1>3, <2>3, <2>5 DEF INFINITY
  <2>9. r \in NodeRecord
    BY <1>2, <1>4, <2>3, <2>7, <2>8
  <2>10. /\ r.edges = old.edges /\ r.S = old.S /\ r.failed = old.failed /\ r.f = b.min
         /\ r.best = b.edge /\ r.solved = s
    BY <1>2, <1>4, <2>7
  <2>11. Consistent(r)
    BY <1>2, <2>8, <2>10 DEF Consistent
  <2>12. SettledAs(n, r)
    BY <2>3, <2>4, <2>10 DEF SettledAs
  <2>13. r.best # NoEdge
    BY <2>5, <2>10, EdgesNamed DEF Well
  <2> QED
    BY <1>1, <1>5, <2>9, <2>10, <2>11, <2>12, <2>13
<1> QED
  BY <1>6, <1>7
------------------------------------------------------------------------------
(* The walk to the open leaf.                                              *)

(* The better son of an undecided node is undecided.                       *)
LEMMA BestSonIs ==
  ASSUME Well, NEW k, Undecided(k), Settled(k), nodes[k].best # NoEdge
  PROVE  Undecided(BestSon(k))
<1>1. PICK op : op = nodes[k].best
  OBVIOUS
<1>2. k \in DOMAIN nodes /\ op \in LiveEdges(k) /\ ~EdgeSolved(k, op)
  BY <1>1 DEF Undecided, Settled
<1>3. ASSUME NEW m \in SonsBy(k, op)
      PROVE  m \in DOMAIN nodes /\ ~nodes[m].failed
  BY <1>2, SonsAreNodes DEF LiveEdges, EdgeFailed, Well
<1>4. \E m \in SonsBy(k, op) : ~nodes[m].solved
  BY <1>2 DEF EdgeSolved
<1>5. CASE observation(op)
  <2>1. SonsBy(k, op) = {TrueSon(k, op), FalseSon(k, op)}
    BY <1>5 DEF SonsBy
  <2>2. CASE nodes[TrueSon(k, op)].solved
    BY <1>1, <1>3, <1>4, <1>5, <2>1, <2>2 DEF BestSon, Undecided
  <2>3. CASE ~nodes[TrueSon(k, op)].solved
    BY <1>1, <1>3, <1>5, <2>1, <2>3 DEF BestSon, Undecided
  <2> QED
    BY <2>2, <2>3
<1>6. CASE ~observation(op)
  <2>1. SonsBy(k, op) = {Son(k, op)}
    BY <1>6 DEF SonsBy
  <2> QED
    BY <1>1, <1>3, <1>4, <1>6, <2>1 DEF BestSon, Undecided
<1> QED
  BY <1>5, <1>6

(* The way to the open leaf meets no solved and no failed node.            *)
LEMMA WalkUndecided ==
  ASSUME SearchInv, pc = "select", ~RootDecided, NEW n \in BestWalk, NEW k \in WayTo(n)
  PROVE  Undecided(k)
<1>1. n \in Paths /\ Len(n) \in Nat
  BY DEF SearchInv, SearchSpace, BestWalk, Paths
<1>2. Well /\ Root \in DOMAIN nodes /\ \A m \in DOMAIN nodes : Settled(m)
  BY DEF SearchInv, SearchSpace, Well, Pending
<1> DEFINE T == {i \in Nat : i <= Len(n) => Undecided(SubSeq(n, 1, i))}
<1>3. 0 \in T
  <2>1. SubSeq(n, 1, 0) = Root
    BY SubSeqEmpty DEF Root
  <2>2. Undecided(Root)
    BY <1>2 DEF Undecided, RootDecided
  <2> QED
    BY <2>1, <2>2
<1>4. ASSUME NEW i \in Nat, i \in T
      PROVE  i + 1 \in T
  <2> SUFFICES ASSUME i + 1 <= Len(n)
               PROVE  Undecided(SubSeq(n, 1, i + 1))
    OBVIOUS
  <2>1. PICK m : m = SubSeq(n, 1, i)
    OBVIOUS
  <2>2. Undecided(m)
    BY <1>1, <1>4, <2>1
  <2>3. i + 1 \in 1..Len(n) /\ (i + 1) - 1 = i
    BY <1>1
  <2>4. nodes[m].best # NoEdge /\ SubSeq(n, 1, i + 1) = BestSon(m)
    BY <2>1, <2>3 DEF BestWalk
  <2> QED
    BY <1>2, <2>2, <2>4, BestSonIs DEF Undecided
<1> HIDE DEF T
<1>5. Nat \subseteq T
  BY <1>3, <1>4, NatSetInduction
<1>6. PICK i \in 0..Len(n) : k = SubSeq(n, 1, i)
  BY DEF WayTo
<1> QED
  BY <1>1, <1>5, <1>6 DEF T
------------------------------------------------------------------------------
(* Every step keeps the invariant.                                         *)

(* While the search space stays, so does what is said of it.               *)
LEMMA SpaceStays ==
  ASSUME SearchInv, problem' = problem, cmd' = cmd, nodes' = nodes
  PROVE  /\ SearchSpace'
         /\ (\A n \in DOMAIN nodes : Consistent(nodes[n]))'
         /\ \A n : Settled(n) => Settled(n)'
         /\ \A n : Undecided(n) => Undecided(n)'
<1>1. \A n, op : SonsBy(n, op)' = SonsBy(n, op)
  BY DEF SonsBy, TrueSon, FalseSon, Son, observation
<1>2. Paths' = Paths /\ NodeRecord' = NodeRecord
  BY DEF Paths, NodeRecord, Edge
<1>3. SearchSpace'
  BY <1>1, <1>2 DEF SearchInv, SearchSpace
<1>4. (\A n \in DOMAIN nodes : Consistent(nodes[n]))'
  BY DEF SearchInv
<1>5. \A n : Settled(n) => Settled(n)'
  BY StaysSettled
<1>6. \A n : Undecided(n) => Undecided(n)'
  BY DEF Undecided
<1> QED
  BY <1>3, <1>4, <1>5, <1>6

(* The search starts with the initial state as its only leaf.              *)
LEMMA InitInv ==
  ASSUME HeuristicType, Init
  PROVE  SearchInv
<1>1. PICK S : S = {<<w>> : w \in problem.worlds}
  OBVIOUS
<1>2. S \in Beliefs(problem)
  <2> SUFFICES ASSUME NEW w \in problem.worlds
               PROVE  <<w>> \in Seq(SUBSET FactsOf(problem)) \ {<<>>}
    BY <1>1 DEF Beliefs
  <2>1. w \in SUBSET FactsOf(problem)
    BY DEF FactsOf
  <2> QED
    BY <2>1
<1>3. PICK r : r = NewNode(problem, cmd, S)
  OBVIOUS
<1>4. Fresh(r)
  BY <1>2, <1>3, NewNodeIs DEF Init
<1>5. nodes = [n \in {Root} |-> r]
  BY <1>1, <1>3 DEF Init
<1>6. Root \in Paths
  BY WayToRoot
<1>7. r.edges = <<>> /\ r.best = NoEdge /\ r \in NodeRecord /\ Consistent(r)
  BY <1>4 DEF Fresh
<1>8. SearchSpace
  <2>1. ToSet(nodes[Root].edges) = {}
    BY <1>5, <1>7 DEF ToSet
  <2> QED
    BY <1>5, <1>6, <1>7, <2>1 DEF SearchSpace
<1>9. Settled(Root)
  BY <1>5, <1>7 DEF Settled
<1> QED
  BY <1>5, <1>7, <1>8, <1>9 DEF Init, SearchInv, Pending

(* The open leaf is chosen, and with it the path to bring up to date.      *)
LEMMA SelectLeafInv ==
  ASSUME SearchInv, SelectLeaf
  PROVE  SearchInv'
<1>1. pc = "select" /\ ~RootDecided /\ problem' = problem /\ cmd' = cmd /\ nodes' = nodes /\ up' = up
  BY DEF SelectLeaf
<1>2. /\ SearchSpace' /\ (\A n \in DOMAIN nodes : Consistent(nodes[n]))'
      /\ (\A n : Settled(n) => Settled(n)') /\ (\A n : Undecided(n) => Undecided(n)')
  BY <1>1, SpaceStays
<1>3. \A n \in DOMAIN nodes : Settled(n)'
  BY <1>1, <1>2 DEF SearchInv, Pending
<1>4. \A n \in BestWalk : n \in Paths /\ n \in DOMAIN nodes
  BY DEF SearchInv, SearchSpace, BestWalk
<1>5. ASSUME NEW n \in BestWalk
      PROVE  ~nodes[n].solved /\ ~nodes[n].failed
  BY <1>1, <1>4, SelfIsPrefix, WalkUndecided DEF Undecided
<1>6. PICK open \in BestWalk :
        \/ pc' = "increase MAX_PLAN_LENGTH" /\ leaf' = leaf /\ todo' = todo
        \/ pc' = "expand" /\ leaf' = open /\ todo' \subseteq DOMAIN problem.ops
  BY <1>5 DEF SelectLeaf
<1>7. CASE pc' = "increase MAX_PLAN_LENGTH" /\ leaf' = leaf /\ todo' = todo
  BY <1>1, <1>2, <1>3, <1>7 DEF SearchInv, Pending
<1>8. CASE pc' = "expand" /\ leaf' = open /\ todo' \subseteq DOMAIN problem.ops
  <2>1. Pending' = WayTo(open)
    BY <1>8 DEF Pending, WayTo
  <2>2. \A k \in WayTo(open) : Undecided(k)'
    BY <1>1, <1>2, WalkUndecided
  <2> QED
    BY <1>1, <1>2, <1>3, <1>4, <1>8, <2>1, <2>2 DEF SearchInv
<1> QED
  BY <1>6, <1>7, <1>8

(* While a leaf is expanded, the space has grown or is as before.          *)
LEMMA ExpandInv ==
  ASSUME SearchInv, pc = "expand", problem' = problem, cmd' = cmd, leaf' = leaf,
         todo' \subseteq todo, Grown \/ nodes' = nodes,
         \/ pc' = "expand" /\ up' = up
         \/ pc' = "update" /\ up' = leaf
  PROVE  SearchInv'
<1>1. Pending = WayTo(leaf) /\ Pending' = WayTo(leaf)
  BY DEF Pending, WayTo
<1>2. /\ SearchSpace' /\ DOMAIN nodes \subseteq DOMAIN nodes'
      /\ (\A n \in DOMAIN nodes : Consistent(nodes[n]))'
      /\ \A n \in WayTo(leaf) : Undecided(n)'
      /\ \A n \in DOMAIN nodes' \ WayTo(leaf) : Settled(n)'
  <2>1. CASE Grown
    BY <2>1 DEF Grown
  <2>2. CASE nodes' = nodes
    <3>1. /\ SearchSpace' /\ (\A n \in DOMAIN nodes : Consistent(nodes[n]))'
          /\ (\A n : Settled(n) => Settled(n)') /\ (\A n : Undecided(n) => Undecided(n)')
      BY <2>2, SpaceStays
    <3> QED
      BY <1>1, <2>2, <3>1 DEF SearchInv
  <2> QED
    BY <2>1, <2>2
<1> QED
  BY <1>1, <1>2 DEF SearchInv

(* The belief state of a node.                                             *)
LEMMA BeliefOfNode ==
  ASSUME SearchInv, NEW n \in DOMAIN nodes
  PROVE  nodes[n].S \in Beliefs(problem)
BY DEF SearchInv, SearchSpace, NodeRecord

(* An action step adds the state it leads to, or nothing.                  *)
LEMMA ApplyOperatorInv ==
  ASSUME HeuristicType, SearchInv, NEW op \in todo, ApplyOperator(op)
  PROVE  SearchInv'
<1>1. /\ pc = "expand" /\ pc' = pc /\ problem' = problem /\ cmd' = cmd /\ leaf' = leaf /\ up' = up
      /\ todo' \subseteq todo
  BY DEF ApplyOperator
<1>2. op \in DOMAIN problem.ops /\ op \in Edge
  BY DEF SearchInv, Edge
<1>3. PICK S2 : S2 = Extended(nodes[leaf].S, problem.ops[op])
  OBVIOUS
<1>4. S2 \in Beliefs(problem)
  BY <1>2, <1>3, BeliefOfNode, ExtendedIs DEF SearchInv
<1>5. Fresh(NewNode(problem, cmd, S2))
  BY <1>4, NewNodeIs DEF SearchInv
<1>6. PICK sons : sons = [m \in SonsBy(leaf, op) |-> NewNode(problem, cmd, S2)]
  OBVIOUS
<1>7. nodes' = nodes \/ AddToBfsSpace(op, sons)
  BY <1>3, <1>6 DEF ApplyOperator
<1>8. DOMAIN sons = SonsBy(leaf, op) /\ \A m \in SonsBy(leaf, op) : Fresh(sons[m])
  BY <1>5, <1>6
<1>9. Grown \/ nodes' = nodes
  BY <1>1, <1>2, <1>7, <1>8, GrowsWell
<1> QED
  BY <1>1, <1>9, ExpandInv

(* An observation adds the states of both its outcomes, or nothing.        *)
LEMMA ApplyObservationInv ==
  ASSUME HeuristicType, SearchInv, NEW op \in todo, ApplyObservation(op)
  PROVE  SearchInv'
<1>1. /\ pc = "expand" /\ pc' = pc /\ problem' = problem /\ cmd' = cmd /\ leaf' = leaf /\ up' = up
      /\ todo' \subseteq todo
  BY DEF ApplyObservation
<1>2. op \in Edge
  BY DEF SearchInv, Edge
<1> DEFINE S == nodes[leaf].S
           f == CHOOSE x \in problem.ops[op].obs : TRUE
           sons == [m \in SonsBy(leaf, op) |->
                      NewNode(problem, cmd, Observed(S, f, m = TrueSon(leaf, op)))]
<1>3. nodes' = nodes \/ AddToBfsSpace(op, sons)
  BY Zenon DEF ApplyObservation
<1>4. S \in Beliefs(problem)
  BY BeliefOfNode DEF SearchInv
<1>5. ASSUME NEW value
      PROVE  Fresh(NewNode(problem, cmd, Observed(S, f, value)))
  BY <1>4, ObservedIs, NewNodeIs DEF SearchInv
<1>6. DOMAIN sons = SonsBy(leaf, op)
  OBVIOUS
<1>7. ASSUME NEW m \in SonsBy(leaf, op)
      PROVE  Fresh(sons[m])
  <2>1. sons[m] = NewNode(problem, cmd, Observed(S, f, m = TrueSon(leaf, op)))
    OBVIOUS
  <2> QED
    BY <1>5, <2>1, Zenon
<1> HIDE DEF sons
<1>8. Grown \/ nodes' = nodes
  BY <1>1, <1>2, <1>3, <1>6, <1>7, GrowsWell
<1> QED
  BY <1>1, <1>8, ExpandInv

(* After the last operator giving up may be added, and the update begins.  *)
LEMMA EndExpansionInv ==
  ASSUME SearchInv, EndExpansion
  PROVE  SearchInv'
<1>1. /\ pc = "expand" /\ pc' = "update" /\ problem' = problem /\ cmd' = cmd
      /\ leaf' = leaf /\ up' = leaf /\ todo' = todo
  BY DEF EndExpansion
<1>2. PICK sons : sons = [m \in SonsBy(leaf, GIVEUP) |-> GivenUp]
  OBVIOUS
<1>3. nodes' = nodes \/ AddToBfsSpace(GIVEUP, sons)
  BY <1>2 DEF EndExpansion
<1>4. Fresh(GivenUp)
  BY GivenUpIs DEF SearchInv
<1>5. DOMAIN sons = SonsBy(leaf, GIVEUP) /\ \A m \in SonsBy(leaf, GIVEUP) : Fresh(sons[m])
  BY <1>2, <1>4
<1>6. GIVEUP \in Edge
  BY DEF Edge
<1>7. Grown \/ nodes' = nodes
  BY <1>1, <1>3, <1>5, <1>6, GrowsWell
<1> QED
  BY <1>1, <1>7, ExpandInv

(* Bringing a node up to date settles it; what is above it comes next.     *)
LEMMA UpdateNodeInv ==
  ASSUME SearchInv, UpdateNode
  PROVE  SearchInv'
<1>1. PICK n : n = up
  OBVIOUS
<1>2. /\ pc = "update" /\ problem' = problem /\ cmd' = cmd /\ leaf' = leaf /\ todo' = todo
      /\ Well /\ SearchSpace /\ n \in DOMAIN nodes /\ n \in Paths /\ Pending = WayTo(n)
  BY <1>1 DEF UpdateNode, SearchInv, SearchSpace, Well, Pending
<1>3. n \in WayTo(n)
  BY <1>2, SelfIsPrefix
<1>4. Undecided(n)
  BY <1>2, <1>3 DEF SearchInv
<1>5. ~BadValues(up)
  BY <1>1, <1>2, NoBadValues
<1>6. PICK r : r = Updated(n)
  OBVIOUS
<1>7. r \in NodeRecord /\ r.edges = nodes[n].edges /\ Consistent(r) /\ SettledAs(n, r)
  BY <1>2, <1>4, <1>6, UpdatedIs
<1>8. PICK later : later = nodes'
  OBVIOUS
<1>9. /\ later = [nodes EXCEPT ![n] = r]
      /\ IF n = Root THEN pc' = "select" /\ up' = up ELSE up' = Parent(n) /\ pc' = pc
  BY <1>1, <1>5, <1>6, <1>8 DEF UpdateNode
<1>10. /\ DOMAIN later = DOMAIN nodes /\ later[n] = r
       /\ \A m \in DOMAIN nodes : m # n => later[m] = nodes[m]
       /\ later \in [DOMAIN nodes -> NodeRecord]
  BY <1>2, <1>7, <1>9 DEF SearchSpace
<1>11. SearchSpace'
  <2>1. \A m, op : SonsBy(m, op)' = SonsBy(m, op)
    BY <1>2 DEF SonsBy, TrueSon, FalseSon, Son, observation
  <2>2. Paths' = Paths /\ NodeRecord' = NodeRecord
    BY <1>2 DEF Paths, NodeRecord, Edge
  <2>3. \A m \in DOMAIN nodes : later[m].edges = nodes[m].edges
    BY <1>7, <1>10
  <2> QED
    BY <1>2, <1>8, <1>10, <2>1, <2>2, <2>3 DEF SearchSpace
<1>12. (\A m \in DOMAIN nodes : Consistent(nodes[m]))'
  BY <1>7, <1>8, <1>10 DEF SearchInv
<1>13. ASSUME NEW m \in DOMAIN nodes, NEW op \in ToSet(nodes[m].edges), NEW k \in SonsBy(m, op), k = n
       PROVE  m \in WayTo(n) /\ m # n
  <2>1. op \in Edge /\ m \in Paths
    BY <1>2, SonsAreNodes
  <2>2. Len(n) = Len(m) + 1 /\ Len(m) \in Nat
    BY <1>13, <2>1, SonIs DEF Paths
  <2> QED
    BY <1>2, <1>3, <1>13, <2>1, <2>2, ParentOnTheWay
<1>14. Settled(n)'
  <2>1. ASSUME NEW op \in ToSet(nodes[n].edges)
        PROVE  /\ EdgeSolved(n, op)' = EdgeSolved(n, op)
               /\ EdgeFailed(n, op)' = EdgeFailed(n, op)
               /\ EdgeF(n, op)' = EdgeF(n, op)
    <3>1. \A k \in SonsBy(n, op) : k \in DOMAIN nodes /\ k # n
      BY <1>2, <1>13, SonsAreNodes
    <3> QED
      BY <1>2, <1>8, <1>10, <3>1, EdgesStay
  <2>2. LiveEdges(n)' = LiveEdges(n)
    BY <1>7, <1>8, <1>10, <2>1 DEF LiveEdges
  <2>3. \A op \in LiveEdges(n) : op \in ToSet(nodes[n].edges)
    BY DEF LiveEdges
  <2>4. CASE r.best # NoEdge /\ ~r.failed
    <3>1. /\ r.best \in LiveEdges(n) /\ r.solved = EdgeSolved(n, r.best)
          /\ cmd.alg = 0 => r.f = EdgeF(n, r.best) /\ \A op \in LiveEdges(n) : r.f <= EdgeF(n, op)
      BY <1>7, <2>4 DEF SettledAs
    <3>2. (nodes[n].solved = EdgeSolved(n, nodes[n].best))'
      BY <1>8, <1>10, <2>1, <2>3, <3>1
    <3>3. (cmd.alg = 0 => /\ nodes[n].f = EdgeF(n, nodes[n].best)
                          /\ \A op \in LiveEdges(n) : nodes[n].f <= EdgeF(n, op))'
      BY <1>2, <1>8, <1>10, <2>1, <2>2, <2>3, <3>1
    <3>4. (nodes[n].best \in LiveEdges(n))'
      BY <1>8, <1>10, <2>2, <3>1
    <3> QED
      BY <3>2, <3>3, <3>4 DEF Settled
  <2>5. CASE ~(r.best # NoEdge /\ ~r.failed)
    BY <1>8, <1>10, <2>5 DEF Settled
  <2> QED
    BY <2>4, <2>5
<1>15. ASSUME NEW m \in DOMAIN nodes, m \notin WayTo(n)
       PROVE  Settled(m)'
  <2>1. Settled(m) /\ m # n
    BY <1>2, <1>3, <1>15 DEF SearchInv
  <2>2. \A op \in ToSet(nodes[m].edges) : \A k \in SonsBy(m, op) : k \in DOMAIN nodes /\ k # n
    BY <1>2, <1>13, <1>15, SonsAreNodes
  <2> QED
    BY <1>2, <1>8, <1>10, <2>1, <2>2, StaysSettled
<1>16. ASSUME NEW k \in WayTo(n), k # n
       PROVE  Undecided(k)'
  <2>1. Undecided(k)
    BY <1>2 DEF SearchInv
  <2> QED
    BY <1>8, <1>10, <1>16, <2>1 DEF Undecided
<1>17. CASE n = Root
  <2>1. pc' = "select" /\ up' = up /\ Pending' = {}
    BY <1>9, <1>17 DEF Pending
  <2>2. WayTo(n) = {n}
    BY <1>17, WayToRoot
  <2> QED
    BY <1>1, <1>2, <1>8, <1>10, <1>11, <1>12, <1>14, <1>15, <2>1, <2>2 DEF SearchInv
<1>18. CASE n # Root
  <2>1. pc' = "update" /\ up' = Parent(n)
    BY <1>2, <1>9, <1>18
  <2>2. Parent(n) \in WayTo(n) /\ WayTo(Parent(n)) = WayTo(n) \ {n}
    BY <1>2, <1>18, WayToParent
  <2>3. Pending' = WayTo(n) \ {n}
    BY <2>1, <2>2 DEF Pending, WayTo
  <2>4. Parent(n) \in DOMAIN nodes
    BY <1>2, <2>2 DEF SearchInv, Undecided
  <2> QED
    BY <1>2, <1>8, <1>10, <1>11, <1>12, <1>14, <1>15, <1>16, <2>1, <2>3, <2>4 DEF SearchInv
<1> QED
  BY <1>17, <1>18

(* Every step of the search keeps the invariant.                           *)
LEMMA NextInv ==
  ASSUME HeuristicType, SearchInv, [Next]_vars
  PROVE  SearchInv'
<1>1. CASE SelectLeaf
  BY <1>1, SelectLeafInv
<1>2. CASE Finish
  <2>1. /\ problem' = problem /\ cmd' = cmd /\ nodes' = nodes /\ leaf' = leaf /\ todo' = todo /\ up' = up
        /\ pc = "select" /\ pc' = "done"
    BY <1>2 DEF Finish
  <2>2. /\ SearchSpace' /\ (\A n \in DOMAIN nodes : Consistent(nodes[n]))'
        /\ (\A n : Settled(n) => Settled(n)')
    BY <2>1, SpaceStays
  <2> QED
    BY <2>1, <2>2 DEF SearchInv, Pending
<1>3. CASE EndExpansion
  BY <1>3, EndExpansionInv
<1>4. CASE UpdateNode
  BY <1>4, UpdateNodeInv
<1>5. ASSUME NEW op \in todo, ApplyOperator(op) \/ ApplyObservation(op)
      PROVE  SearchInv'
  BY <1>5, ApplyOperatorInv, ApplyObservationInv
<1>6. CASE UNCHANGED vars
  <2>1. /\ problem' = problem /\ cmd' = cmd /\ nodes' = nodes /\ leaf' = leaf /\ todo' = todo /\ up' = up
        /\ pc' = pc
    BY <1>6 DEF vars
  <2>2. /\ SearchSpace' /\ (\A n \in DOMAIN nodes : Consistent(nodes[n]))'
        /\ (\A n : Settled(n) => Settled(n)') /\ (\A n : Undecided(n) => Undecided(n)')
    BY <2>1, SpaceStays
  <2>3. Pending' = Pending
    BY <2>1 DEF Pending, WayTo
  <2> QED
    BY <2>1, <2>2, <2>3 DEF SearchInv
<1> QED
  BY <1>1, <1>2, <1>3, <1>4, <1>5, <1>6 DEF Next

(* What the invariant says of the marks.                                   *)
LEMMA InvSaysMarks ==
  ASSUME SearchInv
  PROVE  MarksAgree
<1>1. NeverAborts
  BY DEF SearchInv, NeverAborts
<1>2. SolvedByBestEdge
  <2> SUFFICES ASSUME NEW n \in DOMAIN nodes, nodes[n].solved, nodes[n].best # NoEdge
               PROVE  EdgeSolved(n, nodes[n].best)
    BY DEF SolvedByBestEdge
  <2>1. n \notin Pending
    BY DEF SearchInv, Undecided
  <2>2. Settled(n) /\ Consistent(nodes[n])
    BY <2>1 DEF SearchInv
  <2> QED
    BY <2>2 DEF Settled, Consistent
<1>3. ValuesBackedUp
  <2> SUFFICES ASSUME pc \in {"select", "done"}, cmd.alg = 0,
                      NEW n \in DOMAIN nodes, nodes[n].best # NoEdge, ~nodes[n].failed
               PROVE  /\ nodes[n].best \in LiveEdges(n)
                      /\ \A op \in LiveEdges(n) : nodes[n].f <= EdgeF(n, op)
                      /\ nodes[n].f = EdgeF(n, nodes[n].best)
    BY DEF ValuesBackedUp
  <2>1. Settled(n)
    BY DEF SearchInv, Pending
  <2> QED
    BY <2>1 DEF Settled
<1> QED
  BY <1>1, <1>2, <1>3 DEF MarksAgree
------------------------------------------------------------------------------
(* The tree of the best edges, and the worlds that may be met in it.       *)

(* The worlds the planner thinks possible at a node.                       *)
WorldsIn(r) == {Now(h) : h \in r.S}

(* In every possible world an edge can be followed to a possible world.    *)
LeadsOn(n, op) ==
  \A v \in WorldsIn(nodes[n]) :
    /\ problem.ops[op].pre \subseteq v
    /\ OutcomeOf(n, op, v).world \in WorldsIn(nodes[OutcomeOf(n, op, v).node])

(* A node that counts as solved and leads nowhere satisfies the goal.      *)
SolvedThere(r) == r.solved /\ r.best = NoEdge => \A v \in WorldsIn(r) : problem.goal \subseteq v

PlanTree ==
  /\ problem.worlds \subseteq WorldsIn(nodes[Root])
  /\ \A n \in DOMAIN nodes :
       /\ Len(n) <= MaxPlanLength
       /\ SolvedThere(nodes[n])
       /\ \A op \in ToSet(nodes[n].edges) \ {GIVEUP} : LeadsOn(n, op)

(* What is kept besides: the operators that are left are applicable.       *)
PlanInv ==
  /\ PlanTree
  /\ pc = "expand" => /\ Len(leaf) < MaxPlanLength
                      /\ \A op \in todo : \A v \in WorldsIn(nodes[leaf]) : problem.ops[op].pre \subseteq v

(* The world a history ends in is made of facts of the task.               *)
LEMMA NowIs ==
  ASSUME NEW p, NEW S \in Beliefs(p), NEW h \in S
  PROVE  h \in Seq(SUBSET FactsOf(p)) /\ Now(h) \in SUBSET FactsOf(p)
<1>1. h \in Seq(SUBSET FactsOf(p)) /\ Len(h) \in 1..Len(h)
  BY EmptySeq DEF Beliefs
<1> QED
  BY <1>1, ElementOfSeq DEF Now

(* A longer history ends in the world it is longer by.                     *)
LEMMA NowAppended ==
  ASSUME NEW X, NEW h \in Seq(X), NEW v \in X
  PROVE  Now(Append(h, v)) = v
BY AppendProperties DEF Now

(* What the effects make of a world is made of facts of the task.          *)
LEMMA ProgressIs ==
  ASSUME NEW p, NEW op \in DOMAIN p.ops, NEW v \in SUBSET FactsOf(p)
  PROVE  Progress(v, p.ops[op]) \in SUBSET FactsOf(p)
<1>1. ASSUME NEW x \in Adds(v, p.ops[op])
      PROVE  x \in FactsOf(p)
  <2>1. PICK e \in p.ops[op].effs : x \in e.A
    BY DEF Adds
  <2>2. x \in UNION {d.A : d \in p.ops[op].effs}
    BY <2>1
  <2> QED
    BY <2>2 DEF FactsOf
<1> QED
  BY <1>1 DEF Progress

(* After an action step the world it leads to is possible.                 *)
LEMMA ExtendedWorlds ==
  ASSUME NEW p, NEW S \in Beliefs(p), NEW op \in DOMAIN p.ops, NEW h \in S
  PROVE  \E g \in Extended(S, p.ops[op]) : Now(g) = Progress(Now(h), p.ops[op])
<1>1. PICK v : v = Progress(Now(h), p.ops[op])
  OBVIOUS
<1>2. h \in Seq(SUBSET FactsOf(p)) /\ v \in SUBSET FactsOf(p)
  BY <1>1, NowIs, ProgressIs
<1>3. Now(Append(h, v)) = v
  BY <1>2, NowAppended
<1>4. Append(h, v) \in Extended(S, p.ops[op])
  BY <1>1 DEF Extended
<1> QED
  BY <1>1, <1>3, <1>4

(* An observation changes nothing.                                         *)
LEMMA StillNow ==
  ASSUME NEW p, NEW S \in Beliefs(p), NEW h \in S
  PROVE  Now(Append(h, Now(h))) = Now(h)
<1>1. PICK X : X = SUBSET FactsOf(p)
  OBVIOUS
<1>2. h \in Seq(X) /\ Now(h) \in X
  BY <1>1, NowIs
<1> QED
  BY <1>2, NowAppended

(* A world in which the observed fact holds is possible in the one branch, *)
LEMMA ObservedTrue ==
  ASSUME NEW p, NEW S \in Beliefs(p), NEW f, NEW h \in S, f \in Now(h)
  PROVE  \E g \in Observed(S, f, TRUE) : Now(g) = Now(h)
<1>1. (f \in Now(h)) = TRUE
  OBVIOUS
<1>2. Append(h, Now(h)) \in Observed(S, f, TRUE)
  BY <1>1, Zenon DEF Observed
<1> QED
  BY <1>2, StillNow

(* and one in which it does not hold in the other.                         *)
LEMMA ObservedFalse ==
  ASSUME NEW p, NEW S \in Beliefs(p), NEW f, NEW h \in S, f \notin Now(h)
  PROVE  \E g \in Observed(S, f, FALSE) : Now(g) = Now(h)
<1>1. (f \in Now(h)) = FALSE
  OBVIOUS
<1>2. Append(h, Now(h)) \in Observed(S, f, FALSE)
  BY <1>1, Zenon DEF Observed
<1> QED
  BY <1>2, StillNow

(* What is known holds in every possible world.                            *)
LEMMA KnownHolds ==
  ASSUME NEW S, NEW h \in S
  PROVE  KnownIn(S) \subseteq Now(h)
BY DEF KnownIn

(* A new node that counts as solved satisfies the goal.                    *)
LEMMA NewNodeSolved ==
  ASSUME NEW S
  PROVE  /\ SolvedThere(NewNode(problem, cmd, S))
         /\ NewNode(problem, cmd, S).S = S /\ NewNode(problem, cmd, S).edges = <<>>
<1>1. PICK solved \in BOOLEAN : solved = (problem.goal \subseteq KnownIn(S))
  OBVIOUS
<1>2. PICK r : r = NewNode(problem, cmd, S)
  OBVIOUS
<1>3. \E f, x, failed : r = [S |-> S, f |-> f, astar |-> x, solved |-> solved, failed |-> failed,
                             edges |-> <<>>, best |-> NoEdge]
  BY <1>1, <1>2, Zenon DEF NewNode
<1>4. r.S = S /\ r.solved = solved /\ r.edges = <<>>
  BY <1>3
<1>5. ASSUME r.solved, NEW v \in WorldsIn(r)
      PROVE  problem.goal \subseteq v
  <2>1. PICK h \in S : v = Now(h)
    BY <1>4 DEF WorldsIn
  <2>2. problem.goal \subseteq KnownIn(S)
    BY <1>1, <1>4, <1>5
  <2> QED
    BY <2>1, <2>2, KnownHolds
<1> QED
  BY <1>2, <1>4, <1>5 DEF SolvedThere

(* The last step to a son tells the operator.                              *)
LEMMA SonTells ==
  ASSUME NEW n \in Paths, NEW op \in Edge, NEW m \in SonsBy(n, op)
  PROVE  m[Len(m)][1] = op
<1>1. PICK x \in {"true", "false", "out"} : m = Append(n, <<op, x>>)
  BY DEF SonsBy, TrueSon, FalseSon, Son
<1>2. PICK step : step = <<op, x>>
  OBVIOUS
<1>3. step \in Edge \X {"true", "false", "out"} /\ step[1] = op
  BY <1>2
<1>4. Len(n) \in Nat /\ Len(m) = Len(n) + 1 /\ m[Len(n) + 1] = step
  BY <1>1, <1>2, <1>3, AppendProperties DEF Paths
<1> QED
  BY <1>3, <1>4

(* What an edge leads to in a world is one of its sons.                    *)
LEMMA OutcomeIsSon ==
  ASSUME NEW n, NEW op, NEW v
  PROVE  OutcomeOf(n, op, v).node \in SonsBy(n, op)
<1>1. CASE observation(op)
  <2>1. PICK m : m = IF problem.ops[op].obs \subseteq v THEN TrueSon(n, op) ELSE FalseSon(n, op)
    OBVIOUS
  <2>2. OutcomeOf(n, op, v) = [node |-> m, world |-> v]
    BY <1>1, <2>1 DEF OutcomeOf
  <2>3. m \in SonsBy(n, op)
    BY <1>1, <2>1 DEF SonsBy
  <2> QED
    BY <2>2, <2>3
<1>2. CASE ~observation(op)
  BY <1>2 DEF OutcomeOf, SonsBy
<1> QED
  BY <1>1, <1>2

(* The tree stays as good while the nodes keep their states and edges.     *)
LEMMA PlanTreeStays ==
  ASSUME SearchInv, PlanTree, problem' = problem, DOMAIN nodes' = DOMAIN nodes,
         \A n \in DOMAIN nodes :
           /\ nodes'[n].S = nodes[n].S /\ nodes'[n].edges = nodes[n].edges
           /\ nodes'[n].solved /\ nodes'[n].best = NoEdge => nodes[n].solved /\ nodes[n].best = NoEdge
  PROVE  PlanTree'
<1>1. PICK later : later = nodes'
  OBVIOUS
<1>2. SearchSpace /\ Root \in DOMAIN nodes
  BY DEF SearchInv, SearchSpace
<1>3. \A n \in DOMAIN nodes : WorldsIn(later[n]) = WorldsIn(nodes[n])
  BY <1>1 DEF WorldsIn
<1>4. problem.worlds \subseteq WorldsIn(later[Root])
  BY <1>2, <1>3 DEF PlanTree
<1>5. ASSUME NEW n \in DOMAIN nodes
      PROVE  SolvedThere(later[n])
  BY <1>1, <1>3, <1>5 DEF PlanTree, SolvedThere
<1>6. ASSUME NEW n \in DOMAIN nodes, NEW op \in ToSet(later[n].edges) \ {GIVEUP}
      PROVE  LeadsOn(n, op)'
  <2>1. op \in ToSet(nodes[n].edges) \ {GIVEUP}
    BY <1>1
  <2>2. LeadsOn(n, op)
    BY <2>1 DEF PlanTree
  <2>3. \A v : OutcomeOf(n, op, v).node \in DOMAIN nodes
    BY <1>2, <2>1, OutcomeIsSon, SonsAreNodes
  <2>4. \A v : OutcomeOf(n, op, v)' = OutcomeOf(n, op, v)
    BY DEF OutcomeOf, observation, TrueSon, FalseSon, Son
  <2>5. ASSUME NEW v \in WorldsIn(later[n])
        PROVE  /\ problem.ops[op].pre \subseteq v
               /\ OutcomeOf(n, op, v).world \in WorldsIn(later[OutcomeOf(n, op, v).node])
    BY <1>3, <2>2, <2>3, <2>5 DEF LeadsOn
  <2> QED
    BY <1>1, <2>4, <2>5 DEF LeadsOn
<1> QED
  BY <1>1, <1>4, <1>5, <1>6 DEF PlanTree, SolvedThere

(* The sons an expansion adds are what the operator leads to.              *)
LEMMA PlanTreeGrows ==
  ASSUME SearchInv, PlanInv, pc = "expand", problem' = problem,
         NEW op \in Edge, NEW sons, DOMAIN sons = SonsBy(leaf, op),
         \A m \in SonsBy(leaf, op) : sons[m].edges = <<>> /\ SolvedThere(sons[m]),
         op # GIVEUP => \A v \in WorldsIn(nodes[leaf]) :
                          /\ problem.ops[op].pre \subseteq v
                          /\ OutcomeOf(leaf, op, v).world \in WorldsIn(sons[OutcomeOf(leaf, op, v).node]),
         AddToBfsSpace(op, sons)
  PROVE  PlanTree' /\ WorldsIn(nodes'[leaf]) = WorldsIn(nodes[leaf])
<1>1. PICK later : later = nodes'
  OBVIOUS
<1>2. PICK new : new = SonsBy(leaf, op)
  OBVIOUS
<1>3. SearchSpace /\ leaf \in DOMAIN nodes /\ leaf \in Paths /\ nodes[leaf] \in NodeRecord
  BY DEF SearchInv, SearchSpace
<1>4. PICK node : node = [nodes[leaf] EXCEPT !.edges = <<op>> \o @]
  OBVIOUS
<1>5. /\ DOMAIN later = DOMAIN nodes \union new
      /\ \A n \in DOMAIN later : later[n] = IF n \in new THEN sons[n]
                                            ELSE IF n = leaf THEN node ELSE nodes[n]
  BY <1>1, <1>2, <1>4, Zenon DEF AddToBfsSpace
<1>6. /\ node.S = nodes[leaf].S /\ node.best = nodes[leaf].best /\ node.solved = nodes[leaf].solved
      /\ ToSet(node.edges) = {op} \union ToSet(nodes[leaf].edges)
  <2>1. PICK r : r = nodes[leaf]
    OBVIOUS
  <2>2. r \in NodeRecord /\ node = [r EXCEPT !.edges = <<op>> \o @]
    BY <1>3, <1>4, <2>1
  <2>3. /\ node.S = r.S /\ node.best = r.best /\ node.solved = r.solved
        /\ ToSet(node.edges) = {op} \union ToSet(r.edges)
    BY <2>2, EdgeAdded, ZenonT(30)
  <2> QED
    BY <2>1, <2>3
<1>7. ASSUME NEW m \in new
      PROVE  m \in Paths /\ Len(m) = Len(leaf) + 1 /\ Parent(m) = leaf /\ m[Len(m)][1] = op
  BY <1>2, <1>3, SonIs, SonTells
<1>8. Len(leaf) \in Nat /\ leaf \notin new /\ Root \notin new /\ Root \in DOMAIN nodes
  <2>1. Len(Root) = 0
    BY DEF Root
  <2> QED
    BY <1>3, <1>7, <2>1 DEF Paths, SearchSpace
<1>9. ASSUME NEW n \in DOMAIN nodes, n \notin new
      PROVE  WorldsIn(later[n]) = WorldsIn(nodes[n])
  <2>1. later[n].S = nodes[n].S
    BY <1>5, <1>6, <1>9
  <2> QED
    BY <2>1 DEF WorldsIn
<1>10. \A n, o, v : OutcomeOf(n, o, v)' = OutcomeOf(n, o, v)
  BY DEF OutcomeOf, observation, TrueSon, FalseSon, Son
<1>11. problem.worlds \subseteq WorldsIn(later[Root])
  BY <1>8, <1>9 DEF PlanInv, PlanTree
<1>12. ASSUME NEW n \in DOMAIN later
       PROVE  Len(n) <= MaxPlanLength /\ SolvedThere(later[n])
  <2>1. CASE n \in new
    <3>1. MaxPlanLength \in Nat
      BY SearchAssumption
    <3>2. Len(leaf) < MaxPlanLength
      BY DEF PlanInv
    <3>3. later[n] = sons[n] /\ SolvedThere(sons[n])
      BY <1>2, <1>5, <2>1
    <3>4. Len(n) = Len(leaf) + 1
      BY <1>7, <2>1
    <3>5. Len(n) <= MaxPlanLength
      BY <1>8, <3>1, <3>2, <3>4
    <3> QED
      BY <3>3, <3>5
  <2>2. CASE n \notin new
    <3>1. n \in DOMAIN nodes
      BY <1>5, <2>2
    <3>2. later[n].solved = nodes[n].solved /\ later[n].best = nodes[n].best
      BY <1>5, <1>6, <2>2
    <3> QED
      BY <1>9, <2>2, <3>1, <3>2 DEF PlanInv, PlanTree, SolvedThere
  <2> QED
    BY <2>1, <2>2
<1>13. ASSUME NEW n \in DOMAIN later, NEW o \in ToSet(later[n].edges) \ {GIVEUP},
              NEW v \in WorldsIn(later[n])
       PROVE  /\ problem.ops[o].pre \subseteq v
              /\ OutcomeOf(n, o, v).world \in WorldsIn(later[OutcomeOf(n, o, v).node])
  <2>1. n \notin new
    <3>1. SUFFICES ASSUME n \in new PROVE FALSE
      OBVIOUS
    <3>2. later[n].edges = <<>>
      BY <1>2, <1>5, <3>1
    <3> QED
      BY <1>13, <3>2 DEF ToSet
  <2>2. n \in DOMAIN nodes /\ n \in Paths /\ v \in WorldsIn(nodes[n])
    BY <1>3, <1>5, <1>9, <1>13, <2>1 DEF SearchSpace
  <2>3. PICK m : m = OutcomeOf(n, o, v).node
    OBVIOUS
  <2>4. m \in SonsBy(n, o)
    BY <2>3, OutcomeIsSon
  <2>5. CASE n = leaf /\ o = op
    <3>1. m \in new /\ later[m] = sons[m]
      BY <1>2, <1>5, <2>4, <2>5
    <3> QED
      BY <2>2, <2>3, <2>5, <1>13, <3>1
  <2>6. CASE ~(n = leaf /\ o = op)
    <3>1. o \in ToSet(nodes[n].edges) \ {GIVEUP}
      BY <1>5, <1>6, <1>13, <2>1, <2>6
    <3>2. o \in Edge /\ m \in DOMAIN nodes
      BY <1>3, <2>2, <2>4, <3>1, SonsAreNodes
    <3>3. Parent(m) = n /\ m[Len(m)][1] = o
      BY <2>2, <2>4, <3>2, SonIs, SonTells
    <3>4. m \notin new
      BY <1>7, <2>6, <3>3
    <3>5. LeadsOn(n, o)
      BY <2>2, <3>1 DEF PlanInv, PlanTree
    <3> QED
      BY <1>9, <2>2, <2>3, <3>2, <3>4, <3>5 DEF LeadsOn
  <2> QED
    BY <2>5, <2>6
<1>14. ASSUME NEW n \in DOMAIN later, NEW o \in ToSet(later[n].edges) \ {GIVEUP}
       PROVE  LeadsOn(n, o)'
  BY <1>1, <1>10, <1>13 DEF LeadsOn
<1>15. WorldsIn(later[leaf]) = WorldsIn(nodes[leaf])
  BY <1>3, <1>8, <1>9
<1> QED
  BY <1>1, <1>11, <1>12, <1>14, <1>15 DEF PlanTree, SolvedThere

(* The initial state holds every initial world.                            *)
LEMMA InitPlan ==
  ASSUME Init
  PROVE  PlanInv
<1>1. PICK S : S = {<<w>> : w \in problem.worlds}
  OBVIOUS
<1>2. PICK r : r = NewNode(problem, cmd, S)
  OBVIOUS
<1>3. nodes = [n \in {Root} |-> r] /\ pc = "select"
  BY <1>1, <1>2 DEF Init
<1>4. SolvedThere(r) /\ r.S = S /\ r.edges = <<>>
  BY <1>2, NewNodeSolved
<1>5. ASSUME NEW w \in problem.worlds
      PROVE  w \in WorldsIn(r)
  <2>1. Now(<<w>>) = w /\ <<w>> \in S
    BY <1>1 DEF Now
  <2> QED
    BY <1>4, <2>1 DEF WorldsIn
<1>6. Len(Root) <= MaxPlanLength
  <2>1. Len(Root) = 0
    BY DEF Root
  <2> QED
    BY <2>1, SearchAssumption
<1>7. ToSet(r.edges) = {}
  BY <1>4 DEF ToSet
<1> QED
  BY <1>3, <1>4, <1>5, <1>6, <1>7 DEF PlanInv, PlanTree

(* An open leaf may be expanded only before MAX_PLAN_LENGTH.               *)
LEMMA SelectLeafPlan ==
  ASSUME SearchInv, PlanInv, SelectLeaf
  PROVE  PlanInv'
<1>1. problem' = problem /\ nodes' = nodes
  BY DEF SelectLeaf
<1>2. PlanTree'
  BY <1>1, PlanTreeStays DEF PlanInv
<1>3. ASSUME pc' = "expand"
      PROVE  \E open \in DOMAIN nodes :
               /\ leaf' = open /\ Len(open) # MaxPlanLength
               /\ todo' \subseteq {op \in DOMAIN problem.ops : problem.ops[op].pre \subseteq KnownIn(nodes[open].S)}
  BY <1>3 DEF SelectLeaf, BestWalk
<1>4. ASSUME pc' = "expand"
      PROVE  /\ Len(leaf') < MaxPlanLength
             /\ \A op \in todo' : \A v \in WorldsIn(nodes[leaf']) : problem.ops[op].pre \subseteq v
  <2>1. PICK open \in DOMAIN nodes :
          /\ leaf' = open /\ Len(open) # MaxPlanLength
          /\ todo' \subseteq {op \in DOMAIN problem.ops : problem.ops[op].pre \subseteq KnownIn(nodes[open].S)}
    BY <1>3, <1>4
  <2>2. Len(open) \in Nat /\ Len(open) <= MaxPlanLength /\ MaxPlanLength \in Nat
    <3>1. open \in Paths
      BY <2>1 DEF SearchInv, SearchSpace
    <3>2. Len(open) \in Nat
      BY <3>1 DEF Paths
    <3>3. Len(open) <= MaxPlanLength
      BY <2>1 DEF PlanInv, PlanTree
    <3> QED
      BY <3>2, <3>3, SearchAssumption
  <2>3. ASSUME NEW op \in todo', NEW v \in WorldsIn(nodes[open])
        PROVE  problem.ops[op].pre \subseteq v
    <3>1. PICK h \in nodes[open].S : v = Now(h)
      BY DEF WorldsIn
    <3>2. problem.ops[op].pre \subseteq KnownIn(nodes[open].S)
      BY <2>1
    <3> QED
      BY <3>1, <3>2, KnownHolds
  <2> QED
    BY <2>1, <2>2, <2>3
<1> QED
  BY <1>1, <1>2, <1>4 DEF PlanInv

(* While a leaf is expanded, what is left to apply stays applicable.       *)
LEMMA ExpandPlan ==
  ASSUME SearchInv, PlanInv, pc = "expand", problem' = problem, leaf' = leaf, todo' \subseteq todo,
         (PlanTree' /\ WorldsIn(nodes'[leaf]) = WorldsIn(nodes[leaf])) \/ nodes' = nodes
  PROVE  PlanInv'
<1>1. PlanTree' /\ WorldsIn(nodes'[leaf]) = WorldsIn(nodes[leaf])
  <2>1. CASE nodes' = nodes
    BY <2>1, PlanTreeStays DEF PlanInv
  <2> QED
    BY <2>1
<1>2. \A op \in todo' : \A v \in WorldsIn(nodes'[leaf]) : problem.ops[op].pre \subseteq v
  BY <1>1 DEF PlanInv
<1>3. Len(leaf) < MaxPlanLength
  BY DEF PlanInv
<1> QED
  BY <1>1, <1>2, <1>3 DEF PlanInv

(* The state an action step adds holds every world the step leads to.      *)
LEMMA ApplyOperatorPlan ==
  ASSUME SearchInv, PlanInv, NEW op \in todo, ApplyOperator(op)
  PROVE  PlanInv'
<1>1. /\ pc = "expand" /\ problem' = problem /\ leaf' = leaf /\ ~observation(op)
      /\ todo' \subseteq todo
  BY DEF ApplyOperator
<1>2. op \in DOMAIN problem.ops /\ op \in Edge
  BY DEF SearchInv, Edge
<1>3. PICK S : S = nodes[leaf].S
  OBVIOUS
<1>4. PICK S2 : S2 = Extended(S, problem.ops[op])
  OBVIOUS
<1>5. PICK sons : sons = [m \in SonsBy(leaf, op) |-> NewNode(problem, cmd, S2)]
  OBVIOUS
<1>6. nodes' = nodes \/ AddToBfsSpace(op, sons)
  BY <1>3, <1>4, <1>5 DEF ApplyOperator
<1>7. DOMAIN sons = SonsBy(leaf, op)
  BY <1>5
<1>8. \A m \in SonsBy(leaf, op) : sons[m].edges = <<>> /\ SolvedThere(sons[m]) /\ sons[m].S = S2
  BY <1>5, NewNodeSolved
<1>9. ASSUME NEW v \in WorldsIn(nodes[leaf])
      PROVE  /\ problem.ops[op].pre \subseteq v
             /\ OutcomeOf(leaf, op, v).world \in WorldsIn(sons[OutcomeOf(leaf, op, v).node])
  <2>1. PICK h \in S : v = Now(h)
    BY <1>3 DEF WorldsIn
  <2>2. S \in Beliefs(problem)
    BY <1>3, BeliefOfNode DEF SearchInv
  <2>3. PICK g \in S2 : Now(g) = Progress(v, problem.ops[op])
    BY <1>2, <1>4, <2>1, <2>2, ExtendedWorlds
  <2>4. OutcomeOf(leaf, op, v) = [node |-> Son(leaf, op), world |-> Progress(v, problem.ops[op])]
    BY <1>1 DEF OutcomeOf
  <2>5. sons[Son(leaf, op)].S = S2
    BY <1>1, <1>8 DEF SonsBy
  <2>6. Progress(v, problem.ops[op]) \in WorldsIn(sons[Son(leaf, op)])
    BY <2>3, <2>5 DEF WorldsIn
  <2>7. problem.ops[op].pre \subseteq v
    BY <1>1 DEF PlanInv
  <2> QED
    BY <2>4, <2>6, <2>7
<1>10. (PlanTree' /\ WorldsIn(nodes'[leaf]) = WorldsIn(nodes[leaf])) \/ nodes' = nodes
  BY <1>1, <1>2, <1>6, <1>7, <1>8, <1>9, PlanTreeGrows
<1> QED
  BY <1>1, <1>10, ExpandPlan

(* The states an observation adds hold every world that is so observed.    *)
LEMMA ApplyObservationPlan ==
  ASSUME SearchInv, PlanInv, NEW op \in todo, ApplyObservation(op)
  PROVE  PlanInv'
<1>1. /\ pc = "expand" /\ problem' = problem /\ leaf' = leaf /\ observation(op)
      /\ todo' \subseteq todo
  BY DEF ApplyObservation
<1>2. op \in DOMAIN problem.ops /\ op \in Edge
  BY DEF SearchInv, Edge
<1> DEFINE S == nodes[leaf].S
           f == CHOOSE x \in problem.ops[op].obs : TRUE
           sons == [m \in SonsBy(leaf, op) |->
                      NewNode(problem, cmd, Observed(S, f, m = TrueSon(leaf, op)))]
           t == TrueSon(leaf, op)
           u == FalseSon(leaf, op)
<1>3. nodes' = nodes \/ AddToBfsSpace(op, sons)
  BY Zenon DEF ApplyObservation
<1>4. S \in Beliefs(problem)
  BY BeliefOfNode DEF SearchInv
<1>5. problem.ops[op].obs = {f}
  <2>1. problem.ops[op].obs # {}
    BY <1>1 DEF observation, IsObservation
  <2>2. \A x, y \in problem.ops[op].obs : x = y
    BY <1>2, SearchAssumption DEF SearchInv
  <2> QED
    BY <2>1, <2>2
<1>6. t \in SonsBy(leaf, op) /\ u \in SonsBy(leaf, op)
  BY <1>1 DEF SonsBy
<1>7. u # t
  <2>1. leaf \in Paths
    BY DEF SearchInv, SearchSpace
  <2>2. PICK yes, no : yes = <<op, "true">> /\ no = <<op, "false">>
    OBVIOUS
  <2>3. yes # no /\ yes \in Edge \X {"true", "false", "out"} /\ no \in Edge \X {"true", "false", "out"}
    BY <1>2, <2>2
  <2>4. t = Append(leaf, yes) /\ u = Append(leaf, no)
    BY <2>2 DEF TrueSon, FalseSon
  <2>5. t[Len(leaf) + 1] = yes /\ u[Len(leaf) + 1] = no
    BY <2>1, <2>3, <2>4, AppendProperties DEF Paths
  <2> QED
    BY <2>3, <2>5
<1>8. DOMAIN sons = SonsBy(leaf, op)
  OBVIOUS
<1>9. ASSUME NEW m \in SonsBy(leaf, op)
      PROVE  sons[m].edges = <<>> /\ SolvedThere(sons[m]) /\ sons[m].S = Observed(S, f, m = t)
  <2>1. sons[m] = NewNode(problem, cmd, Observed(S, f, m = t))
    OBVIOUS
  <2> QED
    BY <2>1, NewNodeSolved, Zenon
<1>10. sons[t].S = Observed(S, f, TRUE) /\ sons[u].S = Observed(S, f, FALSE)
  <2>1. (t = t) = TRUE /\ (u = t) = FALSE
    BY <1>7
  <2>2. sons[t].S = Observed(S, f, t = t) /\ sons[u].S = Observed(S, f, u = t)
    BY <1>6, <1>9
  <2> QED
    BY <2>1, <2>2, Zenon
<1> HIDE DEF sons, S, f, t, u
<1>11. ASSUME NEW v \in WorldsIn(nodes[leaf])
       PROVE  /\ problem.ops[op].pre \subseteq v
              /\ OutcomeOf(leaf, op, v).world \in WorldsIn(sons[OutcomeOf(leaf, op, v).node])
  <2>1. PICK h \in S : v = Now(h)
    BY DEF WorldsIn, S
  <2>2. problem.ops[op].pre \subseteq v
    BY <1>1 DEF PlanInv
  <2>3. CASE f \in v
    <3>1. \E g \in Observed(S, f, TRUE) : Now(g) = v
      <4>1. f \in Now(h)
        BY <2>1, <2>3
      <4>2. \E g \in Observed(S, f, TRUE) : Now(g) = Now(h)
        BY <1>4, <2>1, <4>1, ObservedTrue
      <4> QED
        BY <2>1, <4>2
    <3>2. v \in WorldsIn(sons[t])
      BY <1>10, <3>1 DEF WorldsIn
    <3>3. OutcomeOf(leaf, op, v) = [node |-> t, world |-> v]
      BY <1>1, <1>5, <2>3 DEF OutcomeOf, t
    <3> QED
      BY <2>2, <3>2, <3>3
  <2>4. CASE f \notin v
    <3>1. \E g \in Observed(S, f, FALSE) : Now(g) = v
      <4>1. f \notin Now(h)
        BY <2>1, <2>4
      <4>2. \E g \in Observed(S, f, FALSE) : Now(g) = Now(h)
        BY <1>4, <2>1, <4>1, ObservedFalse
      <4> QED
        BY <2>1, <4>2
    <3>2. v \in WorldsIn(sons[u])
      BY <1>10, <3>1 DEF WorldsIn
    <3>3. OutcomeOf(leaf, op, v) = [node |-> u, world |-> v]
      BY <1>1, <1>5, <2>4 DEF OutcomeOf, u
    <3> QED
      BY <2>2, <3>2, <3>3
  <2> QED
    BY <2>3, <2>4
<1>12. (PlanTree' /\ WorldsIn(nodes'[leaf]) = WorldsIn(nodes[leaf])) \/ nodes' = nodes
  <2>1. \A m \in SonsBy(leaf, op) : sons[m].edges = <<>> /\ SolvedThere(sons[m])
    BY <1>9
  <2> QED
    BY <1>1, <1>2, <1>3, <1>8, <1>11, <2>1, PlanTreeGrows
<1> QED
  BY <1>1, <1>12, ExpandPlan

(* Giving up leads to no world.                                            *)
LEMMA EndExpansionPlan ==
  ASSUME SearchInv, PlanInv, EndExpansion
  PROVE  PlanInv'
<1>1. pc = "expand" /\ problem' = problem /\ leaf' = leaf /\ todo' \subseteq todo
  BY DEF EndExpansion
<1>2. PICK sons : sons = [m \in SonsBy(leaf, GIVEUP) |-> GivenUp]
  OBVIOUS
<1>3. nodes' = nodes \/ AddToBfsSpace(GIVEUP, sons)
  BY <1>2 DEF EndExpansion
<1>4. GivenUp.edges = <<>> /\ SolvedThere(GivenUp)
  BY DEF GivenUp, SolvedThere, WorldsIn
<1>5. DOMAIN sons = SonsBy(leaf, GIVEUP) /\ \A m \in SonsBy(leaf, GIVEUP) : sons[m] = GivenUp
  BY <1>2
<1>6. GIVEUP \in Edge
  BY DEF Edge
<1>7. (PlanTree' /\ WorldsIn(nodes'[leaf]) = WorldsIn(nodes[leaf])) \/ nodes' = nodes
  BY <1>1, <1>3, <1>4, <1>5, <1>6, PlanTreeGrows
<1> QED
  BY <1>1, <1>7, ExpandPlan

(* An update changes marks and values only.                                *)
LEMMA UpdateNodePlan ==
  ASSUME SearchInv, PlanInv, UpdateNode
  PROVE  PlanInv'
<1>1. PICK n : n = up
  OBVIOUS
<1>2. pc = "update" /\ problem' = problem /\ Well /\ n \in DOMAIN nodes /\ n \in Paths /\ Pending = WayTo(n)
  BY <1>1 DEF UpdateNode, SearchInv, SearchSpace, Well, Pending
<1>3. Undecided(n)
  BY <1>2, SelfIsPrefix DEF SearchInv
<1>4. ~BadValues(up)
  BY <1>1, <1>2, NoBadValues
<1>5. PICK r : r = Updated(n)
  OBVIOUS
<1>6. r.edges = nodes[n].edges /\ r.S = nodes[n].S /\ (r.solved => r.best # NoEdge)
  BY <1>2, <1>3, <1>5, UpdatedIs
<1>7. nodes' = [nodes EXCEPT ![n] = r] /\ pc' # "expand"
  BY <1>1, <1>2, <1>4, <1>5 DEF UpdateNode
<1>8. /\ DOMAIN nodes' = DOMAIN nodes
      /\ \A m \in DOMAIN nodes : nodes'[m] = IF m = n THEN r ELSE nodes[m]
  BY <1>7
<1>9. PlanTree'
  BY <1>2, <1>6, <1>8, PlanTreeStays DEF PlanInv
<1> QED
  BY <1>7, <1>9 DEF PlanInv

(* Every step keeps the tree good.                                         *)
LEMMA NextPlan ==
  ASSUME SearchInv, PlanInv, [Next]_vars
  PROVE  PlanInv'
<1>1. CASE SelectLeaf
  BY <1>1, SelectLeafPlan
<1>2. CASE Finish
  <2>1. problem' = problem /\ nodes' = nodes /\ pc' = "done"
    BY <1>2 DEF Finish
  <2> QED
    BY <2>1, PlanTreeStays DEF PlanInv
<1>3. CASE EndExpansion
  BY <1>3, EndExpansionPlan
<1>4. CASE UpdateNode
  BY <1>4, UpdateNodePlan
<1>5. ASSUME NEW op \in todo, ApplyOperator(op) \/ ApplyObservation(op)
      PROVE  PlanInv'
  BY <1>5, ApplyOperatorPlan, ApplyObservationPlan
<1>6. CASE UNCHANGED vars
  <2>1. problem' = problem /\ nodes' = nodes /\ leaf' = leaf /\ todo' = todo /\ pc' = pc
    BY <1>6 DEF vars
  <2>2. PlanTree'
    BY <2>1, PlanTreeStays DEF PlanInv
  <2> QED
    BY <2>1, <2>2 DEF PlanInv
<1> QED
  BY <1>1, <1>2, <1>3, <1>4, <1>5, <1>6 DEF Next
------------------------------------------------------------------------------
(* A run of the tree.                                                      *)

(* Where a run is: at a solved node, in a world that is possible there.    *)
OnTrack(p) ==
  /\ p.node \in DOMAIN nodes /\ nodes[p.node].solved
  /\ p.world \in WorldsIn(nodes[p.node])

AtRest(p) == nodes[p.node].best \in {NoEdge, GIVEUP}

(* The best edge of a solved node was applicable and leads to solved sons. *)
LEMMA SolvedLeadsOn ==
  ASSUME SearchInv, PlanInv, NEW p, OnTrack(p), ~AtRest(p)
  PROVE  /\ problem.ops[nodes[p.node].best].pre \subseteq p.world
         /\ OnTrack(Performed(p)) /\ Len(Performed(p).node) = Len(p.node) + 1
<1>1. PICK n, op, v : n = p.node /\ op = nodes[n].best /\ v = p.world
  OBVIOUS
<1>2. n \in DOMAIN nodes /\ nodes[n].solved /\ op \notin {NoEdge, GIVEUP} /\ v \in WorldsIn(nodes[n])
  BY <1>1 DEF OnTrack, AtRest
<1>3. n \notin Pending
  BY <1>2 DEF SearchInv, Undecided
<1>4. Settled(n) /\ Consistent(nodes[n])
  BY <1>2, <1>3 DEF SearchInv
<1>5. ~nodes[n].failed
  BY <1>2, <1>4 DEF Consistent
<1>6. op \in LiveEdges(n) /\ nodes[n].solved = EdgeSolved(n, op)
  BY <1>1, <1>2, <1>4, <1>5 DEF Settled
<1>7. op \in ToSet(nodes[n].edges) \ {GIVEUP} /\ EdgeSolved(n, op)
  BY <1>2, <1>6 DEF LiveEdges
<1>8. LeadsOn(n, op)
  BY <1>2, <1>7 DEF PlanInv, PlanTree
<1>9. PICK q : q = OutcomeOf(n, op, v)
  OBVIOUS
<1>10. Performed(p) = q
  BY <1>1, <1>2, <1>9 DEF Performed
<1>11. q.node \in SonsBy(n, op)
  BY <1>9, OutcomeIsSon
<1>12. op \in Edge /\ n \in Paths /\ q.node \in DOMAIN nodes
  BY <1>2, <1>7, <1>11, SonsAreNodes DEF SearchInv
<1>13. nodes[q.node].solved /\ Len(q.node) = Len(n) + 1
  BY <1>7, <1>11, <1>12, SonIs DEF EdgeSolved
<1>14. problem.ops[op].pre \subseteq v /\ q.world \in WorldsIn(nodes[q.node])
  BY <1>2, <1>8, <1>9 DEF LeadsOn
<1> QED
  BY <1>1, <1>10, <1>12, <1>13, <1>14 DEF OnTrack

(* at is where a run in world w is after each step.                        *)
IsRunUpTo(at, w, k) ==
  at = [i \in 0..k |-> IF i = 0 THEN [node |-> Root, world |-> w] ELSE Performed(at[i - 1])]

(* The tree can be run for any number of steps, by induction on it.        *)
LEMMA RunExists ==
  ASSUME NEW w
  PROVE  \A k \in Nat : \E at : IsRunUpTo(at, w, k)
<1> DEFINE T == {k \in Nat : \E at : IsRunUpTo(at, w, k)}
<1>1. 0 \in T
  <2>1. IsRunUpTo([i \in 0..0 |-> [node |-> Root, world |-> w]], w, 0)
    BY DEF IsRunUpTo
  <2> QED
    BY <2>1
<1>2. ASSUME NEW k \in Nat, k \in T
      PROVE  k + 1 \in T
  <2>1. PICK f : IsRunUpTo(f, w, k)
    BY <1>2
  <2>2. PICK last : last = Performed(f[k])
    OBVIOUS
  <2>3. PICK g : g = [i \in 0..k + 1 |-> IF i <= k THEN f[i] ELSE last]
    OBVIOUS
  <2>4. ASSUME NEW i \in 0..k + 1
        PROVE  g[i] = IF i = 0 THEN [node |-> Root, world |-> w] ELSE Performed(g[i - 1])
    <3>1. CASE i = k + 1
      <4>1. i - 1 = k /\ g[k] = f[k] /\ g[i] = last /\ i # 0
        BY <2>3, <3>1
      <4> QED
        BY <2>2, <4>1
    <3>2. CASE i \in 0..k
      <4>1. f[i] = IF i = 0 THEN [node |-> Root, world |-> w] ELSE Performed(f[i - 1])
        BY <2>1, <3>2 DEF IsRunUpTo
      <4>2. g[i] = f[i] /\ (i # 0 => g[i - 1] = f[i - 1])
        BY <2>3, <3>2
      <4> QED
        BY <4>1, <4>2
    <3> QED
      BY <3>1, <3>2
  <2>5. IsRunUpTo(g, w, k + 1)
    BY <2>3, <2>4 DEF IsRunUpTo
  <2> QED
    BY <2>5
<1> HIDE DEF T
<1>3. Nat \subseteq T
  BY <1>1, <1>2, NatSetInduction
<1> QED
  BY <1>3 DEF T

(* A run stays on track, and before it rests every step goes one deeper.   *)
LEMMA RunOnTrack ==
  ASSUME SearchInv, PlanInv, nodes[Root].solved, NEW w \in problem.worlds,
         NEW k \in Nat, NEW at, IsRunUpTo(at, w, k)
  PROVE  \A i \in 0..k : OnTrack(at[i]) /\ (Len(at[i].node) = i \/ AtRest(at[i]))
<1> DEFINE Good(i) == OnTrack(at[i]) /\ (Len(at[i].node) = i \/ AtRest(at[i]))
           T == {i \in Nat : i <= k => Good(i)}
<1>1. 0 \in T
  <2>1. at[0] = [node |-> Root, world |-> w]
    BY DEF IsRunUpTo
  <2>2. w \in WorldsIn(nodes[Root]) /\ Root \in DOMAIN nodes /\ Len(Root) = 0
    BY DEF PlanInv, PlanTree, SearchInv, SearchSpace, Root
  <2> QED
    BY <2>1, <2>2 DEF OnTrack
<1>2. ASSUME NEW i \in Nat, i \in T
      PROVE  i + 1 \in T
  <2> SUFFICES ASSUME i + 1 <= k PROVE Good(i + 1)
    OBVIOUS
  <2>1. Good(i)
    BY <1>2
  <2>2. at[i + 1] = Performed(at[i])
    <3>1. i + 1 \in 0..k /\ i + 1 # 0 /\ (i + 1) - 1 = i
      OBVIOUS
    <3> QED
      BY <3>1 DEF IsRunUpTo
  <2>3. CASE AtRest(at[i])
    <3>1. at[i + 1] = at[i]
      BY <2>2, <2>3 DEF Performed, AtRest
    <3> QED
      BY <2>1, <2>3, <3>1
  <2>4. CASE ~AtRest(at[i])
    BY <2>1, <2>2, <2>4, SolvedLeadsOn
  <2> QED
    BY <2>3, <2>4
<1> HIDE DEF T
<1>3. Nat \subseteq T
  BY <1>1, <1>2, NatSetInduction
<1> QED
  BY <1>3 DEF T

(* The plan that is printed works in every world.                          *)
LEMMA PlanWorks ==
  ASSUME SearchInv, PlanInv, nodes[Root].solved, NEW w \in problem.worlds
  PROVE  PlanWorksIn(w)
<1>1. PICK K \in Nat : K = MaxPlanLength
  BY SearchAssumption
<1>2. PICK at : at = CHOOSE f : IsRunUpTo(f, w, MaxPlanLength)
  OBVIOUS
<1>3. IsRunUpTo(at, w, K)
  BY <1>1, <1>2, RunExists
<1>4. \A i \in 0..K : OnTrack(at[i]) /\ (Len(at[i].node) = i \/ AtRest(at[i]))
  BY <1>3, RunOnTrack
<1>5. ASSUME NEW i \in 0..K, nodes[at[i].node].best \notin {NoEdge, GIVEUP}
      PROVE  problem.ops[nodes[at[i].node].best].pre \subseteq at[i].world
  BY <1>4, <1>5, SolvedLeadsOn DEF AtRest
<1>6. PICK end : end = at[K]
  OBVIOUS
<1>7. OnTrack(end) /\ (Len(end.node) = K \/ AtRest(end))
  BY <1>4, <1>6
<1>8. AtRest(end)
  <2>1. SUFFICES ASSUME ~AtRest(end) PROVE FALSE
    OBVIOUS
  <2>2. Len(end.node) = K
    BY <1>7, <2>1
  <2>3. OnTrack(Performed(end)) /\ Len(Performed(end).node) = K + 1
    BY <1>7, <2>1, <2>2, SolvedLeadsOn
  <2>4. Len(Performed(end).node) <= K
    BY <1>1, <2>3 DEF OnTrack, PlanInv, PlanTree
  <2> QED
    BY <2>3, <2>4
<1>9. \/ nodes[end.node].best = GIVEUP
      \/ nodes[end.node].best = NoEdge /\ problem.goal \subseteq end.world
  BY <1>7, <1>8 DEF AtRest, OnTrack, PlanInv, PlanTree, SolvedThere
<1> QED
  BY <1>1, <1>2, <1>5, <1>6, <1>9, Zenon DEF PlanWorksIn, IsRunUpTo

(* For every task, every heuristic and every setting of the search: none   *)
(* of the tests that exit with an error fires, a solved node leads on by   *)
(* its best edge to solved nodes only, in AO* the value of every inner     *)
(* node is that of its cheapest live edge, although an expansion brings    *)
(* only one path up to date; and once the initial state is solved, the     *)
(* tree that print_plan prints applies no operator before its              *)
(* preconditions hold, ends within MAX_PLAN_LENGTH steps and reaches the   *)
(* goal in every initial world, unless it gives up there (search.c,        *)
(* update_fvalues_and_markers, do_best_first_search and print_plan).       *)
THEOREM SearchIsSound ==
  ASSUME HeuristicType
  PROVE  do_best_first_search => []SearchSound
<1>1. Init => SearchInv /\ PlanInv
  BY InitInv, InitPlan
<1>2. SearchInv /\ PlanInv /\ [Next]_vars => (SearchInv /\ PlanInv)'
  BY NextInv, NextPlan
<1>3. SearchInv /\ PlanInv => SearchSound
  BY InvSaysMarks, PlanWorks DEF SearchSound, PlanSolvesEveryWorld
<1> QED
  BY <1>1, <1>2, <1>3, PTL DEF do_best_first_search
==============================================================================
