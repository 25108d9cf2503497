---------------------------- MODULE CoCGTreeProofs ----------------------------
(***************************************************************************)
(* Proofs about the subgraph tree and an execution of it in one world, for *)
(* every domain and every plan tree: a subgraph is entered at its t0, what *)
(* the expert takes for known is true in the world, what is dispatched is  *)
(* applicable, and the execution ends like the contingent plan.            *)
(***************************************************************************)
EXTENDS CoCGTree, LayeredPlanProofs, FiniteSetTheorems

(* One more round of the propagation through the oneofs.                   *)
SettleMore(r, e) ==
  [true  |-> r.true \union
               {q \in e.unknowns :
                  \E o \in e.oneofs : q \in o /\ o \ r.false = {q}},
   false |-> r.false \union
               {q \in e.unknowns :
                  \E o \in e.oneofs : q \in o /\ (o \ {q}) \intersect r.true # {}}]

SettleFirst(p, value) ==
  [true |-> IF value THEN {p} ELSE {}, false |-> IF value THEN {} ELSE {p}]

AreRounds(rounds, n, first, e) ==
  rounds = [k \in 0..n |-> IF k = 0 THEN first ELSE SettleMore(rounds[k - 1], e)]

(* Every number of rounds of the propagation exists.                       *)
LEMMA RoundsExist ==
  ASSUME NEW first, NEW e, NEW n \in Nat
  PROVE  \E rounds : AreRounds(rounds, n, first, e)
<1> DEFINE T == {m \in Nat : \E rounds : AreRounds(rounds, m, first, e)}
<1>1. 0 \in T
  <2>1. AreRounds([k \in 0..0 |-> first], 0, first, e)
    BY DEF AreRounds
  <2> QED
    BY <2>1
<1>2. ASSUME NEW m \in Nat, m \in T
      PROVE  m + 1 \in T
  <2>1. PICK f : AreRounds(f, m, first, e)
    BY <1>2
  <2>2. PICK g : g = [k \in 0..m + 1 |-> IF k <= m THEN f[k] ELSE SettleMore(f[m], e)]
    OBVIOUS
  <2>3. ASSUME NEW k \in 0..m + 1
        PROVE  g[k] = IF k = 0 THEN first ELSE SettleMore(g[k - 1], e)
    <3>1. CASE k = m + 1
      BY <2>2, <3>1
    <3>2. CASE k \in 0..m
      <4>1. f[k] = IF k = 0 THEN first ELSE SettleMore(f[k - 1], e)
        BY <2>1, <3>2 DEF AreRounds
      <4> QED
        BY <2>2, <3>2, <4>1
    <3> QED
      BY <3>1, <3>2
  <2>4. AreRounds(g, m + 1, first, e)
    BY <2>2, <2>3 DEF AreRounds
  <2> QED
    BY <2>4
<1> HIDE DEF T
<1>3. Nat \subseteq T
  BY <1>1, <1>2, NatSetInduction
<1> QED
  BY <1>3 DEF T

(* Settled after n rounds.                                                 *)
SettledBy(rounds, n, e, p, value) ==
  /\ rounds[0] = SettleFirst(p, value)
  /\ \A k \in 1..n : rounds[k] = SettleMore(rounds[k - 1], e)
  /\ Settled(e, p, value) = rounds[n]

(* The propagation, round by round.                                        *)
LEMMA SettledIs ==
  ASSUME NEW e, NEW p, NEW value \in BOOLEAN, Cardinality(e.unknowns) \in Nat
  PROVE  \E n \in Nat : \E rounds : SettledBy(rounds, n, e, p, value)
<1>1. PICK n \in Nat : n = Cardinality(e.unknowns)
  OBVIOUS
<1>2. PICK first : first = SettleFirst(p, value)
  OBVIOUS
<1>3. \E rounds : AreRounds(rounds, n, first, e)
  BY RoundsExist
<1>4. PICK rounds : rounds = CHOOSE rs : AreRounds(rs, n, first, e)
  OBVIOUS
<1>5. AreRounds(rounds, n, first, e)
  BY <1>3, <1>4
<1>6. Settled(e, p, value) = rounds[n]
  BY <1>1, <1>2, <1>4, Zenon DEF Settled, AreRounds, SettleFirst, SettleMore
<1>7. \A k \in 0..n : rounds[k] = IF k = 0 THEN first ELSE SettleMore(rounds[k - 1], e)
  BY <1>5, Zenon DEF AreRounds
<1>8. rounds[0] = first
  <2>1. 0 \in 0..n
    OBVIOUS
  <2> QED
    BY <1>7, <2>1, Zenon
<1>9. ASSUME NEW k \in 1..n
      PROVE  rounds[k] = SettleMore(rounds[k - 1], e)
  <2>1. k \in 0..n /\ k # 0
    OBVIOUS
  <2> QED
    BY <1>7, <2>1, Zenon
<1> QED
  BY <1>2, <1>6, <1>8, <1>9 DEF SettledBy

(* What the propagation has settled is so in the world.                    *)
SoundIn(r, w) == r.true \subseteq w /\ r.false \intersect w = {}

(* A round of the propagation settles nothing wrongly in a world where the *)
(* oneofs hold.                                                            *)
LEMMA SettleMoreSound ==
  ASSUME NEW e, NEW w, \A o \in e.oneofs : \E f \in Positive : w \intersect o = {f},
         NEW r, SoundIn(r, w)
  PROVE  SoundIn(SettleMore(r, e), w)
<1>1. ASSUME NEW q, NEW o \in e.oneofs, q \in o, o \ r.false = {q}
      PROVE  q \in w
  <2>1. PICK f : w \intersect o = {f}
    OBVIOUS
  <2>2. f \notin r.false
    BY <2>1 DEF SoundIn
  <2> QED
    BY <1>1, <2>1, <2>2
<1>2. ASSUME NEW q, NEW o \in e.oneofs, q \in o, (o \ {q}) \intersect r.true # {}
      PROVE  q \notin w
  <2>1. PICK f : w \intersect o = {f}
    OBVIOUS
  <2>2. PICK g : g \in o /\ g # q /\ g \in r.true
    BY <1>2
  <2> QED
    BY <1>2, <2>1, <2>2 DEF SoundIn
<1> QED
  BY <1>1, <1>2 DEF SoundIn, SettleMore

(* What an observation settles is so in a world where the oneofs hold and  *)
(* the observation is true.                                                *)
LEMMA SettledSound ==
  ASSUME NEW e, NEW w, \A o \in e.oneofs : \E f \in Positive : w \intersect o = {f},
         Cardinality(e.unknowns) \in Nat,
         NEW p, NEW value \in BOOLEAN, value <=> p \in w
  PROVE  SoundIn(Settled(e, p, value), w)
<1>1. PICK n \in Nat : \E rounds : SettledBy(rounds, n, e, p, value)
  BY SettledIs
<1>2. PICK rounds : /\ rounds[0] = SettleFirst(p, value)
                    /\ \A k \in 1..n : rounds[k] = SettleMore(rounds[k - 1], e)
                    /\ Settled(e, p, value) = rounds[n]
  BY <1>1 DEF SettledBy
<1> DEFINE T == {k \in Nat : k <= n => SoundIn(rounds[k], w)}
<1>3. 0 \in T
  BY <1>2 DEF SoundIn, SettleFirst
<1>4. ASSUME NEW k \in Nat, k \in T
      PROVE  k + 1 \in T
  <2> SUFFICES ASSUME k + 1 <= n PROVE SoundIn(rounds[k + 1], w)
    OBVIOUS
  <2>1. k + 1 \in 1..n /\ (k + 1) - 1 = k
    OBVIOUS
  <2>2. rounds[k + 1] = SettleMore(rounds[k], e)
    BY <1>2, <2>1
  <2>3. SoundIn(rounds[k], w)
    BY <1>4
  <2> QED
    BY <2>2, <2>3, SettleMoreSound
<1> HIDE DEF T
<1>5. Nat \subseteq T
  BY <1>3, <1>4, NatSetInduction
<1>6. SoundIn(rounds[n], w)
  BY <1>5 DEF T
<1> QED
  BY <1>2, <1>6

(* An observation keeps an expert that is right about the world right.     *)
LEMMA SensingTrue ==
  ASSUME NEW e, NEW w, TrueIn(e, w), Cardinality(e.unknowns) \in Nat,
         NEW p, NEW value \in BOOLEAN, value <=> p \in w
  PROVE  TrueIn(AfterSensing(e, p, value), w)
<1>1. CASE p \notin e.unknowns
  BY <1>1 DEF AfterSensing
<1>2. CASE p \in e.unknowns
  <2>1. PICK s : s = Settled(e, p, value)
    OBVIOUS
  <2>2. \A o \in e.oneofs : \E f \in Positive : w \intersect o = {f}
    BY DEF TrueIn
  <2>3. SoundIn(s, w)
    BY <2>1, <2>2, SettledSound
  <2>4. PICK later : later = AfterSensing(e, p, value)
    OBVIOUS
  <2>5. /\ later.predicates = e.predicates \union (s.true \intersect UNION e.oneofs)
        /\ later.oneofs = {o \ s.false : o \in {q \in e.oneofs : q \intersect s.true = {}}}
    BY <1>2, <2>1, <2>4 DEF AfterSensing
  <2>6. ASSUME NEW o \in later.oneofs
        PROVE  \E f \in Positive : w \intersect o = {f}
    <3>1. PICK q \in e.oneofs : o = q \ s.false
      BY <2>5
    <3> QED
      BY <2>2, <2>3, <3>1 DEF SoundIn
  <2> QED
    BY <2>3, <2>4, <2>5, <2>6 DEF TrueIn, SoundIn
<1> QED
  BY <1>1, <1>2
------------------------------------------------------------------------------
(* An expert's unknowns are finitely many.                                 *)
LEMMA UnknownsFinite ==
  ASSUME NEW e, Contents(e)
  PROVE  Cardinality(e.unknowns) \in Nat
<1>1. e.unknowns \in SUBSET Positive
  BY DEF Contents
<1> QED
  BY <1>1, FactsAssumption, FS_Subset, FS_CardinalityType

(* An observation leaves an expert an expert.                              *)
LEMMA SensingContents ==
  ASSUME NEW e, Contents(e), NEW p, NEW value \in BOOLEAN
  PROVE  Contents(AfterSensing(e, p, value))
<1>1. CASE p \notin e.unknowns
  BY <1>1 DEF AfterSensing
<1>2. CASE p \in e.unknowns
  <2>1. PICK s : s = Settled(e, p, value)
    OBVIOUS
  <2>2. PICK known, open, sets :
          /\ known = e.predicates \union (s.true \intersect UNION e.oneofs)
          /\ open = e.unknowns \ (s.true \union s.false)
          /\ sets = {o \ s.false : o \in {q \in e.oneofs : q \intersect s.true = {}}}
    OBVIOUS
  <2>3. AfterSensing(e, p, value) = [predicates |-> known, unknowns |-> open, oneofs |-> sets]
    BY <1>2, <2>1, <2>2, Zenon DEF AfterSensing
  <2>4. open \subseteq Positive
    BY <2>2 DEF Contents
  <2> QED
    BY <2>3, <2>4 DEF Contents
<1> QED
  BY <1>1, <1>2

------------------------------------------------------------------------------
(* What holds of nullptr, and of each node whose children it holds of,     *)
(* holds of the whole tree: its pointers never lead back.                  *)
LEMMA TreeInduction ==
  ASSUME NEW nodes, IsPlanTree(nodes), NEW T, nullptr \in T,
         \A n \in DOMAIN nodes : nodes[n].true_node \in T /\ nodes[n].false_node \in T => n \in T
  PROVE  \A n \in DOMAIN nodes \union {nullptr} : n \in T
<1>1. PICK S : S = DOMAIN nodes \ T
  OBVIOUS
<1>2. CASE S = {}
  BY <1>1, <1>2
<1>3. CASE S # {}
  <2>1. PICK n \in S : nodes[n].true_node \notin S /\ nodes[n].false_node \notin S
    BY <1>1, <1>3 DEF IsPlanTree
  <2>2. /\ nodes[n].true_node \in DOMAIN nodes \union {nullptr}
        /\ nodes[n].false_node \in DOMAIN nodes \union {nullptr}
    BY <1>1, <2>1 DEF IsPlanTree
  <2>3. nodes[n].true_node \in T /\ nodes[n].false_node \in T
    BY <1>1, <2>1, <2>2
  <2> QED
    BY <1>1, <2>1, <2>3
<1> QED
  BY <1>2, <1>3

(* mid is the loop that collects the actuation nodes.                      *)
Collects(mid, nodes) ==
  \A m \in DOMAIN nodes \union {nullptr} : \A acc \in Seq(DOMAIN nodes) :
    mid[<<m, acc>>] = IF Stops(nodes, m) THEN acc
                      ELSE mid[<<nodes[m].true_node, Append(acc, m)>>]

(* The walk is a loop that leaves at the node where it stops.              *)
LEMMA MidIs ==
  ASSUME NEW nodes, IsPlanTree(nodes)
  PROVE  \E mid : Collects(mid, nodes) /\ \A n : MidNodes(nodes, n) = mid[<<n, <<>>>>]
<1>1. PICK ends, A : /\ ends = DOMAIN nodes \union {nullptr}
                     /\ A = (DOMAIN nodes \union {nullptr}) \X Seq(DOMAIN nodes)
  OBVIOUS
<1>2. PICK E, step, out : /\ E = {at \in A : Stops(nodes, at[1])}
                          /\ step = [at \in A |-> <<nodes[at[1]].true_node, Append(at[2], at[1])>>]
                          /\ out = [at \in A |-> at[2]]
  OBVIOUS
<1>3. ASSUME NEW at \in A, at \notin E
      PROVE  step[at] \in A
  <2>1. at[1] \in DOMAIN nodes /\ at[2] \in Seq(DOMAIN nodes)
    BY <1>1, <1>2, <1>3 DEF Stops
  <2>2. nodes[at[1]].true_node \in ends
    BY <1>1, <2>1 DEF IsPlanTree
  <2>3. Append(at[2], at[1]) \in Seq(DOMAIN nodes)
    BY <2>1
  <2> QED
    BY <1>1, <1>2, <2>2, <2>3
<1>4. PICK f : IsLoop(f, A, E, step, out)
  <2>1. \A at \in A : at \in E \/ step[at] \in A
    BY <1>3
  <2> QED
    BY <2>1, LoopExists
<1> DEFINE IsMid(mid) ==
      mid = [at \in (DOMAIN nodes \union {nullptr}) \X Seq(DOMAIN nodes) |->
               IF Stops(nodes, at[1]) THEN at[2]
               ELSE mid[<<nodes[at[1]].true_node, Append(at[2], at[1])>>]]
<1>5. IsMid(f)
  <2>1. \A at \in A : f[at] = IF Stops(nodes, at[1]) THEN at[2]
                              ELSE f[<<nodes[at[1]].true_node, Append(at[2], at[1])>>]
    BY <1>2, <1>4 DEF IsLoop
  <2>2. f = [at \in A |-> f[at]]
    BY <1>4 DEF IsLoop
  <2> QED
    BY <1>1, <2>1, <2>2
<1>6. PICK mid : mid = CHOOSE m : IsMid(m)
  OBVIOUS
<1>7. IsMid(mid)
  BY <1>5, <1>6
<1>8. \A n : MidNodes(nodes, n) = mid[<<n, <<>>>>]
  BY <1>6, Zenon DEF MidNodes
<1>9. ASSUME NEW m \in ends, NEW acc \in Seq(DOMAIN nodes)
      PROVE  mid[<<m, acc>>] = IF Stops(nodes, m) THEN acc
                               ELSE mid[<<nodes[m].true_node, Append(acc, m)>>]
  <2>1. PICK at \in A : at = <<m, acc>>
    BY <1>1
  <2>2. mid[at] = IF Stops(nodes, at[1]) THEN at[2]
                  ELSE mid[<<nodes[at[1]].true_node, Append(at[2], at[1])>>]
    BY <1>1, <1>7
  <2> QED
    BY <2>1, <2>2
<1> QED
  BY <1>1, <1>8, <1>9 DEF Collects

(* Whatever has been collected before, the walk from n adds q to it.       *)
Adds(mid, nodes, n, q) == \A acc \in Seq(DOMAIN nodes) : mid[<<n, acc>>] = acc \o q

(* What the walk adds from a node is the node, and what it adds from the   *)
(* next one.                                                               *)
LEMMA AddsMore ==
  ASSUME NEW nodes, IsPlanTree(nodes), NEW mid, Collects(mid, nodes),
         NEW n \in DOMAIN nodes, ~Stops(nodes, n),
         NEW q \in Seq(DOMAIN nodes), Adds(mid, nodes, nodes[n].true_node, q)
  PROVE  Adds(mid, nodes, n, <<n>> \o q)
<1> SUFFICES ASSUME NEW acc \in Seq(DOMAIN nodes)
             PROVE  mid[<<n, acc>>] = acc \o (<<n>> \o q)
  BY DEF Adds
<1>1. Append(acc, n) \in Seq(DOMAIN nodes)
  OBVIOUS
<1>2. mid[<<n, acc>>] = Append(acc, n) \o q
  BY <1>1 DEF Collects, Adds
<1>3. Append(acc, n) \o q = acc \o (<<n>> \o q)
  OBVIOUS
<1> QED
  BY <1>2, <1>3

(* The walk from a node comes to its end, after actuation nodes only.      *)
LEMMA WalkAdds ==
  ASSUME NEW nodes, IsPlanTree(nodes), NEW mid, Collects(mid, nodes),
         NEW n \in DOMAIN nodes \union {nullptr}
  PROVE  \E q \in Seq({m \in DOMAIN nodes : ~IsSensing(nodes, m)}) : Adds(mid, nodes, n, q)
<1>1. PICK acting : acting = {m \in DOMAIN nodes : ~IsSensing(nodes, m)}
  OBVIOUS
<1> DEFINE T == {m \in DOMAIN nodes \union {nullptr} : \E q \in Seq(acting) : Adds(mid, nodes, m, q)}
<1>2. ASSUME NEW m \in DOMAIN nodes \union {nullptr}, Stops(nodes, m)
      PROVE  m \in T
  <2>1. <<>> \in Seq(acting)
    OBVIOUS
  <2>2. ASSUME NEW acc \in Seq(DOMAIN nodes)
        PROVE  mid[<<m, acc>>] = acc \o <<>>
    <3>1. mid[<<m, acc>>] = acc
      BY <1>2 DEF Collects
    <3>2. acc \o <<>> = acc
      OBVIOUS
    <3> QED
      BY <3>1, <3>2
  <2>3. Adds(mid, nodes, m, <<>>)
    BY <2>2 DEF Adds
  <2> QED
    BY <2>1, <2>3
<1>3. nullptr \in T
  BY <1>2 DEF Stops
<1>4. ASSUME NEW m \in DOMAIN nodes, nodes[m].true_node \in T, ~Stops(nodes, m)
      PROVE  m \in T
  <2>1. PICK q \in Seq(acting) : Adds(mid, nodes, nodes[m].true_node, q)
    BY <1>4
  <2>2. m \in acting /\ q \in Seq(DOMAIN nodes)
    BY <1>1, <1>4 DEF Stops
  <2>3. Adds(mid, nodes, m, <<m>> \o q)
    BY <1>4, <2>1, <2>2, AddsMore
  <2>4. <<m>> \o q \in Seq(acting)
    BY <2>2
  <2> QED
    BY <2>3, <2>4
<1> HIDE DEF T
<1>5. \A m \in DOMAIN nodes \union {nullptr} : m \in T
  BY <1>2, <1>3, <1>4, TreeInduction
<1> QED
  BY <1>1, <1>5 DEF T

(* The actuation nodes that traverse_contingent_planning_tree collects:    *)
(* none where it stops, else the node it stands at and those after it.     *)
LEMMA MidNodesAre ==
  ASSUME NEW nodes, IsPlanTree(nodes), NEW n \in DOMAIN nodes \union {nullptr}
  PROVE  /\ MidNodes(nodes, n) \in Seq({m \in DOMAIN nodes : ~IsSensing(nodes, m)})
         /\ Stops(nodes, n) => MidNodes(nodes, n) = <<>>
         /\ ~Stops(nodes, n) => MidNodes(nodes, n) = <<n>> \o MidNodes(nodes, nodes[n].true_node)
<1>1. PICK acting : acting = {m \in DOMAIN nodes : ~IsSensing(nodes, m)}
  OBVIOUS
<1>2. PICK mid : Collects(mid, nodes) /\ \A m : MidNodes(nodes, m) = mid[<<m, <<>>>>]
  BY MidIs
<1>3. <<>> \in Seq(DOMAIN nodes)
  OBVIOUS
<1>4. ASSUME NEW m, NEW q \in Seq(DOMAIN nodes), Adds(mid, nodes, m, q)
      PROVE  MidNodes(nodes, m) = q
  <2>1. mid[<<m, <<>>>>] = <<>> \o q
    BY <1>3, <1>4 DEF Adds
  <2>2. <<>> \o q = q
    OBVIOUS
  <2> QED
    BY <1>2, <2>1, <2>2
<1>5. MidNodes(nodes, n) \in Seq(acting)
  <2>1. PICK q \in Seq(acting) : Adds(mid, nodes, n, q)
    BY <1>1, <1>2, WalkAdds
  <2>2. q \in Seq(DOMAIN nodes)
    BY <1>1, <2>1
  <2> QED
    BY <1>4, <2>1, <2>2
<1>6. ASSUME Stops(nodes, n)
      PROVE  MidNodes(nodes, n) = <<>>
  BY <1>2, <1>3, <1>6 DEF Collects
<1>7. ASSUME ~Stops(nodes, n)
      PROVE  MidNodes(nodes, n) = <<n>> \o MidNodes(nodes, nodes[n].true_node)
  <2>1. n \in DOMAIN nodes
    BY <1>7 DEF Stops
  <2>2. PICK m \in DOMAIN nodes \union {nullptr} : m = nodes[n].true_node
    BY <2>1 DEF IsPlanTree
  <2>3. PICK q \in Seq(acting) : Adds(mid, nodes, m, q)
    BY <1>1, <1>2, WalkAdds
  <2>4. q \in Seq(DOMAIN nodes) /\ <<n>> \o q \in Seq(DOMAIN nodes)
    BY <1>1, <2>1, <2>3
  <2>5. Adds(mid, nodes, n, <<n>> \o q)
    BY <1>2, <1>7, <2>1, <2>2, <2>3, <2>4, AddsMore
  <2> QED
    BY <1>4, <2>2, <2>3, <2>4, <2>5
<1> QED
  BY <1>1, <1>5, <1>6, <1>7

(* Where the walk stops: at the node it stands at, or where it stops from  *)
(* the next one.                                                           *)
LEMMA StopNodeIs ==
  ASSUME NEW nodes, IsPlanTree(nodes), NEW n \in DOMAIN nodes \union {nullptr}
  PROVE  StopNode(nodes, n) = IF Stops(nodes, n) THEN n ELSE StopNode(nodes, nodes[n].true_node)
<1>1. PICK ends : ends = DOMAIN nodes \union {nullptr}
  OBVIOUS
<1>2. PICK E, step, out : /\ E = {m \in ends : Stops(nodes, m)}
                          /\ step = [m \in ends |-> nodes[m].true_node]
                          /\ out = [m \in ends |-> m]
  OBVIOUS
<1>3. ASSUME NEW m \in ends, m \notin E
      PROVE  step[m] \in ends
  BY <1>1, <1>2, <1>3 DEF IsPlanTree, Stops
<1>4. PICK f : IsLoop(f, ends, E, step, out)
  <2>1. \A m \in ends : m \in E \/ step[m] \in ends
    BY <1>3
  <2> QED
    BY <2>1, LoopExists
<1> DEFINE IsStop(stop) ==
      stop = [m \in DOMAIN nodes \union {nullptr} |->
                IF Stops(nodes, m) THEN m ELSE stop[nodes[m].true_node]]
<1>5. IsStop(f)
  <2>1. \A m \in ends : f[m] = IF Stops(nodes, m) THEN m ELSE f[nodes[m].true_node]
    BY <1>2, <1>4 DEF IsLoop
  <2>2. f = [m \in ends |-> f[m]]
    BY <1>4 DEF IsLoop
  <2> QED
    BY <1>1, <2>1, <2>2
<1>6. PICK stop : stop = CHOOSE s : IsStop(s)
  OBVIOUS
<1>7. IsStop(stop)
  BY <1>5, <1>6
<1>8. \A m : StopNode(nodes, m) = stop[m]
  BY <1>6, Zenon DEF StopNode
<1>9. stop[n] = IF Stops(nodes, n) THEN n ELSE stop[nodes[n].true_node]
  BY <1>7
<1> QED
  BY <1>8, <1>9

(* It stops at a sensing node or at nullptr.                               *)
LEMMA StopNodeStops ==
  ASSUME NEW nodes, IsPlanTree(nodes), NEW n \in DOMAIN nodes \union {nullptr}
  PROVE  StopNode(nodes, n) \in DOMAIN nodes \union {nullptr} /\ Stops(nodes, StopNode(nodes, n))
<1> DEFINE T == {m \in DOMAIN nodes \union {nullptr} :
                   /\ StopNode(nodes, m) \in DOMAIN nodes \union {nullptr}
                   /\ Stops(nodes, StopNode(nodes, m))}
<1>1. ASSUME NEW m \in DOMAIN nodes \union {nullptr}, Stops(nodes, m)
      PROVE  m \in T
  BY <1>1, StopNodeIs
<1>2. nullptr \in T
  BY <1>1 DEF Stops
<1>3. ASSUME NEW m \in DOMAIN nodes, nodes[m].true_node \in T, ~Stops(nodes, m)
      PROVE  m \in T
  BY <1>3, StopNodeIs
<1> HIDE DEF T
<1>4. \A m \in DOMAIN nodes \union {nullptr} : m \in T
  BY <1>1, <1>2, <1>3, TreeInduction
<1> QED
  BY <1>4 DEF T

(* The walk from a node of the plan.                                       *)
LEMMA WalkIs ==
  ASSUME plan \in Plans, NEW n \in DOMAIN plan.nodes \union {nullptr}
  PROVE  /\ MidActions(n) \in Seq(ActionNames)
         /\ StopNode(plan.nodes, n) \in DOMAIN plan.nodes \union {nullptr}
<1>1. PICK nodes : nodes = plan.nodes
  OBVIOUS
<1>2. PICK acting : acting = {m \in DOMAIN nodes : ~IsSensing(nodes, m)}
  OBVIOUS
<1>3. PICK mid : mid = MidNodes(nodes, n)
  OBVIOUS
<1>4. /\ mid \in Seq(acting)
      /\ StopNode(nodes, n) \in DOMAIN nodes \union {nullptr}
      /\ \A m \in DOMAIN nodes : IsSensing(nodes, m) \/ nodes[m].item[2] \in ActionNames
  <2>1. IsPlanTree(nodes)
    BY <1>1, PlanAssumption
  <2>2. mid \in Seq(acting)
    BY <1>1, <1>2, <1>3, <2>1, MidNodesAre
  <2>3. StopNode(nodes, n) \in DOMAIN nodes \union {nullptr}
    BY <1>1, <2>1, StopNodeStops
  <2> QED
    BY <2>1, <2>2, <2>3 DEF IsPlanTree
<1>5. MidActions(n) = [i \in 1..Len(mid) |-> nodes[mid[i]].item[2]]
  BY <1>1, <1>3 DEF MidActions
<1>6. Len(mid) \in Nat /\ \A i \in 1..Len(mid) : mid[i] \in acting
  BY <1>4
<1>7. \A i \in 1..Len(mid) : nodes[mid[i]].item[2] \in ActionNames
  BY <1>2, <1>4, <1>6
<1>8. MidActions(n) \in [1..Len(mid) -> ActionNames]
  BY <1>5, <1>7
<1> QED
  BY <1>1, <1>4, <1>6, <1>8

(* The actions of the walk: none where it stops, else the action of the    *)
(* node it stands at and those of the walk from the next one.              *)
LEMMA MidActionsAre ==
  ASSUME plan \in Plans, NEW n \in Ends
  PROVE  /\ Stops(plan.nodes, n) => MidActions(n) = <<>>
         /\ ~Stops(plan.nodes, n) =>
              /\ n \in DOMAIN plan.nodes /\ plan.nodes[n].true_node \in Ends
              /\ plan.nodes[n].item[2] \in ActionNames
              /\ MidActions(n) = <<plan.nodes[n].item[2]>> \o MidActions(plan.nodes[n].true_node)
<1>1. PICK nodes : nodes = plan.nodes
  OBVIOUS
<1>2. IsPlanTree(nodes) /\ n \in DOMAIN nodes \union {nullptr} /\ Ends = DOMAIN nodes \union {nullptr}
  BY <1>1, PlanAssumption DEF Ends
<1>3. CASE Stops(nodes, n)
  <2>1. MidNodes(nodes, n) = <<>>
    BY <1>2, <1>3, MidNodesAre
  <2> QED
    BY <1>1, <1>3, <2>1 DEF MidActions
<1>4. CASE ~Stops(nodes, n)
  <2>1. n \in DOMAIN nodes /\ nodes[n].true_node \in Ends /\ nodes[n].item[2] \in ActionNames
    BY <1>2, <1>4 DEF IsPlanTree, Stops
  <2>2. PICK mid, rest : mid = MidNodes(nodes, n) /\ rest = MidNodes(nodes, nodes[n].true_node)
    OBVIOUS
  <2>3. mid = <<n>> \o rest /\ rest \in Seq(DOMAIN nodes)
    <3>1. MidNodes(nodes, n) = <<n>> \o MidNodes(nodes, nodes[n].true_node)
      BY <1>2, <1>4, MidNodesAre
    <3>2. rest \in Seq({m \in DOMAIN nodes : ~IsSensing(nodes, m)})
      BY <1>2, <2>1, <2>2, MidNodesAre
    <3> QED
      BY <2>2, <3>1, <3>2
  <2>4. PICK k \in Nat : k = Len(rest)
    BY <2>3
  <2>5. Len(mid) = k + 1 /\ mid[1] = n /\ \A i \in 2..k + 1 : mid[i] = rest[i - 1]
    BY <2>1, <2>3, <2>4
  <2>6. PICK a, acts, later : /\ a = nodes[n].item[2]
                              /\ acts = [i \in 1..k + 1 |-> nodes[mid[i]].item[2]]
                              /\ later = [i \in 1..k |-> nodes[rest[i]].item[2]]
    OBVIOUS
  <2>7. acts = MidActions(n) /\ later = MidActions(nodes[n].true_node)
    BY <1>1, <2>2, <2>4, <2>5, <2>6 DEF MidActions
  <2>8. acts = <<a>> \o later
    <3>1. \A i \in 1..k + 1 : acts[i] = IF i = 1 THEN a ELSE later[i - 1]
      <4> SUFFICES ASSUME NEW i \in 1..k + 1 PROVE acts[i] = IF i = 1 THEN a ELSE later[i - 1]
        OBVIOUS
      <4>1. CASE i = 1
        BY <2>5, <2>6, <4>1
      <4>2. CASE i # 1
        <5>1. i \in 2..k + 1 /\ i - 1 \in 1..k
          BY <4>2
        <5> QED
          BY <2>5, <2>6, <4>2, <5>1
      <4> QED
        BY <4>1, <4>2
    <3>2. later \in Seq({nodes[rest[i]].item[2] : i \in 1..k}) /\ Len(later) = k
      <4>1. later \in [1..k -> {nodes[rest[i]].item[2] : i \in 1..k}]
        BY <2>6
      <4> QED
        BY <2>4, <4>1
    <3>3. <<a>> \o later = [i \in 1..k + 1 |-> IF i = 1 THEN a ELSE later[i - 1]]
      BY <3>2
    <3>4. acts = [i \in 1..k + 1 |-> acts[i]]
      BY <2>6
    <3> QED
      BY <3>1, <3>3, <3>4
  <2> QED
    BY <1>1, <1>4, <2>1, <2>6, <2>7, <2>8
<1> QED
  BY <1>1, <1>3, <1>4

(* The next place of the plan executed one node per time step.             *)
NextAt(nodes, at) ==
  IF IsSensing(nodes, at[1])
  THEN <<IF observe(nodes, at[1]) \in at[2] THEN nodes[at[1]].true_node
         ELSE nodes[at[1]].false_node, at[2], at[3] + 1>>
  ELSE <<nodes[at[1]].true_node,
         apply_actuation_action(at[2], nodes[at[1]].item[2]), at[3] + 1>>

(* run is the plan executed one node per time step, from any place.        *)
Runs(run, nodes) ==
  \A at \in (DOMAIN nodes \union {nullptr}) \X (SUBSET Positive) \X Nat :
    run[at] = IF at[1] = nullptr THEN [facts |-> at[2], steps |-> at[3]]
              ELSE run[NextAt(nodes, at)]

(* The contingent plan can be executed from each of its nodes.             *)
LEMMA SequentialIs ==
  ASSUME plan \in Plans
  PROVE  \E run : /\ Runs(run, plan.nodes)
                  /\ \A n, w, k : SequentialFrom(n, w, k) = run[<<n, w, k>>]
<1>1. PICK nodes : nodes = plan.nodes
  OBVIOUS
<1>2. IsPlanTree(nodes)
  BY <1>1, PlanAssumption
<1>3. PICK A : A = (DOMAIN nodes \union {nullptr}) \X (SUBSET Positive) \X Nat
  OBVIOUS
<1>4. PICK E, step, out : /\ E = {at \in A : at[1] = nullptr}
                          /\ step = [at \in A |-> NextAt(nodes, at)]
                          /\ out = [at \in A |-> [facts |-> at[2], steps |-> at[3]]]
  OBVIOUS
<1>5. ASSUME NEW at \in A, at \notin E
      PROVE  step[at] \in A
  <2>1. at[1] \in DOMAIN nodes /\ at[2] \in SUBSET Positive /\ at[3] + 1 \in Nat
    BY <1>3, <1>4, <1>5
  <2>2. /\ nodes[at[1]].true_node \in DOMAIN nodes \union {nullptr}
        /\ nodes[at[1]].false_node \in DOMAIN nodes \union {nullptr}
    BY <1>2, <2>1 DEF IsPlanTree
  <2>3. apply_actuation_action(at[2], nodes[at[1]].item[2]) \in SUBSET Positive
    BY <2>1 DEF apply_actuation_action
  <2>4. NextAt(nodes, at) \in A
    BY <1>3, <2>1, <2>2, <2>3 DEF NextAt
  <2> QED
    BY <1>4, <2>4
<1>6. PICK f : IsLoop(f, A, E, step, out)
  <2>1. \A at \in A : at \in E \/ step[at] \in A
    BY <1>5
  <2> QED
    BY <2>1, LoopExists
<1> DEFINE IsRunOf(run) ==
      run = [at \in (DOMAIN nodes \union {nullptr}) \X (SUBSET Positive) \X Nat |->
               IF at[1] = nullptr THEN [facts |-> at[2], steps |-> at[3]]
               ELSE IF IsSensing(nodes, at[1])
               THEN run[<<IF observe(nodes, at[1]) \in at[2] THEN nodes[at[1]].true_node
                          ELSE nodes[at[1]].false_node, at[2], at[3] + 1>>]
               ELSE run[<<nodes[at[1]].true_node,
                          apply_actuation_action(at[2], nodes[at[1]].item[2]), at[3] + 1>>]]
<1>7. ASSUME NEW run, IsRunOf(run)
      PROVE  Runs(run, nodes)
  BY <1>7 DEF Runs, NextAt
<1>8. IsRunOf(f)
  <2>1. \A at \in A : f[at] = IF at[1] = nullptr THEN [facts |-> at[2], steps |-> at[3]]
                              ELSE f[NextAt(nodes, at)]
    BY <1>4, <1>6 DEF IsLoop
  <2>2. f = [at \in A |-> f[at]]
    BY <1>6 DEF IsLoop
  <2> QED
    BY <1>3, <2>1, <2>2 DEF NextAt
<1>9. PICK run : run = CHOOSE r : IsRunOf(r)
  OBVIOUS
<1>10. IsRunOf(run)
  BY <1>8, <1>9
<1>11. Runs(run, nodes)
  BY <1>7, <1>10
<1>12. \A n, w, k : SequentialFrom(n, w, k) = run[<<n, w, k>>]
  BY <1>1, <1>9, ZenonT(30) DEF SequentialFrom
<1> QED
  BY <1>1, <1>11, <1>12

(* One node further on, by kind of the node.                               *)
GoesOn(n, w, k) ==
  /\ n = nullptr => SequentialFrom(n, w, k) = [facts |-> w, steps |-> k]
  /\ n # nullptr /\ IsSensing(plan.nodes, n) =>
       SequentialFrom(n, w, k)
         = SequentialFrom(IF observe(plan.nodes, n) \in w THEN plan.nodes[n].true_node
                          ELSE plan.nodes[n].false_node, w, k + 1)
  /\ n # nullptr /\ ~IsSensing(plan.nodes, n) =>
       SequentialFrom(n, w, k)
         = SequentialFrom(plan.nodes[n].true_node,
                          apply_actuation_action(w, plan.nodes[n].item[2]), k + 1)

(* The contingent plan ends at nullptr, and else goes on from the next node*)
(* after one time step.                                                    *)
LEMMA SequentialStep ==
  ASSUME plan \in Plans, NEW n \in Ends, NEW w \in SUBSET Positive, NEW k \in Nat
  PROVE  GoesOn(n, w, k)
<1>1. PICK nodes : nodes = plan.nodes
  OBVIOUS
<1>2. PICK run : Runs(run, nodes) /\ \A m, u, j : SequentialFrom(m, u, j) = run[<<m, u, j>>]
  BY <1>1, SequentialIs
<1>3. PICK at : at = <<n, w, k>>
  OBVIOUS
<1>4. at \in (DOMAIN nodes \union {nullptr}) \X (SUBSET Positive) \X Nat
  BY <1>1, <1>3 DEF Ends
<1>5. run[at] = IF at[1] = nullptr THEN [facts |-> at[2], steps |-> at[3]]
                ELSE run[NextAt(nodes, at)]
  BY <1>2, <1>4 DEF Runs
<1>6. at[1] = n /\ at[2] = w /\ at[3] = k
  BY <1>3
<1>7. SequentialFrom(n, w, k) = run[at]
  BY <1>2, <1>3
<1>8. ASSUME n = nullptr
      PROVE  SequentialFrom(n, w, k) = [facts |-> w, steps |-> k]
  BY <1>5, <1>6, <1>7, <1>8
<1>9. ASSUME n # nullptr
      PROVE  SequentialFrom(n, w, k) = run[NextAt(nodes, at)]
  BY <1>5, <1>6, <1>7, <1>9
<1>10. ASSUME n # nullptr, IsSensing(nodes, n)
       PROVE  SequentialFrom(n, w, k)
                = SequentialFrom(IF observe(nodes, n) \in w THEN nodes[n].true_node
                                 ELSE nodes[n].false_node, w, k + 1)
  <2>1. PICK m : m = IF observe(nodes, n) \in w THEN nodes[n].true_node ELSE nodes[n].false_node
    OBVIOUS
  <2>2. NextAt(nodes, at) = <<m, w, k + 1>>
    BY <1>6, <1>10, <2>1 DEF NextAt
  <2>3. SequentialFrom(m, w, k + 1) = run[<<m, w, k + 1>>]
    BY <1>2
  <2> QED
    BY <1>9, <1>10, <2>1, <2>2, <2>3
<1>11. ASSUME n # nullptr, ~IsSensing(nodes, n)
       PROVE  SequentialFrom(n, w, k)
                = SequentialFrom(nodes[n].true_node,
                                 apply_actuation_action(w, nodes[n].item[2]), k + 1)
  <2>1. PICK m, u : m = nodes[n].true_node /\ u = apply_actuation_action(w, nodes[n].item[2])
    OBVIOUS
  <2>2. NextAt(nodes, at) = <<m, u, k + 1>>
    BY <1>6, <1>11, <2>1 DEF NextAt
  <2>3. SequentialFrom(m, u, k + 1) = run[<<m, u, k + 1>>]
    BY <1>2
  <2> QED
    BY <1>9, <1>11, <2>1, <2>2, <2>3
<1> QED
  BY <1>1, <1>8, <1>10, <1>11, Zenon DEF GoesOn

(* From the state w, the contingent plan comes from node n to where the    *)
(* walk stops, in one time step for each of its actions.                   *)
Comes(n, w, k) ==
  SequentialFrom(n, w, k)
    = SequentialFrom(StopNode(plan.nodes, n), TraversedState(w, MidActions(n)), k + Len(MidActions(n)))

(* The contingent plan follows the walk, whatever the state.               *)
LEMMA SequentialWalks ==
  ASSUME plan \in Plans, NEW n \in Ends, NEW w \in SUBSET Positive, NEW k \in Nat
  PROVE  Comes(n, w, k)
<1>1. PICK nodes : nodes = plan.nodes
  OBVIOUS
<1>2. IsPlanTree(nodes) /\ Ends = DOMAIN nodes \union {nullptr}
  BY <1>1, PlanAssumption DEF Ends
<1> DEFINE T == {m \in Ends : \A u \in SUBSET Positive : \A j \in Nat : Comes(m, u, j)}
<1>3. ASSUME NEW m \in Ends, Stops(nodes, m)
      PROVE  m \in T
  <2> SUFFICES ASSUME NEW u \in SUBSET Positive, NEW j \in Nat PROVE Comes(m, u, j)
    OBVIOUS
  <2>1. MidActions(m) = <<>>
    BY <1>1, <1>3, MidActionsAre
  <2>2. StopNode(nodes, m) = m
    BY <1>2, <1>3, StopNodeIs
  <2>3. TraversedState(u, MidActions(m)) = u
    BY <2>1, TraversedNone
  <2>4. j + Len(MidActions(m)) = j
    BY <2>1
  <2> QED
    BY <1>1, <2>2, <2>3, <2>4 DEF Comes
<1>4. nullptr \in T
  BY <1>2, <1>3 DEF Stops
<1>5. ASSUME NEW m \in DOMAIN nodes, nodes[m].true_node \in T, ~Stops(nodes, m)
      PROVE  m \in T
  <2> SUFFICES ASSUME NEW u \in SUBSET Positive, NEW j \in Nat PROVE Comes(m, u, j)
    BY <1>2
  <2>1. m \in Ends /\ m # nullptr /\ ~IsSensing(nodes, m)
    BY <1>2, <1>5 DEF Stops
  <2>2. PICK next, a, later : /\ next = nodes[m].true_node /\ a = nodes[m].item[2]
                              /\ later = MidActions(next)
    OBVIOUS
  <2>3. MidActions(m) = <<a>> \o later /\ a \in ActionNames /\ next \in Ends
    BY <1>1, <1>5, <2>1, <2>2, MidActionsAre
  <2>4. later \in Seq(ActionNames)
    BY <2>2, <2>3, WalkIs DEF Ends
  <2>5. PICK v : v = apply_actuation_action(u, a)
    OBVIOUS
  <2>6. v \in SUBSET Positive
    BY <2>5 DEF apply_actuation_action
  <2>7. SequentialFrom(m, u, j) = SequentialFrom(next, v, j + 1)
    <3>1. GoesOn(m, u, j)
      BY <2>1, SequentialStep
    <3> QED
      BY <1>1, <2>1, <2>2, <2>5, <3>1 DEF GoesOn
  <2>8. SequentialFrom(next, v, j + 1)
          = SequentialFrom(StopNode(nodes, next), TraversedState(v, later), (j + 1) + Len(later))
    <3>1. Comes(next, v, j + 1)
      BY <1>5, <2>2, <2>6
    <3> QED
      BY <1>1, <2>2, <3>1, Zenon DEF Comes
  <2>9. StopNode(nodes, m) = StopNode(nodes, next)
    BY <1>2, <1>5, <2>1, <2>2, StopNodeIs
  <2>10. TraversedState(u, MidActions(m)) = TraversedState(v, later)
    BY <2>3, <2>4, <2>5, TraversedFirst
  <2>11. (j + 1) + Len(later) = j + Len(MidActions(m))
    BY <2>3, <2>4
  <2> QED
    BY <1>1, <2>7, <2>8, <2>9, <2>10, <2>11 DEF Comes
<1> HIDE DEF T
<1>6. \A m \in DOMAIN nodes \union {nullptr} : m \in T
  <2>1. \A m \in DOMAIN nodes : nodes[m].true_node \in T /\ nodes[m].false_node \in T => m \in T
    BY <1>2, <1>3, <1>5
  <2> QED
    BY <1>2, <1>4, <2>1, TreeInduction
<1> QED
  BY <1>2, <1>6 DEF T
------------------------------------------------------------------------------
(* An activation as it is called.                                          *)
LEMMA FrameIs ==
  ASSUME plan \in Plans, NEW at \in Seq(BOOLEAN), NEW e, Contents(e),
         NEW n \in DOMAIN plan.nodes \union {nullptr}, NEW t0 \in Nat
  PROVE  /\ IsFrame(Frame(at, e, n, t0))
         /\ Frame(at, e, n, t0).path = at /\ Frame(at, e, n, t0).t0 = t0
         /\ Frame(at, e, n, t0).init_state = e /\ Frame(at, e, n, t0).pc = "compute"
<1>1. PICK f, known, acts, node :
        /\ f = Frame(at, e, n, t0) /\ known = TraversedState(e.predicates, MidActions(n))
        /\ acts = MidActions(n) /\ node = StopNode(plan.nodes, n)
  OBVIOUS
<1>2. PICK goal : goal = [predicates |-> known, unknowns |-> e.unknowns, oneofs |-> e.oneofs]
  OBVIOUS
<1>3. GoalState(e, n) = goal
  <2>1. e = [predicates |-> e.predicates, unknowns |-> e.unknowns, oneofs |-> e.oneofs]
    BY DEF Contents
  <2>2. GoalState(e, n) = [e EXCEPT !.predicates = known]
    BY <1>1 DEF GoalState
  <2> QED
    BY <1>2, <2>1, <2>2
<1>4. f = [path |-> at, init_state |-> e, goal_state |-> goal, actions |-> acts,
           node |-> node, t0 |-> t0, pc |-> "compute"]
  BY <1>1, <1>3 DEF Frame
<1>5. acts \in Seq(ActionNames) /\ node \in DOMAIN plan.nodes \union {nullptr}
  BY <1>1, WalkIs
<1>6. IsCall(t0, e, goal, node)
  BY <1>2, <1>5 DEF IsCall
<1>7. IsFrame(f)
  BY <1>4, <1>5, <1>6 DEF IsFrame
<1> QED
  BY <1>1, <1>4, <1>7

(* An activation that goes on to another place of build_cocg_subgraph.     *)
At(f, pc) ==
  [path |-> f.path, init_state |-> f.init_state, goal_state |-> f.goal_state,
   actions |-> f.actions, node |-> f.node, t0 |-> f.t0, pc |-> pc]

(* Moving a frame to another place of build_cocg_subgraph keeps the rest of*)
(* it.                                                                     *)
LEMMA AtIs ==
  ASSUME NEW f, IsFrame(f), NEW pc \in {"compute", "true", "false", "return"},
         pc \in {"true", "false"} => f.node # nullptr
  PROVE  /\ IsFrame(At(f, pc)) /\ At(f, pc) = [f EXCEPT !.pc = pc]
         /\ At(f, pc).path = f.path /\ At(f, pc).pc = pc /\ At(f, pc).node = f.node
         /\ At(f, pc).t0 = f.t0 /\ At(f, pc).goal_state = f.goal_state
<1>1. PICK g : g = At(f, pc)
  OBVIOUS
<1>2. /\ g.path = f.path /\ g.init_state = f.init_state /\ g.goal_state = f.goal_state
      /\ g.actions = f.actions /\ g.node = f.node /\ g.t0 = f.t0 /\ g.pc = pc
  BY <1>1 DEF At
<1>3. g = [path |-> g.path, init_state |-> g.init_state, goal_state |-> g.goal_state,
           actions |-> g.actions, node |-> g.node, t0 |-> g.t0, pc |-> g.pc]
  BY <1>1, <1>2 DEF At
<1>4. IsFrame(g)
  BY <1>2, <1>3 DEF IsFrame
<1>5. g = [f EXCEPT !.pc = pc]
  <2>1. f = [path |-> f.path, init_state |-> f.init_state, goal_state |-> f.goal_state,
             actions |-> f.actions, node |-> f.node, t0 |-> f.t0, pc |-> f.pc]
    BY DEF IsFrame
  <2> QED
    BY <1>1, <2>1 DEF At
<1> QED
  BY <1>1, <1>2, <1>4, <1>5

(* A sequence has its elements for elements.                               *)
LEMMA SeqOfItsRange ==
  ASSUME NEW A, NEW t \in Seq(A)
  PROVE  t \in Seq(Range(t))
<1>1. PICK n \in Nat : n = Len(t) /\ DOMAIN t = 1..n
  OBVIOUS
<1>2. PICK R : R = Range(t)
  OBVIOUS
<1>3. \A i \in 1..n : t[i] \in R
  BY <1>1, <1>2 DEF Range
<1>4. t = [i \in 1..n |-> t[i]]
  BY <1>1
<1>5. t \in [1..n -> R]
  BY <1>3, <1>4
<1> QED
  BY <1>2, <1>5

(* A call: the last activation goes on to pc and another one is on top.    *)
LEMMA Pushed ==
  ASSUME NEW s, s \in Seq(Range(s)), s # <<>>, NEW f, NEW x,
         NEW t, t = Append([s EXCEPT ![Len(s)] = f], x)
  PROVE  /\ t \in Seq(Range(t)) /\ Len(s) \in Nat \ {0} /\ Len(t) = Len(s) + 1
         /\ \A i \in 1..Len(s) - 1 : t[i] = s[i]
         /\ t[Len(s)] = f /\ t[Len(s) + 1] = x
<1>1. PICK n \in Nat \ {0} : n = Len(s)
  OBVIOUS
<1>2. PICK A : A = Range(s) \union {f, x}
  OBVIOUS
<1>3. PICK u : u = [s EXCEPT ![n] = f]
  OBVIOUS
<1>4. s \in Seq(A) /\ f \in A /\ x \in A
  BY <1>2
<1>5. u \in Seq(A) /\ Len(u) = n /\ u[n] = f /\ \A i \in 1..n - 1 : u[i] = s[i]
  BY <1>1, <1>3, <1>4
<1>6. t \in Seq(A) /\ Len(t) = n + 1 /\ t[n + 1] = x /\ \A i \in 1..n : t[i] = u[i]
  BY <1>1, <1>3, <1>4, <1>5
<1>7. t \in Seq(Range(t))
  BY <1>6, SeqOfItsRange
<1> QED
  BY <1>1, <1>5, <1>6, <1>7

(* t is s with another last activation.                                    *)
Replaces(t, s, f) == t = [s EXCEPT ![Len(s)] = f]

(* The last activation goes on to another place.                           *)
LEMMA Replaced ==
  ASSUME NEW s, s \in Seq(Range(s)), s # <<>>, NEW f,
         NEW t, Replaces(t, s, f)
  PROVE  /\ t \in Seq(Range(t)) /\ Len(s) \in Nat \ {0} /\ Len(t) = Len(s)
         /\ \A i \in 1..Len(s) - 1 : t[i] = s[i]
         /\ t[Len(s)] = f
<1>1. PICK n \in Nat \ {0} : n = Len(s)
  OBVIOUS
<1>2. PICK A : A = Range(s) \union {f}
  OBVIOUS
<1>3. t \in Seq(A) /\ Len(t) = n /\ t[n] = f /\ \A i \in 1..n - 1 : t[i] = s[i]
  BY <1>1, <1>2 DEF Replaces
<1>4. t \in Seq(Range(t))
  BY <1>3, SeqOfItsRange
<1> QED
  BY <1>1, <1>3, <1>4

(* The last activation returns.                                            *)
LEMMA Popped ==
  ASSUME NEW s, s \in Seq(Range(s)), s # <<>>,
         NEW t, t = SubSeq(s, 1, Len(s) - 1)
  PROVE  /\ t \in Seq(Range(t)) /\ Len(s) \in Nat \ {0} /\ Len(t) = Len(s) - 1
         /\ \A i \in 1..Len(s) - 1 : t[i] = s[i]
<1>1. PICK n \in Nat \ {0} : n = Len(s)
  OBVIOUS
<1>2. t \in Seq(Range(s)) /\ Len(t) = n - 1 /\ \A i \in 1..n - 1 : t[i] = s[i]
  BY <1>1
<1>3. t \in Seq(Range(t))
  BY <1>2, SeqOfItsRange
<1> QED
  BY <1>1, <1>2, <1>3
------------------------------------------------------------------------------
(* The last activation, and going on to another place in it.               *)
LEMMA TopIs ==
  ASSUME FramesInv, Building
  PROVE  /\ Len(frames) \in Nat \ {0}
         /\ IsFrame(top) /\ Len(top.path) = Len(frames) - 1 /\ Recorded(top) /\ NotYet(top)
         /\ \A pc : SetPc(pc) = [frames EXCEPT ![Len(frames)] = [top EXCEPT !.pc = pc]]
<1>1. PICK n \in Nat \ {0} : n = Len(frames)
  BY DEF FramesInv, Building
<1>2. /\ IsFrame(top) /\ Len(top.path) = n - 1 /\ Recorded(top) /\ NotYet(top)
  BY <1>1 DEF FramesInv, top
<1>3. \A pc : SetPc(pc) = [frames EXCEPT ![n] = [top EXCEPT !.pc = pc]]
  BY <1>1 DEF SetPc, top
<1> QED
  BY <1>1, <1>2, <1>3

(* The subgraphs built so far are not touched.                             *)
Extends == /\ plan' = plan
           /\ DOMAIN subgraph \subseteq DOMAIN subgraph'
           /\ \A q \in DOMAIN subgraph : subgraph'[q] = subgraph[q]

(* A subgraph is entered the same way after more of them have been recorded.*)
LEMMA EnteredStays ==
  ASSUME Extends, NEW p, NEW t0, NEW init, EnteredAs(p, t0, init)
  PROVE  EnteredAs(p, t0, init)'
<1>1. CASE p = root /\ t0 = 0 /\ init = plan.expert
  BY <1>1 DEF EnteredAs, Extends
<1>2. CASE \E q \in DOMAIN subgraph, value \in BOOLEAN :
             p = Append(q, value) /\ Follows(subgraph[q], value, t0, init)
  <2>1. PICK q \in DOMAIN subgraph, value \in BOOLEAN :
             p = Append(q, value) /\ Follows(subgraph[q], value, t0, init)
    BY <1>2
  <2>2. q \in DOMAIN subgraph' /\ subgraph'[q] = subgraph[q]
    BY DEF Extends
  <2>3. Follows(subgraph[q], value, t0, init)'
    BY <2>1, <2>2 DEF Follows, Extends, observe
  <2> QED
    BY <2>1, <2>2, <2>3 DEF EnteredAs
<1> QED
  BY <1>1, <1>2 DEF EnteredAs

(* What is recorded stays right when more is recorded.                     *)
LEMMA SubgraphStays ==
  ASSUME Extends, NEW p, NEW r, IsSubgraph(p, r)
  PROVE  IsSubgraph(p, r)'
<1>1. EnteredAs(p, r.t0, r.init)'
  BY EnteredStays DEF IsSubgraph
<1>2. IsCall(r.t0, r.init, r.goal, r.node)'
  BY DEF IsSubgraph, IsCall, Extends
<1> QED
  BY <1>1, <1>2 DEF IsSubgraph

(* An open call stays right when a subgraph is recorded.                   *)
LEMMA FrameStays ==
  ASSUME Extends, NEW f, IsFrame(f)
  PROVE  IsFrame(f)'
<1>1. IsCall(f.t0, f.init_state, f.goal_state, f.node)'
  BY DEF IsFrame, IsCall, Extends
<1> QED
  BY <1>1 DEF IsFrame

(* What ComputeLayers records.                                             *)
LEMMA ComputedIs ==
  ASSUME plan \in Plans, FramesInv, ComputeLayers
  PROVE  \E r : /\ DOMAIN subgraph' = DOMAIN subgraph \union {top.path}
                /\ subgraph'[top.path] = r /\ Extends
                /\ r.t0 = top.t0 /\ r.init = top.init_state
                /\ r.goal = top.goal_state /\ r.node = top.node
                /\ \A p : p = top.path => IsSubgraph(p, r)'
<1>1. PICK f, n : f = top /\ n = Len(frames)
  OBVIOUS
<1>2. /\ n \in Nat \ {0} /\ IsFrame(f) /\ Recorded(f) /\ f.pc = "compute" /\ plan' = plan
  BY <1>1, TopIs DEF ComputeLayers
<1>3. f.path \notin DOMAIN subgraph /\ EnteredAs(f.path, f.t0, f.init_state)
  BY <1>2 DEF Recorded
<1>4. PICK ls \in SegmentLayers(f.init_state.predicates, f.actions, f.goal_state.predicates) :
        subgraph' = [p \in DOMAIN subgraph \union {f.path} |->
                      IF p = f.path
                      THEN [t0 |-> f.t0, actions_layers |-> ls, node |-> f.node,
                            init |-> f.init_state, goal |-> f.goal_state]
                      ELSE subgraph[p]]
  BY <1>1 DEF ComputeLayers
<1>5. PICK r : r = [t0 |-> f.t0, actions_layers |-> ls, node |-> f.node,
                    init |-> f.init_state, goal |-> f.goal_state]
  OBVIOUS
<1>6. /\ r.t0 = f.t0 /\ r.init = f.init_state /\ r.goal = f.goal_state
      /\ r.node = f.node /\ r.actions_layers = ls
  BY <1>5
<1>7. /\ DOMAIN subgraph' = DOMAIN subgraph \union {f.path}
      /\ subgraph'[f.path] = r
      /\ \A q \in DOMAIN subgraph : subgraph'[q] = subgraph[q]
  BY <1>3, <1>4, <1>5
<1>8. Extends
  BY <1>2, <1>7 DEF Extends
<1>9. PICK before, goals, acts :
        before = f.init_state.predicates /\ goals = f.goal_state.predicates /\ acts = f.actions
  OBVIOUS
<1>10. acts \in Seq(ActionNames) /\ Len(acts) \in Nat /\ Range(acts) \subseteq ActionNames
  <2>1. acts \in Seq(ActionNames)
    BY <1>2, <1>9 DEF IsFrame
  <2> QED
    BY <2>1 DEF Range
<1>11. /\ Len(ls) \in Nat
       /\ ls = NoLayers \/ ValidLayers(before, goals, ls)
  <2>1. CASE ls = NoLayers
    BY <2>1 DEF NoLayers
  <2>2. CASE ls # NoLayers
    <3>1. Performable(ls, before, acts) /\ goals \subseteq StatesAlong(before, ls)[Len(ls)]
      BY <1>4, <1>9, <1>10, <2>2, SegmentLayersExact
    <3>2. \A k \in 1..Len(ls) : ls[k] \in Startable(ActionNames, StatesAlong(before, ls)[k - 1])
      BY <1>10, <3>1 DEF Performable, Startable
    <3>3. Len(ls) \in Nat
      BY <3>1 DEF Performable
    <3> QED
      BY <3>1, <3>2, <3>3 DEF ValidLayers
  <2> QED
    BY <2>1, <2>2
<1>12. IsSubgraph(f.path, r)
  <2>1. f.path \in Seq(BOOLEAN) /\ IsCall(r.t0, r.init, r.goal, r.node)
    BY <1>2, <1>6 DEF IsFrame
  <2> QED
    BY <1>3, <1>6, <1>9, <1>11, <2>1 DEF IsSubgraph
<1>13. IsSubgraph(f.path, r)'
  BY <1>8, <1>12, SubgraphStays
<1>14. ASSUME NEW p, p = top.path
       PROVE  IsSubgraph(p, r)'
  BY <1>1, <1>13, <1>14
<1>15. /\ DOMAIN subgraph' = DOMAIN subgraph \union {top.path}
       /\ subgraph'[top.path] = r
       /\ r.t0 = top.t0 /\ r.init = top.init_state
       /\ r.goal = top.goal_state /\ r.node = top.node
  BY <1>1, <1>6, <1>7
<1> QED
  BY <1>8, <1>14, <1>15, Zenon
------------------------------------------------------------------------------
(* Paths: what an outcome adds can be told from the path.                  *)
LEMMA AppendTells ==
  ASSUME NEW S, NEW p \in Seq(S), NEW q \in Seq(S), NEW v \in S, NEW w \in S
  PROVE  /\ Append(p, v) \in Seq(S) /\ Len(Append(p, v)) = Len(p) + 1
         /\ Append(p, v) # <<>> /\ Append(p, v) # p
         /\ Append(p, v) = Append(q, w) => p = q /\ v = w
<1>1. PICK n, m \in Nat : n = Len(p) /\ DOMAIN p = 1..n /\ m = Len(q) /\ DOMAIN q = 1..m
  OBVIOUS
<1>2. PICK a, b : a = Append(p, v) /\ b = Append(q, w)
  OBVIOUS
<1>3. /\ a \in Seq(S) /\ Len(a) = n + 1 /\ a[n + 1] = v /\ \A i \in 1..n : a[i] = p[i]
      /\ b \in Seq(S) /\ Len(b) = m + 1 /\ b[m + 1] = w /\ \A i \in 1..m : b[i] = q[i]
  BY <1>1, <1>2
<1>4. ASSUME a = b
      PROVE  p = q /\ v = w
  <2>1. n = m /\ v = w /\ \A i \in 1..n : p[i] = q[i]
    BY <1>3, <1>4
  <2>2. p = [i \in 1..n |-> p[i]] /\ q = [i \in 1..n |-> q[i]]
    <3>1. n = m
      BY <2>1
    <3>2. DOMAIN p = 1..n /\ DOMAIN q = 1..n
      BY <1>1, <3>1, Zenon
    <3> QED
      BY <3>2
  <2>3. p = q
    BY <2>1, <2>2
  <2> QED
    BY <2>1, <2>3, Zenon
<1>5. a # <<>> /\ a # p
  BY <1>1, <1>3
<1> QED
  BY <1>1, <1>2, <1>3, <1>4, <1>5

(* A branch is one longer than the subgraph it leaves, and another one.    *)
LEMMA PathGrows ==
  ASSUME NEW p \in Seq(BOOLEAN), NEW v \in BOOLEAN
  PROVE  /\ Append(p, v) \in Seq(BOOLEAN) /\ Len(Append(p, v)) = Len(p) + 1
         /\ Append(p, v) # root /\ Append(p, v) # p
  BY AppendTells DEF root

(* A path tells which subgraph it branches off and by which outcome.       *)
LEMMA PathTells ==
  ASSUME NEW p \in Seq(BOOLEAN), NEW q \in Seq(BOOLEAN), NEW v \in BOOLEAN, NEW w \in BOOLEAN,
         Append(p, v) = Append(q, w)
  PROVE  p = q /\ v = w
<1> DEFINE S == BOOLEAN
<1>1. PICK a, b : a = v /\ b = w
  OBVIOUS
<1>2. p \in Seq(S) /\ q \in Seq(S) /\ a \in S /\ b \in S
  BY <1>1
<1> HIDE DEF S
<1>3. Append(p, a) = Append(q, b) => p = q /\ a = b
  BY <1>2, AppendTells
<1> QED
  BY <1>1, <1>3, Zenon

(* The two branches of a subgraph are different.                           *)
LEMMA OutcomesDiffer ==
  ASSUME NEW p \in Seq(BOOLEAN)
  PROVE  Append(p, TRUE) # Append(p, FALSE)
<1>1. PICK v \in BOOLEAN, w \in BOOLEAN : v /\ ~w
  OBVIOUS
<1>2. Append(p, v) # Append(p, w)
  BY <1>1, PathTells, Zenon
<1>3. v = TRUE /\ w = FALSE
  BY <1>1
<1> QED
  BY <1>2, <1>3, Zenon

(* A subgraph that is not built has none below it.                         *)
LEMMA NoneBelow ==
  ASSUME SubgraphsInv, NEW p \in Seq(BOOLEAN), p \notin DOMAIN subgraph, NEW v \in BOOLEAN
  PROVE  Append(p, v) \notin DOMAIN subgraph
<1> SUFFICES ASSUME Append(p, v) \in DOMAIN subgraph PROVE FALSE
  OBVIOUS
<1>1. PICK x \in DOMAIN subgraph : x = Append(p, v)
  OBVIOUS
<1>2. EnteredAs(x, subgraph[x].t0, subgraph[x].init)
  BY DEF SubgraphsInv, IsSubgraph
<1>3. x # root
  BY <1>1, PathGrows
<1>4. PICK q \in DOMAIN subgraph, w \in BOOLEAN : x = Append(q, w)
  BY <1>2, <1>3 DEF EnteredAs
<1>5. q \in Seq(BOOLEAN)
  BY DEF SubgraphsInv, IsSubgraph
<1>6. Append(p, v) = Append(q, w)
  BY <1>1, <1>4, Zenon
<1>7. p = q
  BY <1>5, <1>6, PathTells, Zenon
<1> QED
  BY <1>7
------------------------------------------------------------------------------
(* What the activations below the last one wait for.                       *)
LEMMA CallerIs ==
  ASSUME FramesInv, NEW i \in 1..Len(frames) - 1
  PROVE  /\ i \in 1..Len(frames) /\ i + 1 \in 1..Len(frames)
         /\ Calls(frames[i], frames[i + 1]) /\ frames[i].pc \in {"false", "return"}
         /\ frames[i].path \in DOMAIN subgraph
<1>1. Len(frames) \in Nat
  BY DEF FramesInv
<1>2. i \in 1..Len(frames) /\ i + 1 \in 1..Len(frames)
  BY <1>1
<1>3. Calls(frames[i], frames[i + 1])
  BY DEF FramesInv
<1>4. frames[i].pc \in {"false", "return"}
  BY <1>3 DEF Calls
<1>5. Recorded(frames[i])
  BY <1>2 DEF FramesInv
<1>6. frames[i].path \in DOMAIN subgraph
  BY <1>4, <1>5 DEF Recorded
<1> QED
  BY <1>2, <1>3, <1>4, <1>6

(* The other outcome of a caller is not the subgraph of the last           *)
(* activation.                                                             *)
LEMMA OtherOutcome ==
  ASSUME FramesInv, Building, NEW i \in 1..Len(frames) - 1, frames[i].pc = "false"
  PROVE  Append(frames[i].path, FALSE) # top.path
<1>1. PICK n \in Nat : n = Len(frames)
  BY DEF FramesInv
<1>2. PICK f : f = frames[i]
  OBVIOUS
<1>3. /\ IsFrame(f) /\ Len(f.path) = i - 1 /\ Calls(f, frames[i + 1])
      /\ IsFrame(top) /\ Len(top.path) = n - 1 /\ i \in 1..n
  BY <1>1, <1>2, CallerIs, TopIs DEF FramesInv
<1>4. f.path \in Seq(BOOLEAN)
  BY <1>3 DEF IsFrame
<1>5. Len(Append(f.path, FALSE)) = i
  <2>1. Len(Append(f.path, FALSE)) = Len(f.path) + 1
    BY <1>4, PathGrows
  <2> QED
    BY <1>1, <1>3, <2>1
<1>6. CASE i = n - 1
  <2>1. frames[i + 1] = top
    BY <1>1, <1>6 DEF top
  <2>2. top.path = Append(f.path, TRUE)
    BY <1>2, <1>3, <2>1 DEF Calls
  <2> QED
    BY <1>2, <1>4, <2>2, OutcomesDiffer
<1>7. CASE i # n - 1
  BY <1>1, <1>2, <1>3, <1>5, <1>7
<1> QED
  BY <1>6, <1>7

(* ComputeLayers leaves the activations right.                             *)
LEMMA ComputeFrames ==
  ASSUME plan \in Plans, SubgraphsInv, FramesInv, ComputeLayers
  PROVE  /\ FramesInv' /\ Building' /\ Len(frames') = Len(frames)
         /\ \A i \in 1..Len(frames) - 1 : frames'[i] = frames[i]
         /\ frames'[Len(frames)].path = top.path
         /\ top.node # nullptr => frames'[Len(frames)].pc = "true"
<1>1. PICK f, n, s, t : f = top /\ n = Len(frames) /\ s = frames /\ t = frames'
  OBVIOUS
<1>2. /\ n \in Nat \ {0} /\ IsFrame(f) /\ Len(f.path) = n - 1 /\ Recorded(f) /\ f.pc = "compute"
      /\ \A pc : SetPc(pc) = [s EXCEPT ![n] = [f EXCEPT !.pc = pc]]
  BY <1>1, TopIs DEF ComputeLayers
<1>3. PICK r : /\ DOMAIN subgraph' = DOMAIN subgraph \union {f.path}
                /\ subgraph'[f.path] = r /\ Extends
                /\ r.t0 = f.t0 /\ r.goal = f.goal_state /\ r.node = f.node
  BY <1>1, ComputedIs
<1>4. PICK pc : pc = IF f.node = nullptr THEN "return" ELSE "true"
  OBVIOUS
<1>5. PICK g : g = At(f, pc)
  OBVIOUS
<1>6. /\ IsFrame(g) /\ g = [f EXCEPT !.pc = pc] /\ g.path = f.path /\ g.pc = pc
      /\ g.node = f.node /\ g.t0 = f.t0 /\ g.goal_state = f.goal_state
  BY <1>2, <1>4, <1>5, AtIs
<1>7. t = [s EXCEPT ![n] = g]
  BY <1>1, <1>2, <1>4, <1>6 DEF ComputeLayers
<1>8. /\ t \in Seq(Range(t)) /\ Len(t) = n /\ t[n] = g /\ \A i \in 1..n - 1 : t[i] = s[i]
  <2>1. s \in Seq(Range(s)) /\ s # <<>>
    BY <1>1 DEF FramesInv, ComputeLayers, Building
  <2>2. Len(s) = n /\ t = [s EXCEPT ![Len(s)] = g]
    BY <1>1, <1>7
  <2>3. /\ t \in Seq(Range(t)) /\ Len(t) = Len(s)
        /\ \A i \in 1..Len(s) - 1 : t[i] = s[i]
        /\ t[Len(s)] = g
    <3>1. Replaces(t, s, g)
      BY <2>2 DEF Replaces
    <3>2. Len(t) = Len(s)
      BY <2>1, <3>1, Replaced
    <3>3. t[Len(s)] = g
      BY <2>1, <3>1, Replaced
    <3>4. t \in Seq(Range(t))
      BY <2>1, <3>1, Replaced
    <3>5. \A i \in 1..Len(s) - 1 : t[i] = s[i]
      BY <2>1, <3>1, Replaced
    <3> QED
      BY <3>2, <3>3, <3>4, <3>5
  <2> QED
    BY <2>2, <2>3
<1>9. f.path \notin DOMAIN subgraph /\ f.path \in Seq(BOOLEAN)
  BY <1>2 DEF Recorded, IsFrame
<1>10. ASSUME NEW i \in 1..n - 1
       PROVE  /\ IsFrame(t[i])' /\ Len(t[i].path) = i - 1
              /\ Recorded(t[i])' /\ NotYet(t[i])'
  <2>1. PICK h : h = t[i] /\ h = frames[i]
    BY <1>1, <1>8
  <2>2. /\ i \in 1..n /\ h.pc \in {"false", "return"} /\ h.path \in DOMAIN subgraph
    BY <1>1, <2>1, CallerIs
  <2>3. IsFrame(h) /\ Len(h.path) = i - 1 /\ Recorded(h) /\ NotYet(h)
    BY <1>1, <2>1, <2>2 DEF FramesInv
  <2>4. IsFrame(h)'
    BY <1>3, <2>3, FrameStays
  <2>5. Recorded(h)'
    <3>1. h.path \in DOMAIN subgraph' /\ subgraph'[h.path] = subgraph[h.path]
      BY <1>3, <2>2 DEF Extends
    <3> QED
      BY <2>2, <2>3, <3>1 DEF Recorded
  <2>6. NotYet(h)'
    <3>1. CASE h.pc = "false"
      <4>1. Append(h.path, FALSE) # f.path
        BY <1>1, <2>1, <3>1, OtherOutcome DEF ComputeLayers
      <4>2. Append(h.path, FALSE) \notin DOMAIN subgraph'
        BY <1>3, <2>3, <3>1, <4>1 DEF NotYet
      <4> QED
        BY <3>1, <4>2 DEF NotYet
    <3>2. CASE h.pc = "return"
      BY <3>2 DEF NotYet
    <3> QED
      BY <2>2, <3>1, <3>2
  <2> QED
    BY <2>1, <2>3, <2>4, <2>5, <2>6
<1>11. IsFrame(g)' /\ Len(g.path) = n - 1 /\ Recorded(g)' /\ NotYet(g)'
  <2>1. IsFrame(g)'
    BY <1>3, <1>6, FrameStays
  <2>2. Recorded(g)'
    <3>1. g.pc # "compute" /\ g.path \in DOMAIN subgraph' /\ subgraph'[g.path] = r
      BY <1>3, <1>4, <1>6
    <3> QED
      BY <1>3, <1>6, <3>1 DEF Recorded
  <2>3. NotYet(g)'
    <3>1. Append(f.path, TRUE) \notin DOMAIN subgraph /\ Append(f.path, FALSE) \notin DOMAIN subgraph
      BY <1>9, NoneBelow
    <3>2. Append(f.path, TRUE) # f.path /\ Append(f.path, FALSE) # f.path
      BY <1>9, PathGrows
    <3> QED
      BY <1>3, <1>6, <3>1, <3>2 DEF NotYet
  <2> QED
    BY <1>2, <1>6, <2>1, <2>2, <2>3
<1>12. ASSUME NEW i \in 1..n - 1
       PROVE  Calls(t[i], t[i + 1])
  <2>1. Calls(s[i], s[i + 1]) /\ t[i] = s[i]
    BY <1>1, <1>8, <1>12, CallerIs
  <2>2. t[i + 1].path = s[i + 1].path
    <3>1. CASE i + 1 = n
      <4>1. s[i + 1] = f
        BY <1>1, <3>1 DEF top
      <4> QED
        BY <1>6, <1>8, <3>1, <4>1
    <3>2. CASE i + 1 # n
      <4>1. i + 1 \in 1..n - 1
        BY <1>2, <3>2
      <4> QED
        BY <1>8, <4>1
    <3> QED
      BY <3>1, <3>2
  <2> QED
    BY <2>1, <2>2 DEF Calls
<1>13. FramesInv'
  <2>1. \A i \in 1..n : /\ IsFrame(t[i])' /\ Len(t[i].path) = i - 1
                        /\ Recorded(t[i])' /\ NotYet(t[i])'
    <3> SUFFICES ASSUME NEW i \in 1..n
                 PROVE  /\ IsFrame(t[i])' /\ Len(t[i].path) = i - 1
                        /\ Recorded(t[i])' /\ NotYet(t[i])'
      OBVIOUS
    <3>1. CASE i \in 1..n - 1
      BY <1>10, <3>1
    <3>2. CASE i = n
      BY <1>8, <1>11, <3>2
    <3> QED
      BY <1>2, <3>1, <3>2
  <2> QED
    BY <1>1, <1>8, <1>12, <2>1 DEF FramesInv
<1>14. Building'
  BY <1>1, <1>2, <1>8 DEF Building
<1> QED
  BY <1>1, <1>4, <1>6, <1>8, <1>13, <1>14

(* ComputeLayers keeps the invariant.                                      *)
LEMMA ComputeKeeps ==
  ASSUME TreeInv, ComputeLayers
  PROVE  TreeInv'
<1>1. /\ plan \in Plans /\ SubgraphsInv /\ FramesInv /\ CompleteInv /\ ExecInv
      /\ Building /\ top.pc = "compute" /\ UNCHANGED <<plan, execVars>>
  BY DEF TreeInv, ComputeLayers
<1>2. PICK P, n : P = top.path /\ n = Len(frames)
  OBVIOUS
<1>3. PICK r : /\ DOMAIN subgraph' = DOMAIN subgraph \union {P}
                /\ subgraph'[P] = r /\ Extends /\ r.node = top.node
                /\ IsSubgraph(P, r)'
  BY <1>1, <1>2, ComputedIs
<1>4. /\ FramesInv' /\ Building' /\ Len(frames') = n /\ n \in Nat \ {0}
      /\ \A i \in 1..n - 1 : frames'[i] = frames[i]
      /\ frames'[n].path = P
      /\ top.node # nullptr => frames'[n].pc = "true"
  BY <1>1, <1>2, ComputeFrames, TopIs
<1>5. SubgraphsInv'
  <2>1. PICK later : later = subgraph'
    OBVIOUS
  <2>2. ASSUME NEW p \in DOMAIN later
        PROVE  IsSubgraph(p, later[p])'
    <3>1. CASE p = P
      BY <1>3, <2>1, <3>1
    <3>2. CASE p \in DOMAIN subgraph
      <4>1. PICK q : q = subgraph[p]
        OBVIOUS
      <4>2. later[p] = q
        BY <1>3, <2>1, <3>2, <4>1 DEF Extends
      <4>3. IsSubgraph(p, q)
        BY <1>1, <3>2, <4>1 DEF SubgraphsInv
      <4>4. IsSubgraph(p, q)'
        BY <1>3, <4>3, SubgraphStays
      <4> QED
        BY <4>2, <4>4
    <3> QED
      BY <1>3, <2>1, <3>1, <3>2
  <2> QED
    BY <2>1, <2>2 DEF SubgraphsInv
<1>6. CompleteInv'
  <2> SUFFICES ASSUME NEW p \in DOMAIN subgraph', NEW value \in BOOLEAN,
                      subgraph'[p].node # nullptr, Append(p, value) \notin DOMAIN subgraph'
               PROVE  \E i \in 1..Len(frames') : Awaits(frames'[i], p, value)
    BY DEF CompleteInv
  <2>1. n \in 1..Len(frames')
    BY <1>4
  <2>2. CASE p = P
    <3>1. frames'[n].pc = "true"
      BY <1>3, <1>4, <2>2
    <3>2. Awaits(frames'[n], p, value)
      BY <1>4, <2>2, <3>1 DEF Awaits
    <3> QED
      BY <2>1, <3>2
  <2>3. CASE p \in DOMAIN subgraph
    <3>1. subgraph[p].node # nullptr /\ Append(p, value) \notin DOMAIN subgraph
      BY <1>3, <2>3 DEF Extends
    <3>2. PICK i \in 1..n : Awaits(frames[i], p, value)
      BY <1>1, <1>2, <2>3, <3>1 DEF CompleteInv
    <3>3. CASE i = n
      <4>1. frames[i] = top
        BY <1>2, <3>3 DEF top
      <4>2. Append(p, value) = P
        BY <1>1, <1>2, <3>2, <4>1 DEF Awaits
      <4> QED
        BY <1>3, <4>2
    <3>4. CASE i # n
      <4>1. i \in 1..n - 1 /\ i \in 1..Len(frames')
        BY <1>4, <3>4
      <4> QED
        BY <1>4, <3>2, <4>1
    <3> QED
      BY <3>3, <3>4
  <2> QED
    BY <1>3, <2>2, <2>3
<1>7. ExecInv'
  BY <1>1, <1>4 DEF ExecInv, execVars
<1> QED
  BY <1>1, <1>4, <1>5, <1>6, <1>7 DEF TreeInv
------------------------------------------------------------------------------
(* The call for one outcome of a sensing node: the last activation goes on *)
(* to pc, and the new one is entered as its caller's subgraph says.        *)
Outcome(value, pc) ==
  \/ value /\ top.pc = "true" /\ pc = "false"
  \/ ~value /\ top.pc = "false" /\ pc = "return"

(* The call build_cocg_subgraph makes for an outcome: its arguments are in *)
(* order, its subgraph is not built yet, and it is entered as IsSubgraph asks.*)
LEMMA DescendIs ==
  ASSUME plan \in Plans, SubgraphsInv, FramesInv, Building, NEW value \in BOOLEAN, NEW pc, Outcome(value, pc),
         NEW child \in DOMAIN plan.nodes \union {nullptr}
  PROVE  /\ IsFrame(Descend(value, child))
         /\ Descend(value, child).path = Append(top.path, value)
         /\ Descend(value, child).pc = "compute"
         /\ Append(top.path, value) \notin DOMAIN subgraph
         /\ EnteredAs(Append(top.path, value), Descend(value, child).t0, Descend(value, child).init_state)
<1>1. PICK f, P : f = top /\ P = top.path
  OBVIOUS
<1>2. /\ IsFrame(f) /\ Recorded(f) /\ NotYet(f) /\ f.pc \in {"true", "false"}
  BY <1>1, TopIs DEF Outcome
<1>3. PICK r : r = subgraph[P]
  OBVIOUS
<1>4. P \in DOMAIN subgraph /\ r.t0 = f.t0 /\ r.goal = f.goal_state /\ r.node = f.node /\ f.node # nullptr
  BY <1>1, <1>2, <1>3 DEF Recorded, IsFrame
<1>5. IsCall(f.t0, f.init_state, f.goal_state, f.node) /\ P \in Seq(BOOLEAN)
  BY <1>1, <1>2 DEF IsFrame
<1>6. Len(r.actions_layers) \in Nat
  BY <1>3, <1>4 DEF SubgraphsInv, IsSubgraph
<1>7. PICK t0 : t0 = f.t0 + LayersCnt(r.actions_layers)
  OBVIOUS
<1>8. t0 \in Nat
  BY <1>5, <1>6, <1>7 DEF IsCall, LayersCnt
<1>9. Contents(f.goal_state)
  <2>1. PICK goal : goal = f.goal_state
    OBVIOUS
  <2>2. /\ goal = [predicates |-> goal.predicates, unknowns |-> f.init_state.unknowns,
                   oneofs |-> f.init_state.oneofs]
        /\ f.init_state.unknowns \subseteq Positive
    BY <1>5, <2>1 DEF IsCall, Contents
  <2>3. goal.unknowns = f.init_state.unknowns /\ goal.oneofs = f.init_state.oneofs
    BY <2>2
  <2>4. goal = [predicates |-> goal.predicates, unknowns |-> goal.unknowns, oneofs |-> goal.oneofs]
    BY <2>2, <2>3, Zenon
  <2> QED
    BY <2>1, <2>2, <2>3, <2>4 DEF Contents
<1>10. PICK p : p = observe(plan.nodes, f.node)
  OBVIOUS
<1>11. PICK e : e = AfterSensing(f.goal_state, p, value)
  OBVIOUS
<1>12. Contents(e)
  BY <1>9, <1>11, SensingContents
<1>13. PICK at : at = Append(P, value)
  OBVIOUS
<1>14. at \in Seq(BOOLEAN)
  BY <1>5, <1>13, PathGrows
<1>15. PICK x : x = Descend(value, child)
  OBVIOUS
<1>16. x = Frame(at, e, child, t0)
  BY <1>1, <1>3, <1>7, <1>10, <1>11, <1>13, <1>15, Zenon DEF Descend
<1>17. IsFrame(x) /\ x.path = at /\ x.t0 = t0 /\ x.init_state = e /\ x.pc = "compute"
  BY <1>8, <1>12, <1>14, <1>16, FrameIs
<1>18. at \notin DOMAIN subgraph
  <2>1. CASE value
    <3>1. value = TRUE
      BY <2>1
    <3>2. Append(P, TRUE) \notin DOMAIN subgraph
      BY <1>1, <1>2, <2>1 DEF Outcome, NotYet
    <3> QED
      BY <1>13, <3>1, <3>2, Zenon
  <2>2. CASE ~value
    <3>1. value = FALSE
      BY <2>2
    <3>2. Append(P, FALSE) \notin DOMAIN subgraph
      BY <1>1, <1>2, <2>2 DEF Outcome, NotYet
    <3> QED
      BY <1>13, <3>1, <3>2, Zenon
  <2> QED
    BY <2>1, <2>2
<1>19. EnteredAs(at, t0, e)
  <2>1. Follows(r, value, t0, e)
    BY <1>4, <1>7, <1>10, <1>11, Zenon DEF Follows
  <2> QED
    BY <1>3, <1>4, <1>13, <2>1, Zenon DEF EnteredAs
<1>20. EnteredAs(at, x.t0, x.init_state)
  BY <1>17, <1>19
<1> QED
  BY <1>1, <1>13, <1>15, <1>17, <1>18, <1>20, Zenon

(* Where no subgraph is recorded, what was so of the tree stays so.        *)
LEMMA SameTree ==
  ASSUME plan' = plan, subgraph' = subgraph
  PROVE  /\ SubgraphsInv => SubgraphsInv'
         /\ \A h : (IsFrame(h) => IsFrame(h)') /\ (Recorded(h) => Recorded(h)') /\ (NotYet(h) => NotYet(h)')
<1>1. Extends
  BY DEF Extends
<1>2. ASSUME NEW h
      PROVE  (IsFrame(h) => IsFrame(h)') /\ (Recorded(h) => Recorded(h)') /\ (NotYet(h) => NotYet(h)')
  <2>1. IsFrame(h) => IsFrame(h)'
    BY <1>1, FrameStays
  <2>2. Recorded(h) => Recorded(h)'
    <3>1. EnteredAs(h.path, h.t0, h.init_state) => EnteredAs(h.path, h.t0, h.init_state)'
      BY <1>1, EnteredStays
    <3> QED
      BY <3>1 DEF Recorded
  <2>3. NotYet(h) => NotYet(h)'
    BY DEF NotYet
  <2> QED
    BY <2>1, <2>2, <2>3
<1>3. ASSUME SubgraphsInv
      PROVE  SubgraphsInv'
  <2>1. ASSUME NEW p \in DOMAIN subgraph
        PROVE  IsSubgraph(p, subgraph[p])'
    <3>1. PICK q : q = subgraph[p]
      OBVIOUS
    <3>2. IsSubgraph(p, q)
      BY <1>3, <3>1 DEF SubgraphsInv
    <3>3. IsSubgraph(p, q)'
      BY <1>1, <3>2, SubgraphStays
    <3> QED
      BY <3>1, <3>3
  <2> QED
    BY <2>1 DEF SubgraphsInv
<1> QED
  BY <1>2, <1>3

(* The call keeps the invariant.                                           *)
LEMMA DescendKeeps ==
  ASSUME TreeInv, Building, NEW value \in BOOLEAN, NEW pc, Outcome(value, pc),
         NEW child \in DOMAIN plan.nodes \union {nullptr},
         frames' = Append(SetPc(pc), Descend(value, child)),
         UNCHANGED <<plan, subgraph, execVars>>
  PROVE  TreeInv'
<1>1. /\ plan \in Plans /\ SubgraphsInv /\ FramesInv /\ CompleteInv /\ ExecInv
      /\ plan' = plan /\ subgraph' = subgraph
  BY DEF TreeInv
<1>2. PICK f, P, n, s, t, x :
        /\ f = top /\ P = top.path /\ n = Len(frames) /\ s = frames /\ t = frames'
        /\ x = Descend(value, child)
  OBVIOUS
<1>3. /\ IsFrame(x) /\ x.path = Append(P, value) /\ x.pc = "compute"
      /\ Append(P, value) \notin DOMAIN subgraph
      /\ EnteredAs(Append(P, value), x.t0, x.init_state)
  BY <1>1, <1>2, DescendIs
<1>4. /\ n \in Nat \ {0} /\ IsFrame(f) /\ Len(P) = n - 1 /\ Recorded(f) /\ NotYet(f)
      /\ \A c : SetPc(c) = [s EXCEPT ![n] = [f EXCEPT !.pc = c]]
  BY <1>1, <1>2, TopIs
<1>5. Extends
  BY <1>1 DEF Extends
<1>6. /\ f.pc \in {"true", "false"} /\ pc \in {"false", "return"} /\ f.node # nullptr
      /\ f.path = P /\ P \in Seq(BOOLEAN)
  BY <1>2, <1>4 DEF Outcome, IsFrame
<1>7. PICK g : g = At(f, pc)
  OBVIOUS
<1>8. /\ IsFrame(g) /\ g = [f EXCEPT !.pc = pc] /\ g.path = P /\ g.pc = pc
      /\ g.node = f.node /\ g.t0 = f.t0 /\ g.goal_state = f.goal_state
  BY <1>4, <1>6, <1>7, AtIs
<1>9. t = Append([s EXCEPT ![n] = g], x)
  BY <1>2, <1>4, <1>8, Zenon
<1>10. t \in Seq(Range(t)) /\ Len(t) = n + 1 /\ t[n] = g /\ t[n + 1] = x
       /\ \A i \in 1..n - 1 : t[i] = s[i]
  <2>1. s \in Seq(Range(s)) /\ s # <<>>
    BY <1>1, <1>2 DEF FramesInv, Building
  <2>2. Len(s) = n
    BY <1>2
  <2>3. t = Append([s EXCEPT ![Len(s)] = g], x)
    BY <1>9, <2>2
  <2>4. t \in Seq(Range(t))
    BY <2>1, <2>3, Pushed, Zenon
  <2>5. Len(t) = Len(s) + 1
    BY <2>1, <2>3, Pushed
  <2>6. t[Len(s)] = g
    BY <2>1, <2>3, Pushed
  <2>7. t[Len(s) + 1] = x
    BY <2>1, <2>3, Pushed
  <2>8. \A i \in 1..Len(s) - 1 : t[i] = s[i]
    BY <2>1, <2>3, Pushed
  <2> QED
    BY <2>2, <2>4, <2>5, <2>6, <2>7, <2>8
<1>11. ASSUME NEW i \in 1..n - 1
       PROVE  /\ IsFrame(t[i]) /\ Len(t[i].path) = i - 1
              /\ Recorded(t[i]) /\ NotYet(t[i])
  <2>1. t[i] = frames[i] /\ i \in 1..Len(frames)
    BY <1>2, <1>4, <1>10
  <2> QED
    BY <1>1, <2>1 DEF FramesInv
<1>12. IsFrame(g) /\ Len(g.path) = n - 1 /\ Recorded(g) /\ NotYet(g)
  <2>1. Recorded(g)
    BY <1>2, <1>4, <1>6, <1>8 DEF Recorded
  <2>2. NotYet(g)
    <3>1. CASE pc = "false"
      <4>1. Append(P, FALSE) \notin DOMAIN subgraph
        BY <1>2, <1>4, <1>6, <3>1 DEF Outcome, NotYet
      <4> QED
        BY <1>8, <3>1, <4>1 DEF NotYet
    <3>2. CASE pc = "return"
      BY <1>8, <3>2 DEF NotYet
    <3> QED
      BY <1>6, <3>1, <3>2
  <2> QED
    BY <1>4, <1>8, <2>1, <2>2
<1>13. IsFrame(x) /\ Len(x.path) = n /\ Recorded(x) /\ NotYet(x)
  <2>1. Len(x.path) = n
    <3>1. Len(Append(P, value)) = Len(P) + 1
      BY <1>6, PathGrows
    <3> QED
      BY <1>3, <1>4, <3>1
  <2>2. Recorded(x) /\ NotYet(x)
    BY <1>3 DEF Recorded, NotYet
  <2> QED
    BY <1>3, <2>1, <2>2
<1>14. \A i \in 1..n + 1 : /\ IsFrame(t[i]) /\ Len(t[i].path) = i - 1
                           /\ Recorded(t[i]) /\ NotYet(t[i])
  <2> SUFFICES ASSUME NEW i \in 1..n + 1
               PROVE  /\ IsFrame(t[i]) /\ Len(t[i].path) = i - 1
                      /\ Recorded(t[i]) /\ NotYet(t[i])
    OBVIOUS
  <2>1. CASE i \in 1..n - 1
    BY <1>11, <2>1
  <2>2. CASE i = n
    BY <1>10, <1>12, <2>2
  <2>3. CASE i = n + 1
    BY <1>4, <1>10, <1>13, <2>3
  <2> QED
    BY <1>4, <2>1, <2>2, <2>3
<1>15. Calls(g, x)
  <2>1. CASE value
    <3>1. value = TRUE /\ pc = "false"
      BY <2>1 DEF Outcome
    <3>2. x.path = Append(P, TRUE)
      BY <1>3, <3>1, Zenon
    <3> QED
      BY <1>8, <3>1, <3>2 DEF Calls
  <2>2. CASE ~value
    <3>1. value = FALSE /\ pc = "return"
      BY <2>2 DEF Outcome
    <3>2. x.path = Append(P, FALSE)
      BY <1>3, <3>1, Zenon
    <3> QED
      BY <1>8, <3>1, <3>2 DEF Calls
  <2> QED
    BY <2>1, <2>2
<1>16. ASSUME NEW i \in 1..n
       PROVE  Calls(t[i], t[i + 1])
  <2>1. CASE i = n
    BY <1>10, <1>15, <2>1
  <2>2. CASE i # n
    <3>0. i \in 1..n - 1
      BY <1>4, <2>2
    <3>1. Calls(s[i], s[i + 1]) /\ t[i] = s[i]
      BY <1>1, <1>2, <1>10, <3>0, CallerIs
    <3>2. t[i + 1].path = s[i + 1].path
      <4>1. CASE i + 1 = n
        <5>1. s[i + 1] = f
          BY <1>2, <4>1 DEF top
        <5> QED
          BY <1>6, <1>8, <1>10, <4>1, <5>1
      <4>2. CASE i + 1 # n
        <5>1. i + 1 \in 1..n - 1
          BY <1>4, <3>0, <4>2
        <5> QED
          BY <1>10, <5>1
      <4> QED
        BY <4>1, <4>2
    <3> QED
      BY <3>1, <3>2 DEF Calls
  <2> QED
    BY <2>1, <2>2
<1>17. FramesInv'
  <2>1. /\ \A i \in 1..Len(t) : /\ IsFrame(t[i]) /\ Len(t[i].path) = i - 1
                                /\ Recorded(t[i]) /\ NotYet(t[i])
        /\ \A i \in 1..Len(t) - 1 : Calls(t[i], t[i + 1])
        /\ t \in Seq(Range(t))
    BY <1>4, <1>10, <1>14, <1>16
  <2>2. \A h : (IsFrame(h) => IsFrame(h)') /\ (Recorded(h) => Recorded(h)') /\ (NotYet(h) => NotYet(h)')
    BY <1>1, SameTree
  <2> QED
    BY <1>2, <2>1, <2>2 DEF FramesInv
<1>18. SubgraphsInv'
  BY <1>1, SameTree
<1>19. CompleteInv'
  <2> SUFFICES ASSUME NEW p \in DOMAIN subgraph', NEW v \in BOOLEAN,
                      subgraph'[p].node # nullptr, Append(p, v) \notin DOMAIN subgraph'
               PROVE  \E i \in 1..Len(frames') : Awaits(frames'[i], p, v)
    BY DEF CompleteInv
  <2>1. PICK i \in 1..n : Awaits(s[i], p, v)
    BY <1>1, <1>2 DEF CompleteInv
  <2>2. CASE i # n
    <3>1. i \in 1..n - 1 /\ i \in 1..Len(t)
      BY <1>4, <1>10, <2>2
    <3> QED
      BY <1>2, <1>10, <2>1, <3>1
  <2>3. CASE i = n
    <3>1. Awaits(f, p, v)
      BY <1>2, <2>1, <2>3 DEF top
    <3>2. p = P /\ (f.pc = "true" \/ (f.pc = "false" /\ ~v))
      BY <1>6, <3>1 DEF Awaits
    <3>3. n \in 1..Len(t) /\ n + 1 \in 1..Len(t)
      BY <1>4, <1>10
    <3>4. CASE v = value
      <4>1. x.path = Append(p, v)
        BY <1>3, <3>2, <3>4, Zenon
      <4>2. Awaits(x, p, v)
        BY <1>3, <4>1 DEF Awaits
      <4> QED
        BY <1>2, <1>10, <3>3, <4>2
    <3>5. CASE v # value
      <4>1. ~v /\ pc = "false"
        BY <1>2, <3>2, <3>5 DEF Outcome
      <4>2. Awaits(g, p, v)
        BY <1>8, <3>2, <4>1 DEF Awaits
      <4> QED
        BY <1>2, <1>10, <3>3, <4>2
    <3> QED
      BY <3>4, <3>5
  <2> QED
    BY <2>2, <2>3
<1>20. ExecInv'
  <2>1. Building'
    BY <1>2, <1>4, <1>10 DEF Building
  <2> QED
    BY <1>1, <2>1 DEF ExecInv, execVars
<1> QED
  BY <1>1, <1>17, <1>18, <1>19, <1>20 DEF TreeInv

(* So do the two calls of build_cocg_subgraph, ...                         *)
LEMMA TraverseKeeps ==
  ASSUME TreeInv, TraverseTruePart \/ TraverseFalsePart
  PROVE  TreeInv'
<1>1. plan \in Plans /\ FramesInv /\ Building /\ top.pc \in {"true", "false"}
  BY DEF TreeInv, TraverseTruePart, TraverseFalsePart
<1>2. PICK nodes, n : nodes = plan.nodes /\ n = top.node
  OBVIOUS
<1>3. IsFrame(top)
  BY <1>1, TopIs
<1>4. n \in DOMAIN nodes
  BY <1>1, <1>2, <1>3 DEF IsFrame, IsCall
<1>5. /\ nodes[n].true_node \in DOMAIN nodes \union {nullptr}
      /\ nodes[n].false_node \in DOMAIN nodes \union {nullptr}
  BY <1>1, <1>2, <1>4, PlanAssumption DEF IsPlanTree
<1>6. CASE TraverseTruePart
  <2>1. PICK child : child = nodes[n].true_node
    OBVIOUS
  <2>2. Outcome(TRUE, "false")
    BY <1>6 DEF TraverseTruePart, Outcome
  <2>3. frames' = Append(SetPc("false"), Descend(TRUE, child))
    BY <1>2, <1>6, <2>1, Zenon DEF TraverseTruePart
  <2>4. UNCHANGED <<plan, subgraph, execVars>>
    BY <1>6 DEF TraverseTruePart
  <2>5. child \in DOMAIN plan.nodes \union {nullptr}
    BY <1>2, <1>5, <2>1
  <2> QED
    BY <1>1, <2>2, <2>3, <2>4, <2>5, DescendKeeps, Zenon
<1>7. CASE TraverseFalsePart
  <2>1. PICK child : child = nodes[n].false_node
    OBVIOUS
  <2>2. Outcome(FALSE, "return")
    BY <1>7 DEF TraverseFalsePart, Outcome
  <2>3. frames' = Append(SetPc("return"), Descend(FALSE, child))
    BY <1>2, <1>7, <2>1, Zenon DEF TraverseFalsePart
  <2>4. UNCHANGED <<plan, subgraph, execVars>>
    BY <1>7 DEF TraverseFalsePart
  <2>5. child \in DOMAIN plan.nodes \union {nullptr}
    BY <1>2, <1>5, <2>1
  <2> QED
    BY <1>1, <2>2, <2>3, <2>4, <2>5, DescendKeeps, Zenon
<1> QED
  BY <1>6, <1>7

(* A subgraph that is entered from no other is the root's.                 *)
LEMMA RootIs ==
  ASSUME SubgraphsInv, root \in DOMAIN subgraph
  PROVE  subgraph[root].t0 = 0 /\ subgraph[root].init = plan.expert
<1>1. EnteredAs(root, subgraph[root].t0, subgraph[root].init)
  BY DEF SubgraphsInv, IsSubgraph
<1>2. ASSUME NEW q \in DOMAIN subgraph, NEW value \in BOOLEAN
      PROVE  root # Append(q, value)
  <2>1. q \in Seq(BOOLEAN)
    BY DEF SubgraphsInv, IsSubgraph
  <2> QED
    BY <2>1, PathGrows
<1> QED
  BY <1>1, <1>2 DEF EnteredAs

(* ... its return ...                                                      *)
LEMMA ReturnKeeps ==
  ASSUME TreeInv, ReturnSubgraph
  PROVE  TreeInv'
<1>1. /\ plan \in Plans /\ SubgraphsInv /\ FramesInv /\ CompleteInv /\ ExecInv
      /\ Building /\ top.pc = "return" /\ plan' = plan /\ subgraph' = subgraph
      /\ UNCHANGED execVars
  BY DEF TreeInv, ReturnSubgraph
<1>2. PICK f, n, s, t : f = top /\ n = Len(frames) /\ s = frames /\ t = frames'
  OBVIOUS
<1>3. n \in Nat \ {0} /\ IsFrame(f) /\ Len(f.path) = n - 1 /\ Recorded(f) /\ f.pc = "return"
  BY <1>1, <1>2, TopIs
<1>4. t \in Seq(Range(t)) /\ Len(t) = n - 1 /\ \A i \in 1..n - 1 : t[i] = s[i]
  <2>1. s \in Seq(Range(s)) /\ s # <<>>
    BY <1>1, <1>2 DEF FramesInv, Building
  <2>2. t = SubSeq(s, 1, Len(s) - 1)
    BY <1>2 DEF ReturnSubgraph, ReturnFrom
  <2>3. t \in Seq(Range(t))
    BY <2>1, <2>2, Popped
  <2>4. Len(t) = Len(s) - 1
    BY <2>1, <2>2, Popped
  <2>5. \A i \in 1..Len(s) - 1 : t[i] = s[i]
    BY <2>1, <2>2, Popped
  <2> QED
    BY <1>2, <2>3, <2>4, <2>5
<1>5. FramesInv'
  <2>1. ASSUME NEW i \in 1..n - 1
        PROVE  /\ IsFrame(t[i]) /\ Len(t[i].path) = i - 1
               /\ Recorded(t[i]) /\ NotYet(t[i])
    <3>1. t[i] = frames[i] /\ i \in 1..Len(frames)
      BY <1>2, <1>3, <1>4
    <3> QED
      BY <1>1, <3>1 DEF FramesInv
  <2>2. ASSUME NEW i \in 1..(n - 1) - 1
        PROVE  Calls(t[i], t[i + 1])
    <3>1. i \in 1..n - 1 /\ i + 1 \in 1..n - 1
      BY <1>3
    <3>2. Calls(frames[i], frames[i + 1])
      BY <1>1, <1>2, <3>1, CallerIs
    <3> QED
      BY <1>2, <1>4, <3>1, <3>2
  <2>3. \A h : (IsFrame(h) => IsFrame(h)') /\ (Recorded(h) => Recorded(h)') /\ (NotYet(h) => NotYet(h)')
    BY <1>1, SameTree
  <2> QED
    BY <1>2, <1>4, <2>1, <2>2, <2>3 DEF FramesInv
<1>6. SubgraphsInv'
  BY <1>1, SameTree
<1>7. CompleteInv'
  <2> SUFFICES ASSUME NEW p \in DOMAIN subgraph', NEW v \in BOOLEAN,
                      subgraph'[p].node # nullptr, Append(p, v) \notin DOMAIN subgraph'
               PROVE  \E i \in 1..Len(frames') : Awaits(frames'[i], p, v)
    BY DEF CompleteInv
  <2>1. PICK i \in 1..n : Awaits(s[i], p, v)
    BY <1>1, <1>2 DEF CompleteInv
  <2>2. i # n
    BY <1>2, <1>3, <2>1 DEF Awaits, top
  <2>3. i \in 1..n - 1 /\ i \in 1..Len(t)
    BY <1>3, <1>4, <2>2
  <2> QED
    BY <1>2, <1>4, <2>1, <2>3
<1>8. ExecInv'
  <2>1. path = root /\ slot = 0 /\ pending = {} /\ clock = 0
    BY <1>1 DEF ExecInv
  <2>2. path' = root /\ slot' = 0 /\ pending' = {} /\ clock' = 0
    BY <1>1, <2>1 DEF execVars
  <2>3. CASE Building'
    BY <2>2, <2>3 DEF ExecInv
  <2>4. CASE ~Building'
    <3>0. t = <<>>
      BY <1>2, <2>4 DEF Building
    <3>1. n = 1
      BY <1>3, <1>4, <3>0
    <3>2. f.path \in Seq(BOOLEAN) /\ Len(f.path) = 0
      BY <1>3, <3>1 DEF IsFrame
    <3>3. f.path = root
      BY <3>2 DEF root
    <3>4. root \in DOMAIN subgraph
      BY <1>3, <3>3 DEF Recorded
    <3>5. subgraph[root].t0 = 0
      BY <1>1, <3>4, RootIs
    <3>6. Len(subgraph[root].actions_layers) \in Nat
      BY <1>1, <3>4 DEF SubgraphsInv, IsSubgraph
    <3>7. here' = subgraph[root]
      BY <1>1, <2>2 DEF here
    <3> QED
      BY <1>1, <2>2, <2>4, <3>4, <3>5, <3>6, <3>7 DEF ExecInv
  <2> QED
    BY <2>3, <2>4
<1> QED
  BY <1>1, <1>5, <1>6, <1>7, <1>8 DEF TreeInv

(* The outcome that is observed.                                           *)
LEMMA SenseIs ==
  ASSUME Sense
  PROVE  \E v \in BOOLEAN : /\ v <=> observe(plan.nodes, here.node) \in world.now
                            /\ path' = Append(path, v)
<1>1. path' = Append(path, observe(plan.nodes, here.node) \in world.now)
  BY DEF Sense
<1>2. CASE observe(plan.nodes, here.node) \in world.now
  <2>1. path' = Append(path, TRUE)
    BY <1>1, <1>2
  <2> QED
    BY <1>2, <2>1
<1>3. CASE observe(plan.nodes, here.node) \notin world.now
  <2>0. (observe(plan.nodes, here.node) \in world.now) = FALSE
    BY <1>3
  <2>1. path' = Append(path, FALSE)
    BY <1>1, <2>0, Zenon
  <2> QED
    BY <1>3, <2>1
<1> QED
  BY <1>2, <1>3

(* ... and the execution.                                                  *)
LEMMA ExecutionKeeps ==
  ASSUME TreeInv, StartLayer \/ Perform \/ Sense
  PROVE  TreeInv'
<1>1. /\ plan \in Plans /\ SubgraphsInv /\ FramesInv /\ CompleteInv /\ ExecInv
      /\ plan' = plan /\ subgraph' = subgraph /\ frames' = frames
  BY DEF TreeInv, StartLayer, Perform, Sense, buildVars
<1>2. SubgraphsInv'
  BY <1>1, SameTree
<1>3. FramesInv'
  <2>1. \A h : (IsFrame(h) => IsFrame(h)') /\ (Recorded(h) => Recorded(h)') /\ (NotYet(h) => NotYet(h)')
    BY <1>1, SameTree
  <2> QED
    BY <1>1, <2>1 DEF FramesInv
<1>4. CompleteInv'
  BY <1>1 DEF CompleteInv, Awaits
<1>5. /\ ~Building /\ path \in DOMAIN subgraph /\ slot \in 0..Len(here.actions_layers)
      /\ clock = here.t0 + slot
      /\ pending \subseteq IF slot = 0 THEN {} ELSE here.actions_layers[slot]
      /\ ~Building'
  <2>1. ~Building
    BY <1>1 DEF ExecInv, StartLayer, Perform, Sense
  <2> QED
    BY <1>1, <2>1 DEF ExecInv, Building
<1>6. PICK r, len : r = here /\ len = Len(r.actions_layers)
  OBVIOUS
<1>7. /\ r = subgraph[path] /\ len \in Nat /\ r.t0 \in Nat /\ slot \in 0..len /\ clock = r.t0 + slot
  <2>1. r = subgraph[path]
    BY <1>6 DEF here
  <2>2. IsSubgraph(path, r)
    BY <1>1, <1>5, <2>1 DEF SubgraphsInv
  <2> QED
    BY <1>5, <1>6, <2>1, <2>2 DEF IsSubgraph, IsCall
<1>8. ExecInv'
  <2>1. CASE StartLayer
    <3>1. /\ slot < len /\ slot' = slot + 1 /\ pending' = r.actions_layers[slot + 1]
          /\ clock' = clock + 1 /\ path' = path
      BY <1>6, <2>1 DEF StartLayer
    <3>2. here' = r
      BY <1>1, <1>7, <3>1 DEF here
    <3>3. slot' \in 0..len /\ clock' = r.t0 + slot' /\ slot' # 0
      BY <1>7, <3>1
    <3> QED
      BY <1>1, <1>5, <1>6, <3>1, <3>2, <3>3 DEF ExecInv
  <2>2. CASE Perform
    <3>1. /\ pending' \subseteq pending /\ slot' = slot /\ clock' = clock /\ path' = path
      BY <2>2 DEF Perform
    <3>2. here' = r
      BY <1>1, <1>7, <3>1 DEF here
    <3> QED
      BY <1>1, <1>5, <1>6, <1>7, <3>1, <3>2 DEF ExecInv
  <2>3. CASE Sense
    <3>1. PICK v \in BOOLEAN : path' = Append(path, v)
      BY <2>3, SenseIs
    <3>2. /\ pending = {} /\ slot = len /\ r.node # nullptr /\ path' = Append(path, v)
          /\ slot' = 0 /\ clock' = clock + 1 /\ pending' = {}
      BY <1>6, <2>3, <3>1 DEF Sense
    <3>3. Len(frames) = 0
      BY <1>5 DEF Building
    <3>4. Append(path, v) \in DOMAIN subgraph
      BY <1>1, <1>5, <1>7, <3>2, <3>3 DEF CompleteInv
    <3>5. PICK x \in DOMAIN subgraph : x = Append(path, v)
      BY <3>4
    <3>6. IsSubgraph(x, subgraph[x])
      BY <1>1 DEF SubgraphsInv
    <3>7. path \in Seq(BOOLEAN)
      BY <1>1, <1>5 DEF SubgraphsInv, IsSubgraph
    <3>8. x # root
      BY <3>5, <3>7, PathGrows
    <3>9. PICK q \in DOMAIN subgraph, w \in BOOLEAN :
            x = Append(q, w) /\ Follows(subgraph[q], w, subgraph[x].t0, subgraph[x].init)
      BY <3>6, <3>8 DEF IsSubgraph, EnteredAs
    <3>10. q = path
      <4>1. q \in Seq(BOOLEAN)
        BY <1>1 DEF SubgraphsInv, IsSubgraph
      <4>2. Append(path, v) = Append(q, w)
        BY <3>5, <3>9, Zenon
      <4> QED
        BY <3>7, <4>1, <4>2, PathTells, Zenon
    <3>11. subgraph[x].t0 = r.t0 + (len + 1)
      BY <1>6, <1>7, <3>9, <3>10 DEF Follows, LayersCnt
    <3>12. here' = subgraph[x] /\ path' \in DOMAIN subgraph'
      BY <1>1, <3>2, <3>5 DEF here
    <3>13. Len(subgraph[x].actions_layers) \in Nat
      BY <3>6 DEF IsSubgraph
    <3> QED
      BY <1>1, <1>5, <1>7, <3>2, <3>11, <3>12, <3>13 DEF ExecInv
  <2> QED
    BY <2>1, <2>2, <2>3
<1> QED
  BY <1>1, <1>2, <1>3, <1>4, <1>8 DEF TreeInv

(* The first call, of the driver, establishes the invariant.               *)
LEMMA TreeInit ==
  ASSUME Init
  PROVE  TreeInv
<1>1. PICK e, x : e = plan.expert /\ x = Frame(root, plan.expert, Root, 0)
  OBVIOUS
<1>2. /\ plan \in Plans /\ frames = <<x>> /\ subgraph = <<>>
      /\ path = root /\ slot = 0 /\ pending = {} /\ clock = 0
  BY <1>1 DEF Init
<1>3. e \in Expert /\ IsPlanTree(plan.nodes)
  BY <1>1, <1>2, PlanAssumption
<1>4. Contents(e)
  BY <1>3 DEF Expert, Contents
<1>5. root \in Seq(BOOLEAN) /\ Len(root) = 0 /\ Root \in DOMAIN plan.nodes \union {nullptr}
  BY <1>3 DEF root, IsPlanTree
<1>6. x = Frame(root, e, Root, 0)
  BY <1>1
<1>7. IsFrame(x) /\ x.path = root /\ x.t0 = 0 /\ x.init_state = e /\ x.pc = "compute"
  <2>1. PICK at, n, t0 : at = root /\ n = Root /\ t0 = 0
    OBVIOUS
  <2>2. /\ x = Frame(at, e, n, t0)
        /\ at \in Seq(BOOLEAN) /\ n \in DOMAIN plan.nodes \union {nullptr} /\ t0 \in Nat
    BY <1>5, <1>6, <2>1
  <2>3. IsFrame(x) /\ x.path = at /\ x.t0 = t0 /\ x.init_state = e /\ x.pc = "compute"
    BY <1>2, <1>4, <2>2, FrameIs
  <2> QED
    BY <2>1, <2>3
<1>8. DOMAIN subgraph = {}
  BY <1>2
<1>9. SubgraphsInv /\ CompleteInv
  BY <1>8 DEF SubgraphsInv, CompleteInv
<1>10. Recorded(x) /\ NotYet(x)
  BY <1>1, <1>7, <1>8 DEF Recorded, EnteredAs, NotYet
<1>11. FramesInv
  <2>1. /\ Len(frames) = 1 /\ frames[1] = x /\ frames \in Seq({x})
    BY <1>2
  <2>2. frames \in Seq(Range(frames))
    BY <2>1, SeqOfItsRange
  <2>3. \A i \in 1..Len(frames) : i = 1
    BY <2>1
  <2>4. Len(x.path) = 1 - 1
    BY <1>5, <1>7
  <2> QED
    BY <1>7, <1>10, <2>1, <2>2, <2>3, <2>4 DEF FramesInv
<1>12. ExecInv
  BY <1>2 DEF ExecInv, Building
<1> QED
  BY <1>2, <1>9, <1>11, <1>12 DEF TreeInv

(* Every step of building and of executing the tree keeps the invariant.   *)
LEMMA TreeNext ==
  ASSUME TreeInv, [Next]_vars
  PROVE  TreeInv'
<1>1. CASE ComputeLayers
  BY <1>1, ComputeKeeps
<1>2. CASE TraverseTruePart \/ TraverseFalsePart
  BY <1>2, TraverseKeeps
<1>3. CASE ReturnSubgraph
  BY <1>3, ReturnKeeps
<1>4. CASE StartLayer \/ Perform \/ Sense
  BY <1>4, ExecutionKeeps
<1>5. CASE UNCHANGED vars
  <2>1. /\ plan \in Plans /\ SubgraphsInv /\ FramesInv /\ CompleteInv /\ ExecInv
        /\ plan' = plan /\ subgraph' = subgraph /\ frames' = frames
        /\ path' = path /\ slot' = slot /\ pending' = pending /\ clock' = clock
    BY <1>5 DEF TreeInv, vars, buildVars, execVars
  <2>2. SubgraphsInv'
    BY <2>1, SameTree
  <2>3. FramesInv'
    <3>1. \A h : (IsFrame(h) => IsFrame(h)') /\ (Recorded(h) => Recorded(h)') /\ (NotYet(h) => NotYet(h)')
      BY <2>1, SameTree
    <3> QED
      BY <2>1, <3>1 DEF FramesInv
  <2>4. CompleteInv'
    BY <2>1 DEF CompleteInv, Awaits
  <2>5. ExecInv'
    BY <2>1 DEF ExecInv, Building, here
  <2> QED
    BY <2>1, <2>2, <2>3, <2>4, <2>5 DEF TreeInv
<1> QED
  BY <1>1, <1>2, <1>3, <1>4, <1>5 DEF Next, build_cocg_subgraph

(* However deep the recursion has built the tree and on whichever branch,  *)
(* a subgraph is entered at the time step its t0_ says: the layers of its  *)
(* ancestors and one step for each sensing node above it.                  *)
THEOREM SubgraphsStartAtT0 == Spec => []ClockIsT0
<1>1. TreeInv => ClockIsT0
  <2> SUFFICES ASSUME TreeInv, ~Building, slot = 0 PROVE clock = here.t0
    BY DEF ClockIsT0
  <2>1. clock = here.t0 + 0 /\ path \in DOMAIN subgraph /\ SubgraphsInv
    BY DEF TreeInv, ExecInv
  <2>2. here.t0 \in Nat
    BY <2>1 DEF SubgraphsInv, IsSubgraph, IsCall, here
  <2> QED
    BY <2>1, <2>2
<1> QED
  BY <1>1, TreeInit, TreeNext, PTL DEF Spec
------------------------------------------------------------------------------
(* Where the execution stands in the subgraph it is in.                    *)
LEMMA HereIs ==
  ASSUME TreeInv, ~Building
  PROVE  /\ path \in DOMAIN subgraph /\ path \in Seq(BOOLEAN) /\ Contents(here.goal)
         /\ here.goal.oneofs = here.init.oneofs
         /\ Len(here.actions_layers) \in Nat /\ slot \in 0..Len(here.actions_layers)
         /\ slot = 0 => pending = {}
         /\ slot # 0 => pending \subseteq here.actions_layers[slot]
         /\ \/ here.actions_layers = NoLayers
            \/ ValidLayers(here.init.predicates, here.goal.predicates, here.actions_layers)
<1>1. PICK r : r = here
  OBVIOUS
<1>2. /\ path \in DOMAIN subgraph /\ slot \in 0..Len(r.actions_layers)
      /\ pending \subseteq IF slot = 0 THEN {} ELSE r.actions_layers[slot]
      /\ SubgraphsInv
  BY <1>1 DEF TreeInv, ExecInv
<1>3. IsSubgraph(path, r)
  BY <1>1, <1>2 DEF SubgraphsInv, here
<1>4. PICK goal, init : goal = r.goal /\ init = r.init
  OBVIOUS
<1>5. /\ goal = [predicates |-> goal.predicates, unknowns |-> init.unknowns, oneofs |-> init.oneofs]
      /\ init.unknowns \subseteq Positive
  BY <1>3, <1>4 DEF IsSubgraph, IsCall, Contents
<1>6. goal.unknowns = init.unknowns /\ goal.oneofs = init.oneofs
  BY <1>5
<1>7. Contents(goal)
  BY <1>5, <1>6 DEF Contents
<1> QED
  BY <1>1, <1>2, <1>3, <1>4, <1>6, <1>7 DEF IsSubgraph

(* Where no subgraph of the branch was given up, this one was not.         *)
LEMMA NotGivenUp ==
  ASSUME path \in Seq(BOOLEAN), ~GaveUp, here.actions_layers = NoLayers
  PROVE  here.goal.predicates \subseteq here.init.predicates
<1>1. PICK n \in Nat : n = Len(path)
  OBVIOUS
<1>2. SubSeq(path, 1, n) = path
  BY <1>1
<1>3. n \in 0..Len(path) /\ Prefix(n) = path
  BY <1>1, <1>2 DEF Prefix
<1>4. /\ here = subgraph[Prefix(n)]
  BY <1>3 DEF here
<1> QED
  BY <1>3, <1>4 DEF GaveUp

(* A branch on which a segment was given up stays one.                     *)
LEMMA GaveUpStays ==
  ASSUME subgraph' = subgraph, path \in Seq(BOOLEAN),
         path' = path \/ \E v \in BOOLEAN : path' = Append(path, v), GaveUp
  PROVE  GaveUp'
<1>1. PICK n \in Nat : n = Len(path)
  OBVIOUS
<1>2. PICK k \in 0..n : /\ subgraph[Prefix(k)].actions_layers = NoLayers
                        /\ ~(subgraph[Prefix(k)].goal.predicates
                               \subseteq subgraph[Prefix(k)].init.predicates)
  BY <1>1 DEF GaveUp
<1>3. CASE path' = path
  BY <1>3 DEF GaveUp, Prefix
<1>4. CASE \E v \in BOOLEAN : path' = Append(path, v)
  <2>1. PICK v \in BOOLEAN : path' = Append(path, v)
    BY <1>4
  <2>2. PICK longer : longer = Append(path, v)
    OBVIOUS
  <2>3. /\ longer \in Seq(BOOLEAN) /\ Len(longer) = n + 1
        /\ \A i \in 1..n : longer[i] = path[i]
    BY <1>1, <2>2, PathGrows
  <2>4. SubSeq(longer, 1, k) = SubSeq(path, 1, k)
    <3>1. SubSeq(longer, 1, k) = [i \in 1..k |-> longer[i]]
      BY <1>1, <2>3
    <3>2. SubSeq(path, 1, k) = [i \in 1..k |-> path[i]]
      BY <1>1
    <3> QED
      BY <1>1, <2>3, <3>1, <3>2
  <2>5. k \in 0..Len(path') /\ Prefix(k)' = Prefix(k)
    BY <1>1, <2>1, <2>2, <2>3, <2>4 DEF Prefix
  <2> QED
    BY <1>2, <2>5 DEF GaveUp
<1> QED
  BY <1>3, <1>4

(* When a layer has been performed, the state that its layers lead to, or  *)
(* the expert's at the start, is true in the world.                        *)
LEMMA LayerIsDone ==
  ASSUME TreeInv, WorldInv, ~Building, ~GaveUp, pending = {}
  PROVE  StatesAlong(here.init.predicates, here.actions_layers)[slot] \subseteq world.now
<1>1. PICK known, ls, after, w :
        /\ known = here.init.predicates /\ ls = here.actions_layers
        /\ after = StatesAlong(known, ls) /\ w = world.now
  OBVIOUS
<1>2. Len(ls) \in Nat /\ slot \in 0..Len(ls)
  BY <1>1, HereIs
<1>3. /\ after[0] = known
      /\ \A k \in 1..Len(ls) : after[k] = PerformLayer(after[k - 1], ls[k])
  BY <1>1, <1>2, StatesAlongIs
<1>4. CASE slot = 0
  BY <1>1, <1>3, <1>4 DEF WorldInv
<1>5. CASE slot # 0
  <2>1. Upheld(after[slot - 1], ls[slot], w)
    BY <1>1, <1>5 DEF WorldInv
  <2>2. after[slot] = PerformLayer(after[slot - 1], ls[slot])
    BY <1>2, <1>3, <1>5
  <2>3. ASSUME NEW f \in PerformLayer(after[slot - 1], ls[slot])
        PROVE  f \in w
    <3>1. \/ f \in after[slot - 1] /\ \A a \in ls[slot] : <<f[1], "-">> \notin Eff[a]
          \/ f \in Positive /\ \E a \in ls[slot] : f \in Eff[a]
      BY PerformedIs
    <3> QED
      BY <2>1, <3>1 DEF Upheld
  <2> QED
    BY <1>1, <2>2, <2>3
<1> QED
  BY <1>4, <1>5

(* ... and when all are, the goal state.                                   *)
LEMMA GoalIsReached ==
  ASSUME TreeInv, WorldInv, ~Building, ~GaveUp, pending = {}, slot = Len(here.actions_layers)
  PROVE  TrueIn(here.goal, world.now)
<1>1. PICK known, goal, ls, w :
        /\ known = here.init.predicates /\ goal = here.goal.predicates
        /\ ls = here.actions_layers /\ w = world.now
  OBVIOUS
<1>2. StatesAlong(known, ls)[Len(ls)] \subseteq w
  BY <1>1, LayerIsDone
<1>3. goal \subseteq w
  <2>1. CASE ls = NoLayers
    <3>1. goal \subseteq known
      BY <1>1, <2>1, HereIs, NotGivenUp
    <3>2. Len(ls) = 0
      BY <2>1 DEF NoLayers
    <3>3. StatesAlong(known, ls)[0] = known
      BY <3>2, StatesAlongIs
    <3> QED
      BY <1>2, <3>1, <3>2, <3>3
  <2>2. CASE ValidLayers(known, goal, ls)
    BY <1>2, <2>2 DEF ValidLayers
  <2> QED
    BY <1>1, <2>1, <2>2, HereIs
<1>4. \A o \in here.goal.oneofs : \E f \in Positive : w \intersect o = {f}
  BY <1>1, HereIs DEF WorldInv
<1> QED
  BY <1>1, <1>3, <1>4 DEF TrueIn

(* An action of a layer that is being performed: what it does not negate   *)
(* in the layer, and the facts to be observed that it leaves alone.        *)
LEMMA PendingIs ==
  ASSUME TreeInv, NEW a \in pending
  PROVE  /\ ~Building /\ slot \in 1..Len(here.actions_layers)
         /\ pending \subseteq here.actions_layers[slot] /\ a \in here.actions_layers[slot]
         /\ Compatible(here.actions_layers[slot]) /\ a \in ActionNames
         /\ Enabled(a, StatesAlong(here.init.predicates, here.actions_layers)[slot - 1])
<1>1. ~Building
  BY DEF TreeInv, ExecInv
<1>2. PICK known, goal, ls :
        known = here.init.predicates /\ goal = here.goal.predicates /\ ls = here.actions_layers
  OBVIOUS
<1>3. /\ Len(ls) \in Nat /\ slot \in 0..Len(ls) /\ slot # 0
      /\ pending \subseteq ls[slot]
      /\ ls = NoLayers \/ ValidLayers(known, goal, ls)
  BY <1>1, <1>2, HereIs
<1>4. slot \in 1..Len(ls)
  BY <1>3
<1>5. ls # NoLayers
  BY <1>4 DEF NoLayers
<1>6. ls[slot] \in Startable(ActionNames, StatesAlong(known, ls)[slot - 1])
  BY <1>3, <1>4, <1>5 DEF ValidLayers
<1>7. /\ Compatible(ls[slot]) /\ ls[slot] \subseteq ActionNames
      /\ \A b \in ls[slot] : Enabled(b, StatesAlong(known, ls)[slot - 1])
  BY <1>6 DEF Startable
<1> QED
  BY <1>1, <1>2, <1>3, <1>4, <1>7

(* Performing an action of the layer keeps what the layer keeps, ...       *)
LEMMA PerformUpholds ==
  ASSUME NEW before, NEW layer, Compatible(layer), pending \subseteq layer,
         NEW a \in pending, pending' = pending \ {a},
         NEW w, Upheld(before, layer, w)
  PROVE  Upheld(before, layer, apply_actuation_action(w, a))'
<1>1. PICK u : u = apply_actuation_action(w, a)
  OBVIOUS
<1>2. \A f : f \in u <=> \/ f \in w /\ <<f[1], "-">> \notin Eff[a]
                         \/ f \in Eff[a] /\ f \in Positive
  BY <1>1 DEF apply_actuation_action
<1>3. \A b \in layer \ pending' : b \in layer \ pending \/ b = a
  OBVIOUS
<1>4. ASSUME NEW f \in before, \A b \in layer \ pending' : <<f[1], "-">> \notin Eff[b]
      PROVE  f \in u
  <2>1. <<f[1], "-">> \notin Eff[a]
    BY <1>4
  <2>2. \A b \in layer \ pending : <<f[1], "-">> \notin Eff[b]
    BY <1>4
  <2>3. f \in w
    BY <2>2 DEF Upheld
  <2> QED
    BY <1>2, <2>1, <2>3
<1>5. ASSUME NEW b \in layer \ pending', NEW f \in Eff[b], f \in Positive
      PROVE  f \in u
  <2>1. CASE b = a
    BY <1>2, <1>5, <2>1
  <2>2. CASE b # a
    <3>1. f \in w
      BY <1>3, <1>5, <2>2 DEF Upheld
    <3>2. a \in layer /\ b \in layer
      OBVIOUS
    <3>3. <<f[1], "-">> \notin Eff[a]
      <4> SUFFICES ASSUME <<f[1], "-">> \in Eff[a] PROVE FALSE
        OBVIOUS
      <4>1. PICK g : g = <<f[1], "-">>
        OBVIOUS
      <4>2. negated_facts(g, f)
        BY <1>5, <4>1 DEF Positive, negated_facts
      <4> QED
        BY <2>2, <3>2, <4>1, <4>2 DEF Compatible
    <3> QED
      BY <1>2, <3>1, <3>3
  <2> QED
    BY <2>1, <2>2
<1> QED
  BY <1>1, <1>4, <1>5 DEF Upheld

(* ... and it leaves what is still to be observed as it is.                *)
LEMMA PerformLeaves ==
  ASSUME NEW a, NEW o, NEW w \in SUBSET Positive,
         \A f \in Eff[a] : <<f[1], "+">> \notin o
  PROVE  apply_actuation_action(w, a) \intersect o = w \intersect o
<1>1. PICK u : u = apply_actuation_action(w, a)
  OBVIOUS
<1>2. \A f : f \in u <=> \/ f \in w /\ <<f[1], "-">> \notin Eff[a]
                         \/ f \in Eff[a] /\ f \in Positive
  BY <1>1 DEF apply_actuation_action
<1>3. ASSUME NEW f \in o
      PROVE  f \in u <=> f \in w
  <2>1. CASE f \in Positive
    <3>1. PICK x \in Atoms : f = <<x, "+">>
      BY <2>1 DEF Positive
    <3>2. f \notin Eff[a] /\ <<f[1], "-">> \notin Eff[a]
      BY <3>1
    <3> QED
      BY <1>2, <3>2
  <2>2. CASE f \notin Positive
    BY <1>2, <2>2
  <2> QED
    BY <2>1, <2>2
<1> QED
  BY <1>1, <1>3

(* A pending action needs what nothing performed before it has deleted.    *)
LEMMA PendingApplicable ==
  ASSUME TreeInv, WorldInv, ~GaveUp, NEW a \in pending, Pre[a] \subseteq Positive
  PROVE  Enabled(a, world.now)
<1>1. PICK before, layer, w :
        /\ before = StatesAlong(here.init.predicates, here.actions_layers)[slot - 1]
        /\ layer = here.actions_layers[slot] /\ w = world.now
  OBVIOUS
<1>2. /\ ~Building /\ slot # 0 /\ a \in layer /\ Compatible(layer) /\ Enabled(a, before)
  BY <1>1, PendingIs
<1>3. Upheld(before, layer, w)
  BY <1>1, <1>2 DEF WorldInv
<1>4. ASSUME NEW f \in Pre[a]
      PROVE  f \in w /\ f[2] = "+"
  <2>1. f \in Positive /\ f[2] = "+"
    BY DEF Positive
  <2>2. f \in before
    BY <1>2, <2>1 DEF Enabled, Holds
  <2>3. ASSUME NEW b \in layer \ pending
        PROVE  <<f[1], "-">> \notin Eff[b]
    <3> SUFFICES ASSUME <<f[1], "-">> \in Eff[b] PROVE FALSE
      OBVIOUS
    <3>1. PICK g : g = <<f[1], "-">>
      OBVIOUS
    <3>2. negated_facts(g, f) /\ b # a
      BY <2>1, <3>1 DEF negated_facts
    <3> QED
      BY <1>2, <3>1, <3>2 DEF Compatible
  <2> QED
    BY <1>3, <2>1, <2>2, <2>3 DEF Upheld
<1> QED
  BY <1>1, <1>4 DEF Enabled, Holds
------------------------------------------------------------------------------
(* At the start the world is one that the initial expert allows.           *)
LEMMA WorldInit ==
  ASSUME Init
  PROVE  WorldInv
<1>1. PICK w \in Worlds(plan.expert) : world = [now |-> w, start |-> w]
  BY DEF Init
<1>2. /\ w \in SUBSET Positive /\ plan.expert.predicates \subseteq w
      /\ \A o \in plan.expert.oneofs : Cardinality(w \intersect o) = 1
  BY DEF Worlds
<1>3. ASSUME NEW o \in plan.expert.oneofs
      PROVE  \E f \in Positive : w \intersect o = {f}
  <2>1. w \intersect o \in SUBSET Positive
    BY <1>2
  <2>2. IsFiniteSet(w \intersect o)
    BY <2>1, FactsAssumption, FS_Subset
  <2>3. Cardinality(w \intersect o) = 1
    BY <1>2
  <2>4. PICK f : w \intersect o = {f}
    BY <2>2, <2>3, FS_Singleton
  <2>5. f \in Positive
    BY <2>1, <2>4
  <2> QED
    BY <2>4, <2>5
<1>4. world.now = w /\ world \in [now : SUBSET Positive, start : SUBSET Positive]
  BY <1>1, <1>2
<1>5. TrueIn(plan.expert, world.now)
  BY <1>2, <1>3, <1>4 DEF TrueIn
<1>6. Building
  BY DEF Init, Building
<1> QED
  BY <1>4, <1>5, <1>6 DEF WorldInv

(* While the tree is built the world waits; the root is entered with what  *)
(* the expert knows at the start.                                          *)
LEMMA BuildingWaits ==
  ASSUME TreeInv, TreeInv', WorldInv, build_cocg_subgraph
  PROVE  WorldInv'
<1>1. Building /\ plan' = plan /\ UNCHANGED execVars
  BY DEF build_cocg_subgraph, ComputeLayers, TraverseTruePart, TraverseFalsePart, ReturnSubgraph
<1>2. /\ world' = world /\ path' = root /\ slot' = 0
  BY <1>1 DEF TreeInv, ExecInv, execVars
<1>3. TrueIn(plan.expert, world.now) /\ world \in [now : SUBSET Positive, start : SUBSET Positive]
  BY <1>1 DEF WorldInv
<1>4. TrueIn(plan.expert, world.now)'
  BY <1>1, <1>2, <1>3
<1>5. ASSUME ~Building'
      PROVE  here'.init = plan.expert
  <2>1. SubgraphsInv' /\ root \in DOMAIN subgraph'
    BY <1>2, <1>5 DEF TreeInv, ExecInv
  <2>2. (SubgraphsInv /\ root \in DOMAIN subgraph => subgraph[root].init = plan.expert)'
    BY RootIs, PTL
  <2>3. root' = root
    BY DEF root
  <2> QED
    BY <1>1, <1>2, <2>1, <2>2, <2>3 DEF here
<1> QED
  BY <1>1, <1>2, <1>3, <1>4, <1>5 DEF WorldInv, TrueIn

(* Starting a layer: the actions of the layer are those it has to perform, *)
(* and the layers before have led to its initial state.                    *)
LEMMA StartUpholds ==
  ASSUME TreeInv, WorldInv, StartLayer
  PROVE  WorldInv'
<1>1. /\ ~Building /\ pending = {} /\ slot < Len(here.actions_layers) /\ slot' = slot + 1
      /\ pending' = here.actions_layers[slot + 1]
      /\ plan' = plan /\ frames' = frames /\ subgraph' = subgraph /\ world' = world /\ path' = path
  BY DEF StartLayer, buildVars
<1>2. PICK r : r = here
  OBVIOUS
<1>3. here' = r /\ ~Building' /\ (GaveUp => GaveUp')
  <2>1. path \in Seq(BOOLEAN)
    BY <1>1, HereIs
  <2> QED
    BY <1>1, <1>2, <2>1, GaveUpStays DEF here, Building
<1>4. slot \in Nat
  BY <1>1, HereIs
<1>5. ASSUME ~GaveUp
      PROVE  Upheld(StatesAlong(r.init.predicates, r.actions_layers)[slot - 1],
                    r.actions_layers[slot], world.now)'
  <2>1. PICK before, layer, w :
          /\ before = StatesAlong(r.init.predicates, r.actions_layers)[slot]
          /\ layer = r.actions_layers[slot + 1] /\ w = world.now
    OBVIOUS
  <2>2. before \subseteq w
    BY <1>1, <1>2, <1>5, <2>1, LayerIsDone
  <2>3. pending' = layer /\ slot' - 1 = slot /\ world'.now = w
    BY <1>1, <1>2, <1>4, <2>1
  <2>4. Upheld(before, layer, w)'
    BY <2>2, <2>3 DEF Upheld
  <2> QED
    BY <1>1, <2>1, <2>3, <2>4
<1>6. slot' # 0
  BY <1>1, <1>4
<1>7. ~GaveUp => \A o \in r.init.oneofs : \E f \in Positive : world.now \intersect o = {f}
  BY <1>1, <1>2 DEF WorldInv
<1>8. world' \in [now : SUBSET Positive, start : SUBSET Positive]
  BY <1>1 DEF WorldInv
<1> QED
  BY <1>1, <1>3, <1>5, <1>6, <1>7, <1>8 DEF WorldInv

(* Performing one of the actions of a layer, in any order.                 *)
LEMMA PerformKeepsWorld ==
  ASSUME TreeInv, WorldInv, ActsOnKnown, Perform
  PROVE  WorldInv'
<1>1. PICK a \in pending : /\ world' = [world EXCEPT !.now = apply_actuation_action(@, a)]
                           /\ pending' = pending \ {a}
  BY DEF Perform
<1>2. plan' = plan /\ frames' = frames /\ subgraph' = subgraph /\ path' = path /\ slot' = slot
  BY DEF Perform, buildVars
<1>3. PICK r, before, layer, w, u :
        /\ r = here /\ before = StatesAlong(r.init.predicates, r.actions_layers)[slot - 1]
        /\ layer = r.actions_layers[slot] /\ w = world.now /\ u = apply_actuation_action(w, a)
  OBVIOUS
<1>4. /\ ~Building /\ slot \in 1..Len(r.actions_layers) /\ pending \subseteq layer
      /\ a \in layer /\ Compatible(layer)
  BY <1>3, PendingIs
<1>5. path \in DOMAIN subgraph /\ path \in Seq(BOOLEAN) /\ slot # 0 /\ r = subgraph[path]
  BY <1>3, <1>4, HereIs DEF here
<1>6. here' = r /\ ~Building' /\ (GaveUp => GaveUp')
  BY <1>2, <1>4, <1>5, GaveUpStays DEF here, Building
<1>7. world \in [now : SUBSET Positive, start : SUBSET Positive] /\ w \in SUBSET Positive
  BY <1>3 DEF WorldInv
<1>8. u \in SUBSET Positive
  BY <1>3, <1>7 DEF apply_actuation_action
<1>9. world' = [now |-> u, start |-> world.start]
  <2>1. world = [now |-> w, start |-> world.start]
    BY <1>3, <1>7
  <2>2. world' = [world EXCEPT !.now = u]
    BY <1>1, <1>3
  <2> QED
    BY <2>1, <2>2
<1>10. world'.now = u /\ world' \in [now : SUBSET Positive, start : SUBSET Positive]
  BY <1>7, <1>8, <1>9
<1>11. ASSUME ~GaveUp
       PROVE  \A o \in r.init.oneofs : \E f \in Positive : u \intersect o = {f}
  <2> SUFFICES ASSUME NEW o \in r.init.oneofs PROVE \E f \in Positive : u \intersect o = {f}
    OBVIOUS
  <2>1. PICK f \in Positive : w \intersect o = {f}
    BY <1>3, <1>4, <1>11 DEF WorldInv
  <2>2. \A g \in Eff[a] : <<g[1], "+">> \notin o
    BY <1>3, <1>4, <1>5 DEF ActsOnKnown
  <2>3. u \intersect o = w \intersect o
    BY <1>3, <1>7, <2>2, PerformLeaves
  <2> QED
    BY <2>1, <2>3
<1>12. ASSUME ~GaveUp
       PROVE  Upheld(before, layer, u)'
  <2>1. Upheld(before, layer, w)
    BY <1>3, <1>4, <1>5, <1>12 DEF WorldInv
  <2>2. Upheld(before, layer, apply_actuation_action(w, a))'
    BY <1>1, <1>4, <2>1, PerformUpholds
  <2> QED
    BY <1>3, <2>2
<1>13. ~GaveUp => Upheld(StatesAlong(r.init.predicates, r.actions_layers)[slot - 1],
                         r.actions_layers[slot], world.now)'
  BY <1>2, <1>3, <1>10, <1>12
<1> QED
  BY <1>2, <1>5, <1>6, <1>10, <1>11, <1>13 DEF WorldInv

(* Observing: the subgraph entered is the one for the outcome, and its expert*)
(* is told what is the case.                                               *)
LEMMA SenseKeepsWorld ==
  ASSUME TreeInv, TreeInv', WorldInv, Sense
  PROVE  WorldInv'
<1>1. /\ ~Building /\ pending = {} /\ slot = Len(here.actions_layers) /\ here.node # nullptr
      /\ slot' = 0
      /\ plan' = plan /\ frames' = frames /\ subgraph' = subgraph /\ world' = world
  BY DEF Sense, buildVars
<1>2. PICK r, w, p : r = here /\ w = world.now /\ p = observe(plan.nodes, r.node)
  OBVIOUS
<1>3. PICK v \in BOOLEAN : (v <=> p \in w) /\ path' = Append(path, v)
  BY <1>2, SenseIs
<1>4. path \in DOMAIN subgraph /\ path \in Seq(BOOLEAN) /\ r = subgraph[path] /\ Contents(r.goal)
  BY <1>1, <1>2, HereIs DEF here
<1>5. ~Building' /\ (GaveUp => GaveUp')
  BY <1>1, <1>3, <1>4, GaveUpStays DEF Building
<1>6. PICK x : x = path'
  OBVIOUS
<1>7. x \in DOMAIN subgraph /\ x = Append(path, v)
  BY <1>1, <1>3, <1>5, <1>6 DEF TreeInv, ExecInv
<1>8. EnteredAs(x, subgraph[x].t0, subgraph[x].init)
  BY <1>7 DEF TreeInv, SubgraphsInv, IsSubgraph
<1>9. x # root
  BY <1>4, <1>7, PathGrows
<1>10. PICK q \in DOMAIN subgraph, value \in BOOLEAN :
         x = Append(q, value) /\ Follows(subgraph[q], value, subgraph[x].t0, subgraph[x].init)
  BY <1>8, <1>9 DEF EnteredAs
<1>11. q = path /\ value = v
  <2>1. q \in Seq(BOOLEAN)
    BY DEF TreeInv, SubgraphsInv, IsSubgraph
  <2>2. Append(path, v) = Append(q, value)
    BY <1>7, <1>10, Zenon
  <2> QED
    BY <1>4, <2>1, <2>2, PathTells, Zenon
<1>12. PICK e : e = subgraph[x].init
  OBVIOUS
<1>13. e = AfterSensing(r.goal, p, v)
  <2>1. Follows(r, v, subgraph[x].t0, e)
    BY <1>4, <1>10, <1>11, <1>12, Zenon
  <2> QED
    BY <1>2, <2>1 DEF Follows
<1>14. here' = subgraph[x]
  BY <1>1, <1>6 DEF here
<1>15. ASSUME ~GaveUp
       PROVE  TrueIn(e, w)
  <2>1. TrueIn(r.goal, w)
    BY <1>1, <1>2, <1>15, GoalIsReached
  <2>2. Cardinality(r.goal.unknowns) \in Nat
    BY <1>4, UnknownsFinite
  <2>3. TrueIn(AfterSensing(r.goal, p, v), w)
    BY <1>3, <2>1, <2>2, SensingTrue
  <2> QED
    BY <1>13, <2>3
<1>16. world' \in [now : SUBSET Positive, start : SUBSET Positive]
  BY <1>1 DEF WorldInv
<1> QED
  BY <1>1, <1>2, <1>5, <1>12, <1>14, <1>15, <1>16 DEF WorldInv, TrueIn

(* Every step keeps what is known of the world, as far as the plan acts on *)
(* known facts.                                                            *)
LEMMA WorldNext ==
  ASSUME TreeInv, TreeInv', WorldInv, ActsOnKnown, [Next]_vars
  PROVE  WorldInv'
<1>1. CASE build_cocg_subgraph
  BY <1>1, BuildingWaits
<1>2. CASE StartLayer
  BY <1>2, StartUpholds
<1>3. CASE Perform
  BY <1>3, PerformKeepsWorld
<1>4. CASE Sense
  BY <1>4, SenseKeepsWorld
<1>5. CASE UNCHANGED vars
  BY <1>5 DEF WorldInv, Building, GaveUp, Prefix, here, TrueIn, Upheld, vars, buildVars, execVars
<1> QED
  BY <1>1, <1>2, <1>3, <1>4, <1>5 DEF Next

(* Where the layers leave alone what is still to be observed, a subgraph   *)
(* is entered at its t0_, and unless a segment above it was given up, in a *)
(* world where everything its expert takes for known is true: no outcome   *)
(* of the observations, and no order in which the actions of a layer are   *)
(* performed, makes the expert wrong.                                      *)
THEOREM ExpertFollows == Spec /\ []ActsOnKnown => []EnteredInStep
<1>1. TreeInv /\ WorldInv => ExpertFollowsWorld
  BY DEF ExpertFollowsWorld, WorldInv
<1>2. ExpertFollowsWorld /\ ClockIsT0 => EnteredInStep
  BY DEF EnteredInStep
<1> QED
  BY <1>1, <1>2, TreeInit, TreeNext, WorldInit, WorldNext, SubgraphsStartAtT0, PTL DEF Spec

(* ... and where no action of the domain has a negative precondition, each *)
(* action of a dispatched layer is applicable when its turn comes.         *)
THEOREM DispatchesAreApplicable ==
  ASSUME \A a \in ActionNames : Pre[a] \subseteq Positive
  PROVE  Spec /\ []ActsOnKnown => []DispatchApplicable
<1>1. TreeInv /\ WorldInv => DispatchApplicable
  <2> SUFFICES ASSUME TreeInv, WorldInv, ~GaveUp, NEW a \in pending
               PROVE  Enabled(a, world.now)
    BY DEF DispatchApplicable
  <2>1. Pre[a] \subseteq Positive
    BY PendingIs
  <2> QED
    BY <2>1, PendingApplicable
<1> QED
  BY <1>1, TreeInit, TreeNext, WorldInit, WorldNext, PTL DEF Spec
------------------------------------------------------------------------------
(* A subgraph starts at the same node of the plan after more of them have  *)
(* been recorded.                                                          *)
LEMMA StartsStays ==
  ASSUME Extends, NEW p, NEW n, StartsAt(p, n)
  PROVE  StartsAt(p, n)'
<1>1. CASE p = root /\ n = Root
  BY <1>1 DEF StartsAt
<1>2. CASE \E q \in DOMAIN subgraph, value \in BOOLEAN :
             p = Append(q, value) /\ subgraph[q].node # nullptr /\ n = Child(subgraph[q], value)
  <2>1. PICK q \in DOMAIN subgraph, value \in BOOLEAN :
          p = Append(q, value) /\ subgraph[q].node # nullptr /\ n = Child(subgraph[q], value)
    BY <1>2
  <2>2. /\ q \in DOMAIN subgraph' /\ subgraph'[q] = subgraph[q] /\ plan' = plan
    BY DEF Extends
  <2>3. n = Child(subgraph[q], value)'
    BY <2>1, <2>2 DEF Child
  <2> QED
    BY <2>1, <2>2, <2>3 DEF StartsAt
<1> QED
  BY <1>1, <1>2 DEF StartsAt

(* ... and is made from the walk from there.                               *)
LEMMA MadeStays ==
  ASSUME Extends, NEW p, NEW r, Made(p, r)
  PROVE  Made(p, r)'
<1>1. PICK n \in Ends : StartsAt(p, n) /\ MadeFrom(r, n)
  BY DEF Made
<1>2. plan' = plan
  BY DEF Extends
<1>3. StartsAt(p, n)'
  BY <1>1, StartsStays
<1>4. MadeFrom(r, n)'
  BY <1>1, <1>2 DEF MadeFrom, GoalState, MidActions
<1>5. n \in Ends'
  BY <1>2 DEF Ends
<1> QED
  BY <1>3, <1>4, <1>5 DEF Made

(* ... and a call stays one.                                               *)
LEMMA CalledStays ==
  ASSUME Extends, NEW f, Called(f)
  PROVE  Called(f)'
<1> SUFFICES ASSUME f.pc = "compute"
             PROVE  (\E n \in Ends : StartsAt(f.path, n) /\ f = Frame(f.path, f.init_state, n, f.t0))'
  BY DEF Called
<1>1. PICK n \in Ends : StartsAt(f.path, n) /\ f = Frame(f.path, f.init_state, n, f.t0)
  BY DEF Called
<1>2. plan' = plan
  BY DEF Extends
<1>3. StartsAt(f.path, n)'
  BY <1>1, StartsStays
<1>4. (f = Frame(f.path, f.init_state, n, f.t0))'
  BY <1>1, <1>2 DEF Frame, GoalState, MidActions
<1>5. n \in Ends'
  BY <1>2 DEF Ends
<1> QED
  BY <1>3, <1>4, <1>5

(* The root subgraph is made from the walk from the root of the plan.      *)
LEMMA SegmentsInit ==
  ASSUME Init
  PROVE  SegmentsInv
<1>1. PICK at, n, t0 : at = root /\ n = Root /\ t0 = 0
  OBVIOUS
<1>2. PICK x : x = Frame(at, plan.expert, n, t0)
  OBVIOUS
<1>3. plan \in Plans /\ subgraph = <<>> /\ frames = <<x>>
  BY <1>1, <1>2 DEF Init
<1>4. Contents(plan.expert)
  BY <1>3, PlanAssumption DEF Expert, Contents
<1>5. n \in Ends /\ at \in Seq(BOOLEAN) /\ t0 \in Nat
  BY <1>1, <1>3, PlanAssumption DEF IsPlanTree, Ends, root
<1>6. x.path = at /\ x.t0 = t0 /\ x.init_state = plan.expert
  <2>1. PICK e : e = plan.expert
    OBVIOUS
  <2>2. x = Frame(at, e, n, t0) /\ n \in DOMAIN plan.nodes \union {nullptr}
    BY <1>2, <1>5, <2>1 DEF Ends
  <2>3. IsFrame(x) /\ x.path = at /\ x.t0 = t0 /\ x.init_state = e /\ x.pc = "compute"
    BY <1>3, <1>4, <1>5, <2>1, <2>2, FrameIs
  <2> QED
    BY <2>1, <2>3
<1>7. StartsAt(at, n)
  BY <1>1 DEF StartsAt
<1>8. Called(x)
  BY <1>2, <1>5, <1>6, <1>7 DEF Called
<1>9. \A i \in 1..Len(frames) : frames[i] = x
  BY <1>3
<1>10. DOMAIN subgraph = {}
  BY <1>3
<1> QED
  BY <1>8, <1>9, <1>10 DEF SegmentsInv

(* ComputeLayers records a segment made from the walk of its activation.   *)
LEMMA ComputeSegments ==
  ASSUME TreeInv, SegmentsInv, ComputeLayers
  PROVE  SegmentsInv'
<1>1. /\ plan \in Plans /\ SubgraphsInv /\ FramesInv /\ Building /\ top.pc = "compute" /\ plan' = plan
  BY DEF TreeInv, ComputeLayers
<1>2. PICK f, k : f = top /\ k = Len(frames)
  OBVIOUS
<1>3. k \in Nat \ {0} /\ f = frames[k]
  BY <1>1, <1>2, TopIs DEF top
<1>4. PICK r, P : /\ DOMAIN subgraph' = DOMAIN subgraph \union {P}
                  /\ subgraph'[P] = r /\ Extends /\ P = f.path
                  /\ r.init = f.init_state /\ r.goal = f.goal_state /\ r.node = f.node
  BY <1>1, <1>2, ComputedIs
<1>5. r.actions_layers \in SegmentLayers(f.init_state.predicates, f.actions, f.goal_state.predicates)
  <2>1. PICK ls \in SegmentLayers(f.init_state.predicates, f.actions, f.goal_state.predicates) :
          subgraph' = [p \in DOMAIN subgraph \union {f.path} |->
                        IF p = f.path
                        THEN [t0 |-> f.t0, actions_layers |-> ls, node |-> f.node,
                              init |-> f.init_state, goal |-> f.goal_state]
                        ELSE subgraph[p]]
    BY <1>2 DEF ComputeLayers
  <2>2. r = [t0 |-> f.t0, actions_layers |-> ls, node |-> f.node,
             init |-> f.init_state, goal |-> f.goal_state]
    BY <1>4, <2>1
  <2> QED
    BY <2>1, <2>2
<1>6. PICK n \in Ends : StartsAt(f.path, n) /\ f = Frame(f.path, f.init_state, n, f.t0)
  <2>1. Called(f)
    BY <1>2, <1>3 DEF SegmentsInv
  <2> QED
    BY <1>1, <1>2, <2>1 DEF Called
<1>7. /\ f.actions = MidActions(n) /\ f.node = StopNode(plan.nodes, n)
      /\ f.goal_state = GoalState(f.init_state, n)
  <2>1. PICK at, e, t0 : at = f.path /\ e = f.init_state /\ t0 = f.t0
    OBVIOUS
  <2>2. f = Frame(at, e, n, t0)
    BY <1>6, <2>1
  <2>3. /\ f.actions = MidActions(n) /\ f.node = StopNode(plan.nodes, n)
        /\ f.goal_state = GoalState(e, n)
    BY <2>2 DEF Frame
  <2> QED
    BY <2>1, <2>3
<1>8. MadeFrom(r, n)
  BY <1>4, <1>5, <1>7 DEF MadeFrom
<1>9. Made(P, r)
  BY <1>4, <1>6, <1>8 DEF Made
<1> PICK later : later = subgraph'
  OBVIOUS
<1>10. ASSUME NEW p \in DOMAIN later
       PROVE  Made(p, later[p])'
  <2>1. CASE p = P
    <3>1. Made(P, r)'
      BY <1>4, <1>9, MadeStays
    <3> QED
      BY <1>4, <2>1, <3>1
  <2>2. CASE p \in DOMAIN subgraph
    <3>1. PICK q : q = subgraph[p]
      OBVIOUS
    <3>2. Made(p, q)
      BY <2>2, <3>1 DEF SegmentsInv
    <3>3. Made(p, q)'
      BY <1>4, <3>2, MadeStays
    <3>4. later[p] = q
      BY <1>4, <2>2, <3>1 DEF Extends
    <3> QED
      BY <3>3, <3>4
  <2> QED
    BY <1>4, <2>1, <2>2
<1>11. PICK t : t = frames'
  OBVIOUS
<1>12. /\ Len(t) = k /\ \A i \in 1..k - 1 : t[i] = frames[i]
       /\ t[k].pc # "compute"
  <2>1. /\ FramesInv' /\ Len(frames') = Len(frames)
        /\ \A i \in 1..Len(frames) - 1 : frames'[i] = frames[i]
        /\ frames'[Len(frames)].path = top.path
    BY <1>1, ComputeFrames
  <2>2. Recorded(t[k])'
    BY <1>2, <1>3, <1>11, <2>1 DEF FramesInv
  <2>3. t[k].path \in DOMAIN subgraph'
    BY <1>2, <1>4, <1>11, <2>1
  <2> QED
    BY <1>2, <1>11, <2>1, <2>2, <2>3 DEF Recorded
<1>13. ASSUME NEW i \in 1..Len(t)
       PROVE  Called(t[i])'
  <2>1. CASE i = k
    BY <1>12, <2>1 DEF Called
  <2>2. CASE i # k
    <3>1. i \in 1..k - 1 /\ i \in 1..Len(frames)
      BY <1>2, <1>3, <1>12, <2>2
    <3>2. PICK g : g = frames[i]
      OBVIOUS
    <3>3. Called(g)
      BY <3>1, <3>2 DEF SegmentsInv
    <3>4. Called(g)'
      BY <1>4, <3>3, CalledStays
    <3> QED
      BY <1>12, <3>1, <3>2, <3>4
  <2> QED
    BY <2>1, <2>2
<1> QED
  BY <1>10, <1>11, <1>13 DEF SegmentsInv

(* Where no subgraph is recorded, it is enough that the activations on the *)
(* stack are those before or called as they should be.                     *)
LEMMA SameSegments ==
  ASSUME SegmentsInv, plan' = plan, subgraph' = subgraph,
         \A i \in 1..Len(frames') : \/ i \in 1..Len(frames) /\ frames'[i] = frames[i]
                                    \/ frames'[i].pc # "compute" \/ Called(frames'[i])
  PROVE  SegmentsInv'
<1>1. Extends
  BY DEF Extends
<1>2. ASSUME NEW p \in DOMAIN subgraph
      PROVE  Made(p, subgraph[p])'
  <2>1. PICK q : q = subgraph[p]
    OBVIOUS
  <2>2. Made(p, q)
    BY <2>1 DEF SegmentsInv
  <2>3. Made(p, q)'
    BY <1>1, <2>2, MadeStays
  <2> QED
    BY <2>1, <2>3
<1>3. PICK t : t = frames'
  OBVIOUS
<1>4. ASSUME NEW i \in 1..Len(t)
      PROVE  Called(t[i])'
  <2>1. PICK g : g = t[i]
    OBVIOUS
  <2>2. Called(g)
    <3>1. CASE i \in 1..Len(frames) /\ t[i] = frames[i]
      BY <2>1, <3>1 DEF SegmentsInv
    <3>2. CASE t[i].pc # "compute"
      BY <2>1, <3>2 DEF Called
    <3>3. CASE Called(t[i])
      BY <2>1, <3>3
    <3> QED
      BY <1>3, <3>1, <3>2, <3>3
  <2>3. Called(g)'
    BY <1>1, <2>2, CalledStays
  <2> QED
    BY <2>1, <2>3
<1> QED
  BY <1>2, <1>3, <1>4 DEF SegmentsInv

(* The call for an outcome starts the walk at the node of that outcome.    *)
LEMMA DescendSegments ==
  ASSUME TreeInv, SegmentsInv, Building, NEW value \in BOOLEAN, NEW pc, Outcome(value, pc),
         NEW child \in Ends, \A r : r.node = top.node => child = Child(r, value),
         frames' = Append(SetPc(pc), Descend(value, child)),
         plan' = plan, subgraph' = subgraph
  PROVE  SegmentsInv'
<1>1. plan \in Plans /\ SubgraphsInv /\ FramesInv
  BY DEF TreeInv
<1>2. PICK f, P, n, s, t, x :
        /\ f = top /\ P = top.path /\ n = Len(frames) /\ s = frames /\ t = frames'
        /\ x = Descend(value, child)
  OBVIOUS
<1>3. child \in DOMAIN plan.nodes \union {nullptr}
  BY DEF Ends
<1>4. IsFrame(x) /\ x.path = Append(P, value)
  BY <1>1, <1>2, <1>3, DescendIs
<1>5. PICK at, e, t0 : x = Frame(at, e, child, t0)
  BY <1>2 DEF Descend
<1>6. x = Frame(x.path, x.init_state, child, x.t0)
  <2>1. x.path = at /\ x.init_state = e /\ x.t0 = t0
    BY <1>5 DEF Frame
  <2> QED
    BY <1>5, <2>1
<1>7. /\ n \in Nat \ {0} /\ IsFrame(f) /\ Recorded(f)
      /\ \A c : SetPc(c) = [s EXCEPT ![n] = [f EXCEPT !.pc = c]]
  BY <1>1, <1>2, TopIs
<1>8. /\ f.pc \in {"true", "false"} /\ pc \in {"false", "return"} /\ f.node # nullptr
      /\ f.path = P
  BY <1>2, <1>7 DEF Outcome, IsFrame
<1>9. Called(x)
  <2>1. P \in DOMAIN subgraph /\ subgraph[P].node = f.node
    BY <1>7, <1>8 DEF Recorded
  <2>2. child = Child(subgraph[P], value)
    BY <1>2, <2>1
  <2>3. StartsAt(x.path, child)
    BY <1>4, <1>8, <2>1, <2>2 DEF StartsAt
  <2> QED
    BY <1>6, <2>3 DEF Called
<1>10. PICK g : g = At(f, pc)
  OBVIOUS
<1>11. g = [f EXCEPT !.pc = pc] /\ g.pc = pc
  BY <1>7, <1>8, <1>10, AtIs
<1>12. t = Append([s EXCEPT ![n] = g], x)
  BY <1>2, <1>7, <1>11, Zenon
<1>13. Len(t) = n + 1 /\ t[n] = g /\ t[n + 1] = x /\ \A i \in 1..n - 1 : t[i] = s[i]
  <2>1. s \in Seq(Range(s)) /\ s # <<>>
    BY <1>1, <1>2 DEF FramesInv, Building
  <2>2. Len(s) = n
    BY <1>2
  <2>3. t = Append([s EXCEPT ![Len(s)] = g], x)
    BY <1>12, <2>2
  <2>4. Len(t) = Len(s) + 1
    BY <2>1, <2>3, Pushed
  <2>5. t[Len(s)] = g
    BY <2>1, <2>3, Pushed
  <2>6. t[Len(s) + 1] = x
    BY <2>1, <2>3, Pushed
  <2>7. \A i \in 1..Len(s) - 1 : t[i] = s[i]
    BY <2>1, <2>3, Pushed
  <2> QED
    BY <2>2, <2>4, <2>5, <2>6, <2>7
<1>14. ASSUME NEW i \in 1..Len(t)
       PROVE  \/ i \in 1..n /\ t[i] = s[i]
              \/ t[i].pc # "compute" \/ Called(t[i])
  <2>1. CASE i \in 1..n - 1
    BY <1>7, <1>13, <2>1
  <2>2. CASE i = n
    BY <1>8, <1>11, <1>13, <2>2
  <2>3. CASE i = n + 1
    BY <1>9, <1>13, <2>3
  <2> QED
    BY <1>7, <1>13, <2>1, <2>2, <2>3
<1> QED
  BY <1>2, <1>14, SameSegments

(* So do the two calls of build_cocg_subgraph.                             *)
LEMMA TraverseSegments ==
  ASSUME TreeInv, SegmentsInv, TraverseTruePart \/ TraverseFalsePart
  PROVE  SegmentsInv'
<1>1. plan \in Plans /\ FramesInv /\ Building /\ top.pc \in {"true", "false"}
  BY DEF TreeInv, TraverseTruePart, TraverseFalsePart
<1>2. PICK nodes, n : nodes = plan.nodes /\ n = top.node
  OBVIOUS
<1>3. IsFrame(top)
  BY <1>1, TopIs
<1>4. n \in DOMAIN nodes
  BY <1>1, <1>2, <1>3 DEF IsFrame, IsCall
<1>5. nodes[n].true_node \in Ends /\ nodes[n].false_node \in Ends
  BY <1>1, <1>2, <1>4, PlanAssumption DEF IsPlanTree, Ends
<1>6. CASE TraverseTruePart
  <2>1. PICK child : child = nodes[n].true_node
    OBVIOUS
  <2>2. Outcome(TRUE, "false")
    BY <1>6 DEF TraverseTruePart, Outcome
  <2>3. frames' = Append(SetPc("false"), Descend(TRUE, child))
    BY <1>2, <1>6, <2>1, Zenon DEF TraverseTruePart
  <2>4. plan' = plan /\ subgraph' = subgraph
    BY <1>6 DEF TraverseTruePart
  <2>5. \A r : r.node = top.node => child = Child(r, TRUE)
    BY <1>2, <2>1 DEF Child
  <2>6. child \in Ends
    BY <1>5, <2>1
  <2> QED
    BY <1>1, <2>2, <2>3, <2>4, <2>5, <2>6, DescendSegments, Zenon
<1>7. CASE TraverseFalsePart
  <2>1. PICK child : child = nodes[n].false_node
    OBVIOUS
  <2>2. Outcome(FALSE, "return")
    BY <1>7 DEF TraverseFalsePart, Outcome
  <2>3. frames' = Append(SetPc("return"), Descend(FALSE, child))
    BY <1>2, <1>7, <2>1, Zenon DEF TraverseFalsePart
  <2>4. plan' = plan /\ subgraph' = subgraph
    BY <1>7 DEF TraverseFalsePart
  <2>5. \A r : r.node = top.node => child = Child(r, FALSE)
    BY <1>2, <2>1 DEF Child
  <2>6. child \in Ends
    BY <1>5, <2>1
  <2> QED
    BY <1>1, <2>2, <2>3, <2>4, <2>5, <2>6, DescendSegments, Zenon
<1> QED
  BY <1>6, <1>7

(* Every step keeps the subgraphs made from the walks of the plan.         *)
LEMMA SegmentsNext ==
  ASSUME TreeInv, SegmentsInv, [Next]_vars
  PROVE  SegmentsInv'
<1>1. CASE ComputeLayers
  BY <1>1, ComputeSegments
<1>2. CASE TraverseTruePart \/ TraverseFalsePart
  BY <1>2, TraverseSegments
<1>3. CASE ReturnSubgraph
  <2>1. frames \in Seq(Range(frames)) /\ frames # <<>> /\ plan' = plan /\ subgraph' = subgraph
    BY <1>3 DEF TreeInv, FramesInv, ReturnSubgraph, Building
  <2>2. PICK s, t : s = frames /\ t = frames'
    OBVIOUS
  <2>3. t = SubSeq(s, 1, Len(s) - 1)
    BY <1>3, <2>2 DEF ReturnSubgraph, ReturnFrom
  <2>4. Len(s) \in Nat \ {0}
    BY <2>1, <2>2, <2>3, Popped
  <2>5. Len(t) = Len(s) - 1
    BY <2>1, <2>2, <2>3, Popped
  <2>6. \A i \in 1..Len(s) - 1 : t[i] = s[i]
    BY <2>1, <2>2, <2>3, Popped
  <2>7. \A i \in 1..Len(t) : i \in 1..Len(s) /\ t[i] = s[i]
    BY <2>4, <2>5, <2>6
  <2> QED
    BY <2>1, <2>2, <2>7, SameSegments
<1>4. CASE UNCHANGED <<plan, buildVars>>
  <2>1. plan' = plan /\ subgraph' = subgraph /\ frames' = frames
    BY <1>4 DEF buildVars
  <2> QED
    BY <2>1, SameSegments
<1>5. StartLayer \/ Perform \/ Sense \/ UNCHANGED vars => UNCHANGED <<plan, buildVars>>
  BY DEF StartLayer, Perform, Sense, vars
<1> QED
  BY <1>1, <1>2, <1>3, <1>4, <1>5 DEF Next, build_cocg_subgraph

(* A subgraph starts at one node of the plan.                              *)
LEMMA StartsOnce ==
  ASSUME SubgraphsInv, NEW p, NEW n, NEW m, StartsAt(p, n), StartsAt(p, m)
  PROVE  n = m
<1>1. \A q \in DOMAIN subgraph : q \in Seq(BOOLEAN)
  BY DEF SubgraphsInv, IsSubgraph
<1>2. CASE p = root
  <2>1. ASSUME NEW q \in DOMAIN subgraph, NEW value \in BOOLEAN
        PROVE  root # Append(q, value)
    BY <1>1, PathGrows
  <2> QED
    BY <1>2, <2>1 DEF StartsAt
<1>3. CASE p # root
  <2>1. PICK q \in DOMAIN subgraph, v \in BOOLEAN : p = Append(q, v) /\ n = Child(subgraph[q], v)
    BY <1>3 DEF StartsAt
  <2>2. PICK r \in DOMAIN subgraph, w \in BOOLEAN : p = Append(r, w) /\ m = Child(subgraph[r], w)
    BY <1>3 DEF StartsAt
  <2>3. q = r /\ v = w
    <3>1. Append(q, v) = Append(r, w)
      BY <2>1, <2>2, Zenon
    <3> QED
      BY <1>1, <3>1, PathTells, Zenon
  <2> QED
    BY <2>1, <2>2, <2>3, Zenon
<1> QED
  BY <1>2, <1>3

(* The layers of a segment are of its actions, no more than they are.      *)
LEMMA LayersOfWalk ==
  ASSUME plan \in Plans, NEW n \in Ends, NEW r, MadeFrom(r, n)
  PROVE  /\ Len(MidActions(n)) \in Nat /\ Len(r.actions_layers) \in Nat
         /\ Len(r.actions_layers) <= Len(MidActions(n))
         /\ \A k \in 1..Len(r.actions_layers) : r.actions_layers[k] \subseteq Range(MidActions(n))
<1>1. PICK acts, ls, known, goals :
        /\ acts = MidActions(n) /\ ls = r.actions_layers
        /\ known = r.init.predicates /\ goals = r.goal.predicates
  OBVIOUS
<1>2. acts \in Seq(ActionNames)
  BY <1>1, WalkIs DEF Ends
<1>3. Len(acts) \in Nat
  BY <1>2
<1>4. ls \in SegmentLayers(known, acts, goals)
  BY <1>1 DEF MadeFrom
<1>5. \/ ls = NoLayers
      \/ Performable(ls, known, acts) /\ Len(ls) <= Len(acts)
  BY <1>3, <1>4, SegmentLayersExact
<1>6. CASE ls = NoLayers
  <2>1. Len(ls) = 0
    BY <1>6 DEF NoLayers
  <2> QED
    BY <1>1, <1>3, <2>1
<1>7. CASE Performable(ls, known, acts) /\ Len(ls) <= Len(acts)
  BY <1>1, <1>3, <1>7 DEF Performable
<1> QED
  BY <1>5, <1>6, <1>7

(* Where what is observed is open until then, the layers leave alone what  *)
(* is still to be observed.                                                *)
LEMMA OpenIsKnown ==
  ASSUME TreeInv, SegmentsInv, ObservesOpen
  PROVE  ActsOnKnown
<1> SUFFICES ASSUME NEW p \in DOMAIN subgraph, NEW k \in 1..Len(subgraph[p].actions_layers),
                    NEW a \in subgraph[p].actions_layers[k], NEW f \in Eff[a],
                    NEW o \in subgraph[p].init.oneofs
             PROVE  <<f[1], "+">> \notin o
  BY DEF ActsOnKnown
<1>1. PICK r : r = subgraph[p]
  OBVIOUS
<1>2. PICK n \in Ends : StartsAt(p, n) /\ MadeFrom(r, n)
  BY <1>1 DEF SegmentsInv, Made
<1>3. a \in Range(MidActions(n))
  BY <1>1, <1>2, LayersOfWalk DEF TreeInv
<1>4. <<f[1], "+">> \notin UNION r.init.oneofs
  BY <1>1, <1>2, <1>3 DEF ObservesOpen
<1> QED
  BY <1>1, <1>4

(* An observation opens nothing: what a oneof lists after it, one lists    *)
(* before.                                                                 *)
LEMMA SensingCloses ==
  ASSUME NEW e, NEW p, NEW value
  PROVE  UNION AfterSensing(e, p, value).oneofs \subseteq UNION e.oneofs
<1>1. PICK later : later = AfterSensing(e, p, value)
  OBVIOUS
<1>2. CASE p \notin e.unknowns
  BY <1>2 DEF AfterSensing
<1>3. CASE p \in e.unknowns
  <2>1. PICK s : s = Settled(e, p, value)
    OBVIOUS
  <2>2. later.oneofs = {o \ s.false : o \in {q \in e.oneofs : q \intersect s.true = {}}}
    BY <1>1, <1>3, <2>1 DEF AfterSensing
  <2> QED
    BY <1>1, <2>2
<1> QED
  BY <1>2, <1>3
------------------------------------------------------------------------------
(* At the start the world has not changed.                                 *)
LEMMA AlongsideInit ==
  ASSUME Init
  PROVE  AlongsideInv
<1>1. PICK w \in Worlds(plan.expert) : world = [now |-> w, start |-> w]
  BY DEF Init
<1>2. Building
  BY DEF Init, Building
<1> QED
  BY <1>1, <1>2 DEF AlongsideInv

(* When the tree is built, both begin at the root of the plan, in the world*)
(* as it was at the start.                                                 *)
LEMMA BuiltAlongside ==
  ASSUME TreeInv, TreeInv', WorldInv, AlongsideInv, build_cocg_subgraph
  PROVE  AlongsideInv'
<1>1. Building /\ plan' = plan /\ world' = world
  BY DEF build_cocg_subgraph, ComputeLayers, TraverseTruePart, TraverseFalsePart, ReturnSubgraph, execVars
<1>2. path' = root
  <2>1. path = root /\ path' = path
    BY <1>1 DEF TreeInv, ExecInv, build_cocg_subgraph, ComputeLayers, TraverseTruePart,
                TraverseFalsePart, ReturnSubgraph, execVars
  <2> QED
    BY <2>1
<1>3. world.start = world.now /\ world.now \in SUBSET Positive
  BY <1>1 DEF AlongsideInv, WorldInv
<1>4. CASE Building'
  BY <1>1, <1>3, <1>4 DEF AlongsideInv
<1>5. CASE ~Building'
  <2>1. PICK n, s, k : n = Root /\ s = world.start /\ k = 0
    OBVIOUS
  <2>2. (SubgraphsInv /\ root \in DOMAIN subgraph =>
           subgraph[root].t0 = 0 /\ subgraph[root].init = plan.expert)'
    BY RootIs, PTL
  <2>3. SubgraphsInv' /\ root \in DOMAIN subgraph' /\ root' = root
    BY <1>2, <1>5 DEF TreeInv, ExecInv, root
  <2>4. here'.t0 = 0
    BY <1>2, <2>2, <2>3 DEF here
  <2>5. StartsAt(path, n)'
    BY <1>2, <2>1, <2>3 DEF StartsAt, Root
  <2>6. Sequential' = SequentialFrom(n, s, k)'
    BY <1>1, <2>1 DEF Sequential, Root
  <2>7. n \in Ends'
    <3>1. IsPlanTree(plan.nodes)
      BY PlanAssumption DEF TreeInv
    <3> QED
      BY <1>1, <2>1, <3>1 DEF IsPlanTree, Ends
  <2>8. Alongside(n, s, k)'
    <3>1. here.t0' <= k
      BY <2>1, <2>4
    <3>2. \A f \in UNION here.init.oneofs' : f \in s <=> f \in world.now'
      BY <1>1, <1>3, <2>1
    <3>3. \A f \in s : f \in world.now'
      BY <1>1, <1>3, <2>1
    <3> QED
      BY <2>5, <2>6, <3>1, <3>2, <3>3 DEF Alongside
  <2>9. s \in SUBSET Positive /\ k \in Nat
    BY <1>3, <2>1
  <2> QED
    BY <1>5, <2>7, <2>8, <2>9 DEF AlongsideInv
<1> QED
  BY <1>4, <1>5

(* A step within a subgraph keeps the two together that keeps what is      *)
(* observed later, and what the actions of the walk do not delete.         *)
LEMMA AlongsideWithin ==
  ASSUME ~Building, plan' = plan, buildVars' = buildVars, path' = path,
         world'.start = world.start, path \in Seq(BOOLEAN),
         NEW n, NEW s, NEW k, Alongside(n, s, k),
         \A f \in UNION here.init.oneofs : f \in world.now <=> f \in world'.now,
         \A f \in world.now : (\A a \in Range(MidActions(n)) : <<f[1], "-">> \notin Eff[a]) => f \in world'.now
  PROVE  Alongside(n, s, k)'
<1>1. subgraph' = subgraph /\ here' = here
  BY DEF buildVars, here
<1>2. StartsAt(path, n)'
  <2>1. Extends
    BY <1>1 DEF Extends
  <2>2. PICK p : p = path
    OBVIOUS
  <2>3. StartsAt(p, n)
    BY <2>2 DEF Alongside
  <2>4. StartsAt(p, n)'
    BY <2>1, <2>3, StartsStays
  <2> QED
    BY <2>2, <2>4
<1>3. Sequential' = SequentialFrom(n, s, k)'
  <2>1. SequentialFrom(n, s, k)' = SequentialFrom(n, s, k)
    BY DEF SequentialFrom
  <2>2. Sequential' = Sequential
    BY DEF Sequential, SequentialFrom, Root
  <2> QED
    BY <2>1, <2>2 DEF Alongside
<1>4. here'.t0 <= k
  BY <1>1 DEF Alongside
<1>5. \A f \in UNION here'.init.oneofs : f \in s <=> f \in world'.now
  BY <1>1 DEF Alongside
<1>6. ASSUME ~GaveUp'
      PROVE  \A f \in s : (\A a \in Range(MidActions(n)') : <<f[1], "-">> \notin Eff[a]) => f \in world'.now
  <2>1. ~GaveUp
    BY <1>1, <1>6, GaveUpStays
  <2>2. MidActions(n)' = MidActions(n)
    BY DEF MidActions
  <2> QED
    BY <2>1, <2>2 DEF Alongside
<1> QED
  BY <1>2, <1>3, <1>4, <1>5, <1>6 DEF Alongside

(* Which node of the plan the subgraph that is executed starts at.         *)
LEMMA HereStarts ==
  ASSUME TreeInv, SegmentsInv, ~Building, NEW n, StartsAt(path, n)
  PROVE  n \in Ends /\ MadeFrom(here, n)
<1>1. PICK r : r = here
  OBVIOUS
<1>2. path \in DOMAIN subgraph /\ r = subgraph[path]
  BY <1>1, HereIs DEF here
<1>3. PICK m \in Ends : StartsAt(path, m) /\ MadeFrom(r, m)
  BY <1>2 DEF SegmentsInv, Made
<1>4. n = m
  BY <1>3, StartsOnce DEF TreeInv
<1> QED
  BY <1>1, <1>3, <1>4

(* Performing an action of the walk keeps the world alongside the plan.    *)
LEMMA PerformAlongside ==
  ASSUME TreeInv, WorldInv, SegmentsInv, ObservesOpen, AlongsideInv, Perform
  PROVE  AlongsideInv'
<1>1. PICK a \in pending : world' = [world EXCEPT !.now = apply_actuation_action(@, a)]
  BY DEF Perform
<1>2. plan' = plan /\ buildVars' = buildVars /\ path' = path /\ frames' = frames
  BY DEF Perform, buildVars
<1>3. PICK r, w, u : r = here /\ w = world.now /\ u = apply_actuation_action(w, a)
  OBVIOUS
<1>4. /\ ~Building /\ slot \in 1..Len(r.actions_layers) /\ a \in r.actions_layers[slot]
  BY <1>3, PendingIs
<1>5. path \in DOMAIN subgraph /\ path \in Seq(BOOLEAN) /\ r = subgraph[path]
  BY <1>3, <1>4, HereIs DEF here
<1>6. PICK n \in Ends, s \in SUBSET Positive, k \in Nat : Alongside(n, s, k)
  BY <1>4 DEF AlongsideInv
<1>7. StartsAt(path, n)
  BY <1>6 DEF Alongside
<1>8. a \in Range(MidActions(n))
  <2>1. MadeFrom(r, n)
    BY <1>3, <1>4, <1>7, HereStarts
  <2> QED
    BY <1>4, <2>1, LayersOfWalk DEF TreeInv
<1>9. w \in SUBSET Positive /\ world = [now |-> w, start |-> world.start]
  BY <1>3 DEF WorldInv
<1>10. world' = [now |-> u, start |-> world.start]
  <2>1. world' = [world EXCEPT !.now = u]
    BY <1>1, <1>3
  <2> QED
    BY <1>9, <2>1
<1>11. PICK o : o = UNION r.init.oneofs
  OBVIOUS
<1>12. u \intersect o = w \intersect o
  <2>1. \A f \in Eff[a] : <<f[1], "+">> \notin o
    BY <1>5, <1>7, <1>8, <1>11 DEF ObservesOpen
  <2> QED
    BY <1>3, <1>9, <2>1, PerformLeaves
<1>13. ASSUME NEW f \in w, \A b \in Range(MidActions(n)) : <<f[1], "-">> \notin Eff[b]
       PROVE  f \in u
  BY <1>3, <1>8, <1>13 DEF apply_actuation_action
<1>14. Alongside(n, s, k)'
  <2>1. \A f \in UNION here.init.oneofs : f \in world.now <=> f \in world'.now
    BY <1>3, <1>10, <1>11, <1>12
  <2>2. \A f \in world.now :
          (\A b \in Range(MidActions(n)) : <<f[1], "-">> \notin Eff[b]) => f \in world'.now
    BY <1>3, <1>10, <1>13
  <2>3. world'.start = world.start
    BY <1>10
  <2> QED
    BY <1>2, <1>4, <1>5, <1>6, <2>1, <2>2, <2>3, AlongsideWithin
<1>15. n \in Ends' /\ ~Building'
  BY <1>2, <1>4 DEF Ends, Building
<1> QED
  BY <1>14, <1>15 DEF AlongsideInv

(* When the layers of a subgraph have been performed, the contingent plan  *)
(* has come to its last node, with t true after j steps.                   *)
Arrived(t, j) ==
  /\ Sequential = SequentialFrom(here.node, t, j)
  /\ here.t0 + Len(here.actions_layers) <= j
  /\ \A f \in UNION here.init.oneofs : f \in t <=> f \in world.now
  /\ ~GaveUp => t \subseteq world.now

(* All of that is then true in the world, unless a segment was given up.   *)
LEMMA WalkDone ==
  ASSUME TreeInv, WorldInv, SegmentsInv, ObservesOpen, AlongsideInv,
         ~Building, pending = {}, slot = Len(here.actions_layers)
  PROVE  \E t \in SUBSET Positive : \E j \in Nat : Arrived(t, j)
<1>1. PICK n \in Ends, s \in SUBSET Positive, k \in Nat : Alongside(n, s, k)
  BY DEF AlongsideInv
<1>2. PICK r, w, acts, known :
        r = here /\ w = world.now /\ acts = MidActions(n) /\ known = here.init.predicates
  OBVIOUS
<1>3. plan \in Plans /\ path \in DOMAIN subgraph /\ r = subgraph[path] /\ StartsAt(path, n)
  BY <1>1, <1>2, HereIs DEF TreeInv, here, Alongside
<1>4. MadeFrom(r, n)
  BY <1>2, <1>3, HereStarts
<1>5. Len(acts) \in Nat /\ Len(r.actions_layers) \in Nat /\ Len(r.actions_layers) <= Len(acts)
  BY <1>2, <1>3, <1>4, LayersOfWalk
<1>6. PICK t, j : t = TraversedState(s, acts) /\ j = k + Len(acts)
  OBVIOUS
<1>7. t \in SUBSET Positive /\ j \in Nat
  BY <1>5, <1>6, TraversedPositive
<1>8. Sequential = SequentialFrom(r.node, t, j)
  <2>1. Comes(n, s, k)
    BY <1>3, SequentialWalks
  <2>2. Sequential = SequentialFrom(n, s, k)
    BY <1>1 DEF Alongside
  <2> QED
    BY <1>2, <1>4, <1>6, <2>1, <2>2 DEF Comes, MadeFrom
<1>9. r.t0 + Len(r.actions_layers) <= j
  <2>1. r.t0 \in Nat
    BY <1>3 DEF TreeInv, SubgraphsInv, IsSubgraph, IsCall
  <2>2. r.t0 <= k
    BY <1>1, <1>2 DEF Alongside
  <2> QED
    BY <1>5, <1>6, <2>1, <2>2
<1>10. ASSUME NEW f \in UNION r.init.oneofs
       PROVE  f \in t <=> f \in w
  <2>1. f \in s <=> f \in w
    BY <1>1, <1>2 DEF Alongside
  <2>2. CASE f \in Positive
    <3>1. PICK x \in Atoms : f = <<x, "+">>
      BY <2>2 DEF Positive
    <3>2. ASSUME NEW i \in 1..Len(acts), NEW g \in Eff[acts[i]]
          PROVE  g[1] # f[1]
      <4>1. acts[i] \in Range(acts)
        <5>1. DOMAIN acts = 1..Len(acts)
          BY <1>2, <1>3, WalkIs DEF Ends
        <5> QED
          BY <5>1 DEF Range
      <4>2. <<g[1], "+">> \notin UNION r.init.oneofs
        BY <1>2, <1>3, <4>1 DEF ObservesOpen
      <4> QED
        BY <3>1, <4>2
    <3> QED
      BY <1>5, <1>6, <2>1, <2>2, <3>2, TraversedLeaves
  <2>3. CASE f \notin Positive
    BY <1>7, <2>1, <2>3
  <2> QED
    BY <2>2, <2>3
<1>11. ASSUME ~GaveUp, NEW f \in t
       PROVE  f \in w
  <2>1. \/ f \in TraversedState(known, acts)
        \/ f \in s /\ \A i \in 1..Len(acts) : <<f[1], "-">> \notin Eff[acts[i]]
    BY <1>5, <1>6, TraversedFromTwo
  <2>2. CASE f \in TraversedState(known, acts)
    <3>1. PICK init : init = r.init
      OBVIOUS
    <3>2. init = [predicates |-> init.predicates, unknowns |-> init.unknowns, oneofs |-> init.oneofs]
      BY <1>3, <3>1 DEF TreeInv, SubgraphsInv, IsSubgraph, IsCall, Contents
    <3>3. r.goal = [init EXCEPT !.predicates = TraversedState(known, acts)]
      BY <1>2, <1>4, <3>1 DEF MadeFrom, GoalState
    <3>4. r.goal.predicates = TraversedState(known, acts)
      BY <3>2, <3>3
    <3>5. TrueIn(r.goal, w)
      BY <1>2, <1>11, GoalIsReached
    <3> QED
      BY <2>2, <3>4, <3>5 DEF TrueIn
  <2>3. CASE f \in s /\ \A i \in 1..Len(acts) : <<f[1], "-">> \notin Eff[acts[i]]
    <3>1. \A a \in Range(acts) : <<f[1], "-">> \notin Eff[a]
      <4>1. DOMAIN acts = 1..Len(acts)
        BY <1>2, <1>3, WalkIs DEF Ends
      <4> QED
        BY <2>3, <4>1 DEF Range
    <3> QED
      BY <1>1, <1>2, <1>11, <2>3, <3>1 DEF Alongside
  <2> QED
    BY <2>1, <2>2, <2>3
<1>12. Arrived(t, j)
  BY <1>2, <1>8, <1>9, <1>10, <1>11 DEF Arrived
<1> QED
  BY <1>7, <1>12

(* Observing: the plan goes on to the node for the outcome, as the         *)
(* execution does.                                                         *)
LEMMA SenseAlongside ==
  ASSUME TreeInv, TreeInv', WorldInv, SegmentsInv, ObservesOpen, AlongsideInv, Sense
  PROVE  AlongsideInv'
<1>1. /\ ~Building /\ pending = {} /\ slot = Len(here.actions_layers) /\ here.node # nullptr
      /\ plan' = plan /\ frames' = frames /\ subgraph' = subgraph /\ world' = world
  BY DEF Sense, buildVars
<1>2. PICK t \in SUBSET Positive, j \in Nat : Arrived(t, j)
  BY <1>1, WalkDone
<1>3. PICK r, w, p, nodes :
        r = here /\ w = world.now /\ p = observe(plan.nodes, r.node) /\ nodes = plan.nodes
  OBVIOUS
<1>4. PICK v \in BOOLEAN : (v <=> p \in w) /\ path' = Append(path, v)
  BY <1>3, SenseIs
<1>5. /\ path \in DOMAIN subgraph /\ path \in Seq(BOOLEAN) /\ r = subgraph[path]
      /\ r.goal.oneofs = r.init.oneofs
  BY <1>1, <1>3, HereIs DEF here
<1>6. PICK n \in Ends : StartsAt(path, n) /\ MadeFrom(r, n)
  BY <1>3, <1>5 DEF SegmentsInv, Made
<1>7. r.node \in DOMAIN nodes /\ r.node \in Ends /\ IsSensing(nodes, r.node)
  <2>1. IsPlanTree(nodes) /\ r.node = StopNode(nodes, n)
    BY <1>3, <1>6, PlanAssumption DEF TreeInv, MadeFrom
  <2>2. r.node \in DOMAIN nodes \union {nullptr} /\ Stops(nodes, r.node)
    BY <1>3, <2>1, StopNodeStops DEF Ends
  <2> QED
    BY <1>1, <1>3, <2>2 DEF Stops, Ends
<1>8. PICK child : child = Child(r, v)
  OBVIOUS
<1>9. child \in Ends
  <2>1. IsPlanTree(nodes)
    BY <1>3, PlanAssumption DEF TreeInv
  <2> QED
    BY <1>3, <1>7, <1>8, <2>1 DEF IsPlanTree, Child, Ends
<1>10. p \in t <=> p \in w
  <2>1. p \in UNION r.init.oneofs
    BY <1>1, <1>3, <1>5, <1>6 DEF ObservesOpen
  <2> QED
    BY <1>2, <1>3, <2>1 DEF Arrived
<1>11. Sequential = SequentialFrom(child, t, j + 1)
  <2>1. GoesOn(r.node, t, j)
    BY <1>7, SequentialStep DEF TreeInv
  <2>2. SequentialFrom(r.node, t, j)
          = SequentialFrom(IF p \in t THEN nodes[r.node].true_node ELSE nodes[r.node].false_node, t, j + 1)
    BY <1>1, <1>3, <1>7, <2>1 DEF GoesOn
  <2>3. child = IF p \in t THEN nodes[r.node].true_node ELSE nodes[r.node].false_node
    BY <1>3, <1>4, <1>8, <1>10 DEF Child
  <2>4. Sequential = SequentialFrom(r.node, t, j)
    BY <1>2, <1>3 DEF Arrived
  <2> QED
    BY <2>2, <2>3, <2>4
<1>12. PICK x : x = path'
  OBVIOUS
<1>13. ~Building' /\ (GaveUp => GaveUp')
  BY <1>1, <1>4, <1>5, GaveUpStays DEF Building
<1>14. x \in DOMAIN subgraph /\ x = Append(path, v) /\ here' = subgraph[x]
  BY <1>1, <1>4, <1>12, <1>13 DEF TreeInv, ExecInv, here
<1>15. StartsAt(path, child)'
  <2>1. StartsAt(x, child)
    BY <1>1, <1>3, <1>5, <1>8, <1>14 DEF StartsAt
  <2>2. Extends
    BY <1>1 DEF Extends
  <2>3. StartsAt(x, child)'
    BY <2>1, <2>2, StartsStays
  <2> QED
    BY <1>12, <2>3
<1>16. Follows(r, v, subgraph[x].t0, subgraph[x].init)
  <2>1. EnteredAs(x, subgraph[x].t0, subgraph[x].init)
    BY <1>14 DEF TreeInv, SubgraphsInv, IsSubgraph
  <2>2. x # root
    BY <1>5, <1>14, PathGrows
  <2>3. PICK q \in DOMAIN subgraph, value \in BOOLEAN :
          x = Append(q, value) /\ Follows(subgraph[q], value, subgraph[x].t0, subgraph[x].init)
    BY <2>1, <2>2 DEF EnteredAs
  <2>4. q = path /\ value = v
    <3>1. q \in Seq(BOOLEAN)
      BY DEF TreeInv, SubgraphsInv, IsSubgraph
    <3>2. Append(path, v) = Append(q, value)
      BY <1>14, <2>3, Zenon
    <3> QED
      BY <1>5, <3>1, <3>2, PathTells, Zenon
  <2> QED
    BY <1>5, <2>3, <2>4, Zenon
<1>17. PICK e : e = subgraph[x].init
  OBVIOUS
<1>18. UNION e.oneofs \subseteq UNION r.init.oneofs
  <2>1. e = AfterSensing(r.goal, p, v)
    BY <1>3, <1>16, <1>17, Zenon DEF Follows
  <2>2. UNION e.oneofs \subseteq UNION r.goal.oneofs
    BY <2>1, SensingCloses
  <2> QED
    BY <1>5, <2>2
<1>19. subgraph[x].t0 <= j + 1
  <2>1. subgraph[x].t0 = r.t0 + LayersCnt(r.actions_layers)
    BY <1>16, Zenon DEF Follows
  <2>2. r.t0 \in Nat /\ Len(r.actions_layers) \in Nat
    BY <1>5 DEF TreeInv, SubgraphsInv, IsSubgraph, IsCall
  <2>3. r.t0 + Len(r.actions_layers) <= j
    BY <1>2, <1>3 DEF Arrived
  <2> QED
    BY <2>1, <2>2, <2>3 DEF LayersCnt
<1>20. Alongside(child, t, j + 1)'
  <2>1. Sequential' = SequentialFrom(child, t, j + 1)'
    <3>1. SequentialFrom(child, t, j + 1)' = SequentialFrom(child, t, j + 1)
      BY <1>1 DEF SequentialFrom
    <3>2. Sequential' = Sequential
      BY <1>1 DEF Sequential, SequentialFrom, Root
    <3> QED
      BY <1>11, <3>1, <3>2
  <2>2. here'.t0 <= j + 1
    BY <1>14, <1>19
  <2>3. \A f \in UNION here'.init.oneofs : f \in t <=> f \in world'.now
    BY <1>1, <1>2, <1>3, <1>14, <1>17, <1>18 DEF Arrived
  <2>4. ~GaveUp' => t \subseteq world'.now
    BY <1>1, <1>2, <1>13 DEF Arrived
  <2> QED
    BY <1>15, <2>1, <2>2, <2>3, <2>4 DEF Alongside
<1>21. child \in Ends' /\ j + 1 \in Nat
  BY <1>1, <1>9 DEF Ends
<1> QED
  BY <1>13, <1>20, <1>21 DEF AlongsideInv

(* Every step keeps the execution alongside the contingent plan.           *)
LEMMA AlongsideNext ==
  ASSUME TreeInv, TreeInv', WorldInv, SegmentsInv, ObservesOpen, AlongsideInv, [Next]_vars
  PROVE  AlongsideInv'
<1>1. CASE build_cocg_subgraph
  BY <1>1, BuiltAlongside
<1>2. CASE Perform
  BY <1>2, PerformAlongside
<1>3. CASE Sense
  BY <1>3, SenseAlongside
<1>4. CASE StartLayer \/ UNCHANGED vars
  <2>1. plan' = plan /\ buildVars' = buildVars /\ frames' = frames /\ path' = path /\ world' = world
    BY <1>4 DEF StartLayer, vars, buildVars, execVars
  <2>2. CASE Building
    BY <2>1, <2>2 DEF AlongsideInv, Building
  <2>3. CASE ~Building
    <3>1. PICK n \in Ends, s \in SUBSET Positive, k \in Nat : Alongside(n, s, k)
      BY <2>3 DEF AlongsideInv
    <3>2. path \in Seq(BOOLEAN)
      BY <2>3, HereIs
    <3>3. Alongside(n, s, k)'
      BY <2>1, <2>3, <3>1, <3>2, AlongsideWithin
    <3>4. n \in Ends' /\ ~Building'
      BY <2>1, <2>3 DEF Ends, Building
    <3> QED
      BY <3>3, <3>4 DEF AlongsideInv
  <2> QED
    BY <2>2, <2>3
<1> QED
  BY <1>1, <1>2, <1>3, <1>4 DEF Next

(* The facts and the steps of the contingent plan at the end of a branch.  *)
LEMMA FinishedAlongside ==
  ASSUME TreeInv, WorldInv, SegmentsInv, ObservesOpen, AlongsideInv, Finished
  PROVE  NeverSlower /\ EndsLikeContingentPlan
<1>1. ~Building /\ pending = {} /\ slot = Len(here.actions_layers) /\ here.node = nullptr
  BY DEF Finished
<1>2. PICK t \in SUBSET Positive, j \in Nat : Arrived(t, j)
  BY <1>1, WalkDone
<1>3. Sequential = [facts |-> t, steps |-> j]
  <2>1. PICK n : n = nullptr
    OBVIOUS
  <2>2. GoesOn(n, t, j)
    BY <2>1, SequentialStep DEF TreeInv, Ends
  <2>3. SequentialFrom(n, t, j) = [facts |-> t, steps |-> j]
    BY <2>1, <2>2 DEF GoesOn
  <2> QED
    BY <1>1, <1>2, <2>1, <2>3 DEF Arrived
<1>4. Sequential.facts = t /\ Sequential.steps = j
  BY <1>3
<1>5. clock <= j
  <2>1. clock = here.t0 + slot
    BY <1>1 DEF TreeInv, ExecInv
  <2> QED
    BY <1>1, <1>2, <2>1 DEF Arrived
<1>6. ~GaveUp => t \subseteq world.now
  BY <1>2 DEF Arrived
<1> QED
  BY <1>4, <1>5, <1>6 DEF NeverSlower, EndsLikeContingentPlan

(* Where what is observed is open until it is observed, the execution ends *)
(* with everything true that the contingent plan, executed one action per  *)
(* time step, makes true in the same world, unless a segment of the branch *)
(* was given up: the layers change the order of the actions and not what   *)
(* comes of them, and both observe the same.                               *)
THEOREM EndsLikeThePlan == Spec /\ []ObservesOpen => []EndsLikeContingentPlan
<1>1. TreeInv /\ WorldInv /\ SegmentsInv /\ ObservesOpen /\ AlongsideInv => EndsLikeContingentPlan
  BY FinishedAlongside DEF EndsLikeContingentPlan
<1> QED
  BY <1>1, TreeInit, TreeNext, WorldInit, WorldNext, SegmentsInit, SegmentsNext, OpenIsKnown,
     AlongsideInit, AlongsideNext, PTL DEF Spec

(* ... and it takes no more time steps, on any branch.                     *)
THEOREM NeverSlowerThanPlan == Spec /\ []ObservesOpen => []NeverSlower
<1>1. TreeInv /\ WorldInv /\ SegmentsInv /\ ObservesOpen /\ AlongsideInv => NeverSlower
  BY FinishedAlongside DEF NeverSlower
<1> QED
  BY <1>1, TreeInit, TreeNext, WorldInit, WorldNext, SegmentsInit, SegmentsNext, OpenIsKnown,
     AlongsideInit, AlongsideNext, PTL DEF Spec
==============================================================================
