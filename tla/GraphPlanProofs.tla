---------------------------- MODULE GraphPlanProofs ----------------------------
(***************************************************************************)
(* Facts about the planning graph for every domain, every segment and      *)
(* every number of layers: what create_graph_layer preserves, and how two  *)
(* successive layers compare.  The proofs about the modules that grow the  *)
(* graph rest on them.                                                     *)
(***************************************************************************)
EXTENDS GraphPlan, TLAPS

USE DomainAssumption, SegmentAssumption

(* PushBack is vector::push_back: it adds one element and keeps the others.*)
LEMMA PushBackType ==
  ASSUME NEW S, NEW v \in [0..layers - 1 -> S], NEW x \in S, layers \in Nat \ {0}
  PROVE  /\ PushBack(v, x) \in [0..(layers + 1) - 1 -> S]
         /\ PushBack(v, x)[layers] = x
         /\ \A i \in 0..layers - 1 : PushBack(v, x)[i] = v[i]
  BY DEF PushBack

(* The nodes and mutexes create_graph_layer computes are well typed.       *)
LEMMA NextLayerTypes ==
  ASSUME NEW facts \in SUBSET Literal, NEW mutex, actions \in Seq(ActionNames)
  PROVE  /\ NextActionLayer(facts, mutex) \in SUBSET Node
         /\ \A nodes \in SUBSET Node : NextStateLayer(facts, nodes) \in SUBSET Literal
<1>1. Range(actions) \subseteq ActionNames
  BY DEF Range
<1>2. \A n \in Node : effect_facts(n) \subseteq Literal
  BY DEF Node, effect_facts, IsNoop, Noop, Act
<1> QED
  BY <1>1, <1>2 DEF NextActionLayer, NextStateLayer, Applicable, Node

(* create_graph_layer keeps the graph well typed.                          *)
LEMMA GrowType ==
  ASSUME TypeOK, create_graph_layer, actions' = actions, goals' = goals, phase' \in Phases
  PROVE  TypeOK'
<1> DEFINE cur   == layers - 1
           nodes == NextActionLayer(state_layers[cur], state_mutex_layers[cur])
           facts == NextStateLayer(state_layers[cur], nodes)
           amx   == NextActionMutex(nodes, state_mutex_layers[cur])
           smx   == NextStateMutex(facts, nodes, amx)
<1>0. cur \in 0..layers - 1 /\ layers \in Nat \ {0}
  BY DEF TypeOK
<1>1. state_layers[cur] \in SUBSET Literal
  BY <1>0 DEF TypeOK
<1>2. nodes \in SUBSET Node
  BY <1>1, NextLayerTypes DEF TypeOK
<1>3. facts \in SUBSET Literal
  BY <1>1, <1>2, NextLayerTypes DEF TypeOK
<1>4. amx \in SUBSET (Node \X Node)
  BY <1>2 DEF NextActionMutex
<1>5. smx \in SUBSET (Literal \X Literal)
  BY <1>3 DEF NextStateMutex
<1>6. /\ layers' = layers + 1
      /\ state_layers' = PushBack(state_layers, facts)
      /\ action_layers' = PushBack(action_layers, nodes)
      /\ state_mutex_layers' = PushBack(state_mutex_layers, smx)
      /\ action_mutex_layers' = PushBack(action_mutex_layers, amx)
  BY DEF create_graph_layer
<1> HIDE DEF cur, nodes, facts, amx, smx
<1>7. /\ state_layers' \in [0..layers' - 1 -> SUBSET Literal]
      /\ action_layers' \in [0..layers' - 1 -> SUBSET Node]
      /\ state_mutex_layers' \in [0..layers' - 1 -> SUBSET (Literal \X Literal)]
      /\ action_mutex_layers' \in [0..layers' - 1 -> SUBSET (Node \X Node)]
  BY <1>0, <1>2, <1>3, <1>4, <1>5, <1>6, PushBackType DEF TypeOK
<1> QED
  BY <1>0, <1>6, <1>7 DEF TypeOK

(* Growing the graph keeps its shape: the new layer follows from the last  *)
(* one, and no existing layer is touched.                                  *)
LEMMA GrowShape ==
  ASSUME TypeOK, GraphShape, create_graph_layer, actions' = actions
  PROVE  /\ GraphShape'
         /\ \A k \in 0..layers - 1 : /\ state_layers'[k] = state_layers[k]
                                     /\ action_layers'[k] = action_layers[k]
                                     /\ state_mutex_layers'[k] = state_mutex_layers[k]
                                     /\ action_mutex_layers'[k] = action_mutex_layers[k]
<1> DEFINE cur   == layers - 1
           nodes == NextActionLayer(state_layers[cur], state_mutex_layers[cur])
           facts == NextStateLayer(state_layers[cur], nodes)
           amx   == NextActionMutex(nodes, state_mutex_layers[cur])
           smx   == NextStateMutex(facts, nodes, amx)
<1>1. /\ layers' = layers + 1
      /\ state_layers' = PushBack(state_layers, facts)
      /\ action_layers' = PushBack(action_layers, nodes)
      /\ state_mutex_layers' = PushBack(state_mutex_layers, smx)
      /\ action_mutex_layers' = PushBack(action_mutex_layers, amx)
  BY DEF create_graph_layer
<1>2. layers \in Nat \ {0}
  BY DEF TypeOK
<1>3. \A k \in 0..layers - 1 : /\ state_layers'[k] = state_layers[k]
                              /\ action_layers'[k] = action_layers[k]
                              /\ state_mutex_layers'[k] = state_mutex_layers[k]
                              /\ action_mutex_layers'[k] = action_mutex_layers[k]
  BY <1>1, <1>2 DEF PushBack
<1>4. /\ state_layers'[layers] = facts
      /\ action_layers'[layers] = nodes
      /\ state_mutex_layers'[layers] = smx
      /\ action_mutex_layers'[layers] = amx
  BY <1>1, <1>2 DEF PushBack
<1>5. \A k \in 0..layers' - 2 : LayerFollows(k)'
  <2> SUFFICES ASSUME NEW k \in 0..layers' - 2 PROVE LayerFollows(k)'
    OBVIOUS
  <2>1. CASE k = layers - 1
    <3>1. k + 1 = layers /\ k \in 0..layers - 1
      BY <2>1, <1>2
    <3>2. state_layers'[k] = state_layers[cur] /\ state_mutex_layers'[k] = state_mutex_layers[cur]
      BY <2>1, <3>1, <1>3
    <3>3. NextActionLayer(state_layers[k], state_mutex_layers[k])' = nodes
      BY <3>2 DEF NextActionLayer, Applicable
    <3> HIDE DEF nodes, facts, amx, smx
    <3>4. /\ action_layers'[k + 1] = nodes
          /\ state_layers'[k + 1] = facts
          /\ action_mutex_layers'[k + 1] = amx
          /\ state_mutex_layers'[k + 1] = smx
      BY <3>1, <1>4
    <3> QED
      BY <3>2, <3>3, <3>4 DEF LayerFollows, facts, amx, smx
  <2>2. CASE k # layers - 1
    <3>1. k \in 0..layers - 2 /\ k \in 0..layers - 1 /\ k + 1 \in 0..layers - 1
      BY <2>2, <1>1, <1>2
    <3>2. LayerFollows(k)
      BY <3>1 DEF GraphShape
    <3> QED
      BY <3>1, <3>2, <1>3 DEF LayerFollows, NextActionLayer, Applicable
  <2> QED
    BY <2>1, <2>2
<1>6. 0 \in 0..layers - 1
  BY <1>2
<1> QED
  BY <1>3, <1>5, <1>6 DEF GraphShape

(* Facts of layer k that are mutex in layer k + 1 were already mutex in    *)
(* layer k: their noops are in action layer k + 1.                         *)
LEMMA StateMutexShrinks ==
  ASSUME TypeOK, GraphShape, NEW k \in 0..layers - 2,
         NEW f \in state_layers[k], NEW g \in state_layers[k],
         <<f, g>> \in state_mutex_layers[k + 1]
  PROVE  <<f, g>> \in state_mutex_layers[k]
<1>1. LayerFollows(k)
  BY DEF GraphShape
<1>2. Noop(f) \in Supporters(f, action_layers[k + 1]) /\ Noop(g) \in Supporters(g, action_layers[k + 1])
  BY <1>1 DEF LayerFollows, NextActionLayer, Supporters, Noop, effect_facts, IsNoop
<1>3. f # g /\ (negated_facts(f, g) \/ <<Noop(f), Noop(g)>> \in action_mutex_layers[k + 1])
  BY <1>1, <1>2 DEF LayerFollows, NextStateMutex, InconsistentSupport
<1>4. negated_facts(f, g) \/ <<f, g>> \in state_mutex_layers[k]
  <2> SUFFICES ASSUME <<Noop(f), Noop(g)>> \in action_mutex_layers[k + 1]
               PROVE  negated_facts(f, g) \/ <<f, g>> \in state_mutex_layers[k]
    BY <1>3
  <2>1. \A h : /\ precond_facts(Noop(h)) = {h}
               /\ effect_facts(Noop(h)) = {h}
    BY DEF precond_facts, effect_facts, IsNoop, Noop
  <2>2. \/ CompetingNeeds(Noop(f), Noop(g), state_mutex_layers[k])
        \/ InconsistentEffects(Noop(f), Noop(g))
        \/ Interference(Noop(f), Noop(g))
        \/ Interference(Noop(g), Noop(f))
    BY <1>1 DEF LayerFollows, NextActionMutex
  <2>3. CompetingNeeds(Noop(f), Noop(g), state_mutex_layers[k]) => <<f, g>> \in state_mutex_layers[k]
    BY <2>1 DEF CompetingNeeds
  <2>4. /\ InconsistentEffects(Noop(f), Noop(g)) => negated_facts(f, g)
        /\ Interference(Noop(f), Noop(g)) => negated_facts(f, g)
        /\ Interference(Noop(g), Noop(f)) => negated_facts(g, f)
    BY <2>1 DEF InconsistentEffects, Interference
  <2>5. negated_facts(g, f) => negated_facts(f, g)
    BY DEF negated_facts
  <2> QED
    BY <2>2, <2>3, <2>4, <2>5
<1>5. CASE negated_facts(f, g)
  <2>1. CASE k = 0
    <3>1. f \in Positive /\ g \in Positive
      BY <2>1 DEF GraphShape
    <3> QED
      BY <1>5, <3>1 DEF Positive, negated_facts
  <2>2. CASE k # 0
    <3>1. k - 1 \in 0..layers - 2 /\ (k - 1) + 1 = k
      BY <2>2 DEF TypeOK
    <3>2. LayerFollows(k - 1)
      BY <3>1 DEF GraphShape
    <3> QED
      BY <1>3, <1>5, <3>1, <3>2 DEF LayerFollows, NextStateMutex
  <2> QED
    BY <2>1, <2>2
<1> QED
  BY <1>4, <1>5

(* A grounded action or noop of one layer is in the next.                  *)
LEMMA NodesPersist ==
  ASSUME TypeOK, GraphShape, NEW k \in 0..layers - 2
  PROVE  /\ state_layers[k] \subseteq state_layers[k + 1]
         /\ action_layers[k] \subseteq action_layers[k + 1]
<1>1. LayerFollows(k)
  BY DEF GraphShape
<1>2. state_layers[k] \subseteq state_layers[k + 1]
  BY <1>1 DEF LayerFollows, NextStateLayer
<1>3. CASE k = 0
  BY <1>2, <1>3 DEF GraphShape
<1>4. CASE k # 0
  <2>1. k - 1 \in 0..layers - 2 /\ (k - 1) + 1 = k
    BY <1>4 DEF TypeOK
  <2>2. LayerFollows(k - 1)
    BY <2>1 DEF GraphShape
  <2>3. state_layers[k - 1] \subseteq state_layers[k]
    BY <2>1, <2>2 DEF LayerFollows, NextStateLayer
  <2>4. ASSUME NEW a \in Applicable(state_layers[k - 1], state_mutex_layers[k - 1])
        PROVE  a \in Applicable(state_layers[k], state_mutex_layers[k])
    BY <2>1, <2>3, StateMutexShrinks DEF Applicable
  <2> QED
    BY <1>1, <1>2, <2>1, <2>2, <2>3, <2>4 DEF LayerFollows, NextActionLayer
<1> QED
  BY <1>3, <1>4

(* Action nodes of layer k that are mutex in layer k + 1 were mutex in     *)
(* layer k.                                                                *)
LEMMA ActionMutexShrinks ==
  ASSUME TypeOK, GraphShape, NEW k \in 0..layers - 2,
         NEW m \in action_layers[k], NEW n \in action_layers[k],
         <<m, n>> \in action_mutex_layers[k + 1]
  PROVE  <<m, n>> \in action_mutex_layers[k]
<1>1. k # 0
  BY DEF GraphShape
<1>2. k - 1 \in 0..layers - 2 /\ (k - 1) + 1 = k
  BY <1>1 DEF TypeOK
<1>3. LayerFollows(k) /\ LayerFollows(k - 1)
  BY <1>2 DEF GraphShape
<1>4. precond_facts(m) \subseteq state_layers[k - 1] /\ precond_facts(n) \subseteq state_layers[k - 1]
  BY <1>2, <1>3 DEF LayerFollows, NextActionLayer, Applicable, precond_facts, Noop, Act, IsNoop
<1>5. CompetingNeeds(m, n, state_mutex_layers[k]) => CompetingNeeds(m, n, state_mutex_layers[k - 1])
  BY <1>2, <1>4, StateMutexShrinks DEF CompetingNeeds
<1> QED
  BY <1>2, <1>3, <1>5 DEF LayerFollows, NextActionMutex

------------------------------------------------------------------------------
Symmetric(rel) == \A p \in rel : <<p[2], p[1]>> \in rel

(* The mutexes computed from symmetric mutexes are symmetric.              *)
LEMMA NextMutexSymmetric ==
  ASSUME NEW nodes, NEW facts, NEW mutex, Symmetric(mutex)
  PROVE  /\ Symmetric(NextActionMutex(nodes, mutex))
         /\ Symmetric(NextStateMutex(facts, nodes, NextActionMutex(nodes, mutex)))
<1> DEFINE amx == NextActionMutex(nodes, mutex)
<1>1. \A m, n : CompetingNeeds(m, n, mutex) => CompetingNeeds(n, m, mutex)
  BY DEF CompetingNeeds, Symmetric
<1>2. \A m, n : InconsistentEffects(m, n) => InconsistentEffects(n, m)
  BY DEF InconsistentEffects, negated_facts
<1>3. Symmetric(amx)
  BY <1>1, <1>2 DEF NextActionMutex, Symmetric
<1> HIDE DEF amx
<1>4. \A f, g : InconsistentSupport(f, g, nodes, amx) => InconsistentSupport(g, f, nodes, amx)
  BY <1>3 DEF InconsistentSupport, Symmetric
<1>5. \A f, g : negated_facts(f, g) => negated_facts(g, f)
  BY DEF negated_facts
<1>6. Symmetric(NextStateMutex(facts, nodes, amx))
  BY <1>4, <1>5 DEF NextStateMutex, Symmetric
<1> QED
  BY <1>3, <1>6 DEF amx

(* Growing the graph adds symmetric mutexes only.                          *)
LEMMA GrowSymmetric ==
  ASSUME TypeOK, GraphShape, MutexSymmetric, create_graph_layer, actions' = actions
  PROVE  MutexSymmetric'
<1>1. layers \in Nat \ {0} /\ layers' = layers + 1
  BY DEF TypeOK, create_graph_layer
<1>2. \A k \in 0..layers - 1 : /\ state_mutex_layers'[k] = state_mutex_layers[k]
                              /\ action_mutex_layers'[k] = action_mutex_layers[k]
  BY GrowShape
<1>3. Symmetric(state_mutex_layers[layers - 1])
  <2>1. layers - 1 \in 0..layers - 1
    BY <1>1
  <2>2. \A p \in state_mutex_layers[layers - 1] : <<p[2], p[1]>> \in state_mutex_layers[layers - 1]
    BY <2>1 DEF MutexSymmetric
  <2> QED
    BY <2>2 DEF Symmetric
<1>4. Symmetric(state_mutex_layers'[layers]) /\ Symmetric(action_mutex_layers'[layers])
  <2> DEFINE cur   == layers - 1
             nodes == NextActionLayer(state_layers[cur], state_mutex_layers[cur])
             facts == NextStateLayer(state_layers[cur], nodes)
             amx   == NextActionMutex(nodes, state_mutex_layers[cur])
             smx   == NextStateMutex(facts, nodes, amx)
  <2>1. /\ state_mutex_layers' = PushBack(state_mutex_layers, smx)
        /\ action_mutex_layers' = PushBack(action_mutex_layers, amx)
    BY DEF create_graph_layer
  <2>2. Symmetric(smx) /\ Symmetric(amx)
    BY <1>3, NextMutexSymmetric
  <2> HIDE DEF smx, amx
  <2>3. state_mutex_layers'[layers] = smx /\ action_mutex_layers'[layers] = amx
    BY <1>1, <2>1 DEF PushBack
  <2> QED
    BY <2>2, <2>3
<1>5. ASSUME NEW k \in 0..layers' - 1
      PROVE  Symmetric(state_mutex_layers'[k]) /\ Symmetric(action_mutex_layers'[k])
  <2>1. CASE k = layers
    BY <1>4, <2>1
  <2>2. CASE k \in 0..layers - 1
    BY <1>2, <2>2 DEF MutexSymmetric, Symmetric
  <2> QED
    BY <1>1, <2>1, <2>2
<1> QED
  BY <1>5 DEF MutexSymmetric, Symmetric
------------------------------------------------------------------------------
(* What every module that grows the graph keeps.                           *)
GraphInv == TypeOK /\ GraphShape /\ MutexSymmetric

(* compute_planning_graph seeds a graph of this kind.                      *)
LEMMA SeedGraphInv ==
  ASSUME GraphInit
  PROVE  GraphInv /\ phase = "contain" /\ layers = 1
<1> PICK s \in Segments : SeedGraph(s)
  BY DEF GraphInit
<1>1. TypeOK
  BY DEF SeedGraph, TypeOK, Phases, Literal, Positive
<1> QED
  BY <1>1 DEF SeedGraph, GraphInv, GraphShape, MutexSymmetric

(* create_graph_layer keeps it so.                                         *)
LEMMA GrowGraphInv ==
  ASSUME GraphInv, create_graph_layer, UNCHANGED <<actions, goals>>, phase' \in Phases
  PROVE  GraphInv'
  BY GrowType, GrowShape, GrowSymmetric DEF GraphInv

(* So does a step that leaves the graph alone.                             *)
LEMMA SameGraphInv ==
  ASSUME GraphInv, UNCHANGED <<actions, goals, graph>>, phase' \in Phases
  PROVE  GraphInv'
<1>1. TypeOK'
  BY DEF GraphInv, TypeOK, graph
<1>2. GraphShape'
  BY ZenonT(60) DEF graph, GraphInv, GraphShape, LayerFollows, NextActionLayer, Applicable
<1>3. MutexSymmetric'
  BY DEF GraphInv, MutexSymmetric, graph
<1> QED
  BY <1>1, <1>2, <1>3 DEF GraphInv

(* A node stands in an action layer only over its preconditions, and if it *)
(* is no noop it is an action of the segment.                              *)
LEMMA NodeFacts ==
  ASSUME GraphInv, NEW k \in 1..layers - 1, NEW n \in action_layers[k]
  PROVE  /\ n \in Node
         /\ effect_facts(n) \subseteq Literal
         /\ precond_facts(n) \subseteq Literal
         /\ precond_facts(n) \subseteq state_layers[k - 1]
         /\ ~IsNoop(n) => n[2] \in Range(actions) /\ n[2] \in ActionNames /\ n = Act(n[2])
<1>1. k \in 0..layers - 1 /\ k - 1 \in 0..layers - 2 /\ k - 1 \in 0..layers - 1 /\ (k - 1) + 1 = k
  BY DEF GraphInv, TypeOK
<1>2. LayerFollows(k - 1)
  BY <1>1 DEF GraphInv, GraphShape
<1>3. n \in NextActionLayer(state_layers[k - 1], state_mutex_layers[k - 1])
  BY <1>1, <1>2 DEF LayerFollows
<1>4. n \in Node
  BY <1>1 DEF GraphInv, TypeOK
<1>5. CASE \E f \in state_layers[k - 1] : n = Noop(f)
  <2> PICK f \in state_layers[k - 1] : n = Noop(f)
    BY <1>5
  <2>1. IsNoop(n) /\ precond_facts(n) = {f} /\ effect_facts(n) = {f}
    BY DEF IsNoop, precond_facts, effect_facts, Noop
  <2>2. f \in Literal
    BY <1>1 DEF GraphInv, TypeOK
  <2> QED
    BY <1>4, <2>1, <2>2
<1>6. CASE \E a \in Applicable(state_layers[k - 1], state_mutex_layers[k - 1]) : n = Act(a)
  <2> PICK a \in Applicable(state_layers[k - 1], state_mutex_layers[k - 1]) : n = Act(a)
    BY <1>6
  <2>1. ~IsNoop(n) /\ precond_facts(n) = Pre[a] /\ effect_facts(n) = Eff[a] /\ n[2] = a
    BY DEF IsNoop, precond_facts, effect_facts, Act
  <2>2. a \in Range(actions) /\ Pre[a] \subseteq state_layers[k - 1]
    BY DEF Applicable
  <2>3. a \in ActionNames
    BY <2>2 DEF GraphInv, TypeOK, Range
  <2> QED
    BY <1>4, <2>1, <2>2, <2>3
<1> QED
  BY <1>3, <1>5, <1>6 DEF NextActionLayer

(* No node is mutex with itself, and two nodes of a layer that are not     *)
(* mutex neither undo each other nor what the other needs.                 *)
LEMMA NotMutexFacts ==
  ASSUME GraphInv, NEW k \in 1..layers - 1,
         NEW m \in action_layers[k], NEW n \in action_layers[k]
  PROVE  /\ <<n, n>> \notin action_mutex_layers[k]
         /\ <<m, n>> \notin action_mutex_layers[k] => <<n, m>> \notin action_mutex_layers[k]
         /\ m # n /\ <<m, n>> \notin action_mutex_layers[k] =>
              ~InconsistentEffects(m, n) /\ ~Interference(m, n) /\ ~Interference(n, m)
<1>1. k \in 0..layers - 1 /\ k - 1 \in 0..layers - 2 /\ (k - 1) + 1 = k
  BY DEF GraphInv, TypeOK
<1>2. LayerFollows(k - 1)
  BY <1>1 DEF GraphInv, GraphShape
<1>3. action_mutex_layers[k] = NextActionMutex(action_layers[k], state_mutex_layers[k - 1])
  BY <1>1, <1>2 DEF LayerFollows
<1>4. ASSUME <<n, m>> \in action_mutex_layers[k]
      PROVE  <<m, n>> \in action_mutex_layers[k]
  BY <1>1, <1>4 DEF GraphInv, MutexSymmetric
<1> QED
  BY <1>3, <1>4 DEF NextActionMutex
==============================================================================
