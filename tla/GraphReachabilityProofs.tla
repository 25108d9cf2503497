----------------------- MODULE GraphReachabilityProofs -----------------------
(***************************************************************************)
(* Proofs about the planning graph for every domain, every segment and     *)
(* every number of layers.                                                 *)
(***************************************************************************)
EXTENDS GraphReachability, GraphPlanProofs, LayeredPlanProofs

USE DomainAssumption, SegmentAssumption

(* Every step keeps every layer in place and well typed.                   *)
LEMMA TypeInductive ==
  /\ Init => TypeOK
  /\ TypeOK /\ [Next]_vars => TypeOK'
<1>1. Init => TypeOK
  <2> SUFFICES ASSUME Init PROVE TypeOK
    OBVIOUS
  <2> PICK s \in Segments : SeedGraph(s)
    BY DEF Init, GraphInit
  <2> QED
    BY DEF SeedGraph, TypeOK, Phases, Literal, Positive
<1>2. TypeOK /\ [Next]_vars => TypeOK'
  <2> SUFFICES ASSUME TypeOK, [Next]_vars PROVE TypeOK'
    OBVIOUS
  <2>1. CASE GraphStep
    BY <2>1, GrowType DEF GraphStep, Phases, create_init_graph, ExpandToContain,
       LeaveContainLoop, ExpandToNonMutex, LeaveMutexLoop, ExpandAfterFailure, graph, TypeOK
  <2>2. CASE \E acts \in SUBSET ActionNames : WorldStep(acts)
    BY <2>2 DEF WorldStep, gpVars, graph, TypeOK
  <2>3. CASE UNCHANGED vars
    BY <2>3 DEF vars, gpVars, graph, TypeOK
  <2> QED
    BY <2>1, <2>2, <2>3 DEF Next
<1> QED
  BY <1>1, <1>2

(* The graph keeps its shape: every layer exists and is well typed.        *)
THEOREM TypeCorrect == Spec => []TypeOK
  BY TypeInductive, PTL DEF Spec
------------------------------------------------------------------------------

(* One world step from a state that state layer k admits leads to a state  *)
(* that state layer k + 1 admits: the facts it keeps are supported by      *)
(* noops, the facts it adds by the actions that ran, and no two of those   *)
(* nodes are mutex.                                                        *)
LEMMA StepAdmitted ==
  ASSUME TypeOK, GraphShape, NEW k \in 0..layers - 2,
         NEW w \in SUBSET state_layers[k], Consistent(w),
         \A f, g \in w : <<f, g>> \notin state_mutex_layers[k],
         NEW acts \in SUBSET Range(actions),
         \A a \in acts : Pre[a] \subseteq w,
         Compatible(acts)
  PROVE  /\ Result(w, acts) \subseteq state_layers[k + 1]
         /\ Consistent(Result(w, acts))
         /\ \A f, g \in Result(w, acts) : <<f, g>> \notin state_mutex_layers[k + 1]
<1> DEFINE nodes == action_layers[k + 1]
           ran   == {Act(a) : a \in acts} \union
                      {Noop(f) : f \in {h \in w : \A a \in acts : \A g \in Eff[a] : ~negated_facts(h, g)}}
<1>0. LayerFollows(k)
  BY DEF GraphShape
<1>a. acts \subseteq ActionNames
  BY DEF TypeOK, Range
<1>1. ran \subseteq nodes
  BY <1>0 DEF LayerFollows, NextActionLayer, Applicable
<1>2. \A f \in Result(w, acts) : \E n \in ran : f \in effect_facts(n)
  <2> SUFFICES ASSUME NEW f \in Result(w, acts)
               PROVE  \E n \in ran : f \in effect_facts(n)
    OBVIOUS
  <2>1. CASE \E a \in acts : f \in Eff[a]
    <3> PICK a \in acts : f \in Eff[a]
      BY <2>1
    <3>1. Act(a) \in ran
      OBVIOUS
    <3>2. f \in effect_facts(Act(a))
      BY DEF effect_facts, IsNoop, Act
    <3> QED
      BY <3>1, <3>2
  <2>2. CASE f \in w /\ \A a \in acts : \A g \in Eff[a] : ~negated_facts(f, g)
    <3>1. Noop(f) \in ran
      BY <2>2
    <3>2. f \in effect_facts(Noop(f))
      BY DEF effect_facts, IsNoop, Noop
    <3> QED
      BY <3>1, <3>2
  <2> QED
    BY <2>1, <2>2 DEF Result
<1>3. \A m, n \in ran : <<m, n>> \notin NextActionMutex(nodes, state_mutex_layers[k])
  <2> SUFFICES ASSUME NEW m \in ran, NEW n \in ran, m # n
               PROVE  /\ ~CompetingNeeds(m, n, state_mutex_layers[k])
                      /\ ~InconsistentEffects(m, n)
                      /\ ~Interference(m, n)
                      /\ ~Interference(n, m)
    BY DEF NextActionMutex
  <2>1. precond_facts(m) \subseteq w /\ precond_facts(n) \subseteq w
    BY DEF precond_facts, IsNoop, Act, Noop
  <2>2. ~CompetingNeeds(m, n, state_mutex_layers[k])
    BY <2>1 DEF CompetingNeeds
  <2>3. \A f \in effect_facts(m), g \in effect_facts(n) \union precond_facts(n) : ~negated_facts(f, g)
    BY <1>a, EffectsAssumption DEF effect_facts, precond_facts, IsNoop, Act, Noop, Compatible, Consistent, negated_facts
  <2>4. \A f \in effect_facts(n), g \in effect_facts(m) \union precond_facts(m) : ~negated_facts(f, g)
    BY <1>a, EffectsAssumption DEF effect_facts, precond_facts, IsNoop, Act, Noop, Compatible, Consistent, negated_facts
  <2> QED
    BY <2>2, <2>3, <2>4 DEF InconsistentEffects, Interference, negated_facts
<1>4. Result(w, acts) \subseteq state_layers[k + 1]
  BY <1>0, <1>1, <1>2 DEF LayerFollows, NextStateLayer
<1>5. Consistent(Result(w, acts))
  BY <1>a, EffectsAssumption DEF Result, Consistent, Compatible, negated_facts
<1>6. \A f, g \in Result(w, acts) : <<f, g>> \notin state_mutex_layers[k + 1]
  <2> SUFFICES ASSUME NEW f \in Result(w, acts), NEW g \in Result(w, acts)
               PROVE  <<f, g>> \notin NextStateMutex(state_layers[k + 1], nodes, action_mutex_layers[k + 1])
    BY <1>0 DEF LayerFollows
  <2>1. ~negated_facts(f, g)
    BY <1>5 DEF Consistent
  <2>2. PICK m \in ran : f \in effect_facts(m)
    BY <1>2
  <2>3. PICK n \in ran : g \in effect_facts(n)
    BY <1>2
  <2>4. m \in Supporters(f, nodes) /\ n \in Supporters(g, nodes)
    BY <2>2, <2>3, <1>1 DEF Supporters
  <2>5. <<m, n>> \notin action_mutex_layers[k + 1]
    BY <1>0, <1>3 DEF LayerFollows
  <2> QED
    BY <2>1, <2>4, <2>5 DEF NextStateMutex, InconsistentSupport
<1> QED
  BY <1>4, <1>5, <1>6
------------------------------------------------------------------------------
(* GraphStep and WorldStep keep the inductive invariant.                   *)
LEMMA ReachabilityInductive ==
  /\ Init => ReachabilityInv
  /\ ReachabilityInv /\ [Next]_vars => ReachabilityInv'
<1>1. Init => ReachabilityInv
  <2> SUFFICES ASSUME Init PROVE ReachabilityInv
    OBVIOUS
  <2>1. TypeOK
    BY TypeInductive
  <2> PICK s \in Segments : SeedGraph(s)
    BY DEF Init, GraphInit
  <2>2. GraphShape
    BY DEF SeedGraph, GraphShape
  <2>3. Consistent(known)
    BY <2>2 DEF Init, GraphShape, Consistent, negated_facts, Positive
  <2> QED
    BY <2>1, <2>2, <2>3 DEF ReachabilityInv, Init, SeedGraph, MutexSound
<1>2. ReachabilityInv /\ [Next]_vars => ReachabilityInv'
  <2> SUFFICES ASSUME ReachabilityInv, [Next]_vars PROVE ReachabilityInv'
    OBVIOUS
  <2>1. TypeOK'
    BY TypeInductive DEF ReachabilityInv
  <2>2. CASE GraphStep /\ create_graph_layer
    <3>1. actions' = actions /\ known' = known /\ time' = time
      BY <2>2 DEF GraphStep, create_init_graph, ExpandToContain,
         LeaveContainLoop, ExpandToNonMutex, LeaveMutexLoop
    <3>2. GraphShape'
      BY <2>2, <3>1, GrowShape DEF ReachabilityInv
    <3>3. state_layers'[time] = state_layers[time] /\ state_mutex_layers'[time] = state_mutex_layers[time]
      BY <2>2, <3>1, GrowShape DEF ReachabilityInv
    <3>4. layers' = layers + 1 /\ layers \in Nat
      BY <2>2 DEF create_graph_layer, ReachabilityInv, TypeOK
    <3> QED
      BY <2>1, <3>1, <3>2, <3>3, <3>4 DEF ReachabilityInv, MutexSound, Consistent
  <2>3. CASE UNCHANGED <<actions, graph, known, time>>
    BY <2>1, <2>3, ZenonT(60) DEF graph, ReachabilityInv, MutexSound, Consistent, GraphShape,
       LayerFollows, NextActionLayer, Applicable
  <2>4. ASSUME NEW acts \in SUBSET ActionNames, WorldStep(acts)
        PROVE  ReachabilityInv'
    <3>1. /\ time + 1 < layers /\ time' = time + 1
          /\ acts \subseteq Range(actions)
          /\ \A a \in acts : Pre[a] \subseteq known
          /\ Compatible(acts)
          /\ known' = Result(known, acts)
          /\ UNCHANGED <<actions, graph>>
      BY <2>4 DEF WorldStep, gpVars
    <3>2. time \in 0..layers - 2
      BY <3>1 DEF ReachabilityInv, TypeOK
    <3>3. /\ known' \subseteq state_layers[time + 1]
          /\ Consistent(known')
          /\ \A f, g \in known' : <<f, g>> \notin state_mutex_layers[time + 1]
      BY <3>1, <3>2, StepAdmitted DEF ReachabilityInv, MutexSound
    <3>4. GraphShape'
      BY <3>1, ZenonT(60) DEF graph, ReachabilityInv, GraphShape, LayerFollows, NextActionLayer, Applicable
    <3>5. time' \in 0..layers' - 1
      BY <3>1, <3>2 DEF graph, ReachabilityInv, TypeOK
    <3>6. MutexSound'
      BY <3>1, <3>3 DEF graph, MutexSound
    <3>7. Consistent(known)'
      BY <3>3 DEF Consistent, negated_facts
    <3> QED
      BY <2>1, <3>4, <3>5, <3>6, <3>7 DEF ReachabilityInv
  <2> QED
    BY <2>2, <2>3, <2>4 DEF Next, GraphStep, create_init_graph, ExpandToContain,
       LeaveContainLoop, ExpandToNonMutex, LeaveMutexLoop, ExpandAfterFailure,
       vars, gpVars
<1> QED
  BY <1>1, <1>2

(* Two facts marked mutex in state layer k are never both established      *)
(* after k time steps, whatever compatible actions ran, and everything     *)
(* established is in the layer.                                            *)
THEOREM MutexSoundness == Spec => []MutexSound
<1>1. ReachabilityInv => MutexSound
  BY DEF ReachabilityInv
<1> QED
  BY <1>1, ReachabilityInductive, PTL DEF Spec
------------------------------------------------------------------------------

(* Successive layers compare as they do in GraphPlanProofs.                *)
LEMMA LayersCompare == ReachabilityInv => LayersGrow /\ MutexesShrink
<1>1. ReachabilityInv => LayersGrow
  BY NodesPersist DEF ReachabilityInv, LayersGrow
<1>2. ReachabilityInv => MutexesShrink
  BY StateMutexShrinks, ActionMutexShrinks DEF ReachabilityInv, MutexesShrink
<1> QED
  BY <1>1, <1>2

(* Along the graph, facts and actions only appear and mutexes between them *)
(* only disappear.                                                         *)
THEOREM GraphMonotone == Spec => [](LayersGrow /\ MutexesShrink)
  BY LayersCompare, ReachabilityInductive, PTL DEF Spec
------------------------------------------------------------------------------

(* The code asks its mutex maps in one direction only; both are there.     *)
THEOREM MutexesSymmetric == Spec => []MutexSymmetric
<1>1. Init => MutexSymmetric
  BY DEF Init, GraphInit, SeedGraph, MutexSymmetric
<1>2. ReachabilityInv /\ ReachabilityInv' /\ MutexSymmetric /\ [Next]_vars => MutexSymmetric'
  <2> SUFFICES ASSUME ReachabilityInv, ReachabilityInv', MutexSymmetric, [Next]_vars
               PROVE  MutexSymmetric'
    OBVIOUS
  <2>1. CASE UNCHANGED graph
    BY <2>1 DEF graph, MutexSymmetric
  <2>2. CASE create_graph_layer /\ actions' = actions
    BY <2>2, GrowSymmetric DEF ReachabilityInv
  <2> QED
    BY <2>1, <2>2 DEF Next, GraphStep, WorldStep, create_init_graph, ExpandToContain,
       LeaveContainLoop, ExpandToNonMutex, LeaveMutexLoop, ExpandAfterFailure, vars, gpVars
<1> QED
  BY <1>1, <1>2, ReachabilityInductive, PTL DEF Spec
------------------------------------------------------------------------------
(* facts is what the first n actions of s establish, one after the other.  *)
IsCourse(facts, n, s) ==
  facts = [k \in 0..n |-> IF k = 0 THEN s.init ELSE Result(facts[k - 1], {s.actions[k]})]

(* Every segment can be followed, by induction on its length.              *)
LEMMA CourseExists ==
  ASSUME NEW s, NEW n \in Nat
  PROVE  \E facts : IsCourse(facts, n, s)
<1> DEFINE T == {m \in Nat : \E facts : IsCourse(facts, m, s)}
<1>1. 0 \in T
  <2>1. IsCourse([k \in 0..0 |-> s.init], 0, s)
    BY DEF IsCourse
  <2> QED
    BY <2>1
<1>2. ASSUME NEW m \in Nat, m \in T
      PROVE  m + 1 \in T
  <2>1. PICK f : IsCourse(f, m, s)
    BY <1>2
  <2>2. PICK g : g = [k \in 0..m + 1 |-> IF k <= m THEN f[k] ELSE Result(f[m], {s.actions[m + 1]})]
    OBVIOUS
  <2>3. ASSUME NEW k \in 0..m + 1
        PROVE  g[k] = IF k = 0 THEN s.init ELSE Result(g[k - 1], {s.actions[k]})
    <3>1. CASE k = m + 1
      BY <2>2, <3>1
    <3>2. CASE k \in 0..m
      <4>1. f[k] = IF k = 0 THEN s.init ELSE Result(f[k - 1], {s.actions[k]})
        BY <2>1, <3>2 DEF IsCourse
      <4> QED
        BY <2>2, <3>2, <4>1
    <3> QED
      BY <3>1, <3>2
  <2>4. IsCourse(g, m + 1, s)
    BY <2>2, <2>3 DEF IsCourse
  <2> QED
    BY <2>4
<1> HIDE DEF T
<1>3. Nat \subseteq T
  BY <1>1, <1>2, NatSetInduction
<1> QED
  BY <1>3 DEF T

(* Established is what its equation says.                                  *)
LEMMA EstablishedIs ==
  ASSUME NEW s, Len(s.actions) \in Nat
  PROVE  /\ Established(s)[0] = s.init
         /\ \A k \in 1..Len(s.actions) :
              Established(s)[k] = Result(Established(s)[k - 1], {s.actions[k]})
<1>1. \E facts : IsCourse(facts, Len(s.actions), s)
  BY CourseExists
<1>2. Established(s) = CHOOSE facts : IsCourse(facts, Len(s.actions), s)
  BY DEF Established, IsCourse
<1>3. PICK facts : facts = Established(s) /\ IsCourse(facts, Len(s.actions), s)
  BY <1>1, <1>2
<1>4. PICK n \in Nat : n = Len(s.actions)
  OBVIOUS
<1>5. \A k \in 0..n : facts[k] = IF k = 0 THEN s.init ELSE Result(facts[k - 1], {s.actions[k]})
  BY <1>3, <1>4, Zenon DEF IsCourse
<1>6. facts[0] = s.init
  <2>1. 0 \in 0..n
    BY <1>4
  <2> QED
    BY <1>5, <2>1, Zenon
<1>7. ASSUME NEW k \in 1..n
      PROVE  facts[k] = Result(facts[k - 1], {s.actions[k]})
  <2>1. k \in 0..n /\ k # 0
    BY <1>4
  <2> QED
    BY <1>5, <2>1, Zenon
<1> QED
  BY <1>3, <1>4, <1>6, <1>7

\* A state that state layer k of the graph admits.
AdmittedAt(w, k) ==
  /\ w \in SUBSET state_layers[k] /\ Consistent(w)
  /\ \A f, g \in w : <<f, g>> \notin state_mutex_layers[k]

(* The graph admits what a feasible segment establishes, layer by layer,   *)
(* and goes on admitting it when the segment is over.                      *)
LEMMA CourseAdmitted ==
  ASSUME TypeOK, GraphShape, NEW s, Feasible(s),
         actions = s.actions, goals = s.goals, state_layers[0] = s.init,
         NEW m \in 0..layers - 1
  PROVE  \E w : AdmittedAt(w, m) /\ (m >= Len(actions) => goals \subseteq w)
<1> DEFINE Stands(k, w) ==
             /\ k <= Len(actions) => w = Established(s)[k]
             /\ k >= Len(actions) => w = Established(s)[Len(actions)]
           T == {k \in Nat : k \in 0..layers - 1 => \E w : AdmittedAt(w, k) /\ Stands(k, w)}
<1>1. /\ Len(actions) \in Nat /\ layers \in Nat \ {0}
      /\ \A k \in 1..Len(actions) : actions[k] \in Range(actions)
  BY DEF TypeOK, Range
<1>2. /\ Established(s)[0] = s.init
      /\ \A k \in 1..Len(actions) :
           Established(s)[k] = Result(Established(s)[k - 1], {actions[k]})
  BY <1>1, EstablishedIs
<1>3. 0 \in T
  <2>1. AdmittedAt(s.init, 0)
    BY DEF AdmittedAt, GraphShape, Positive, Consistent, negated_facts
  <2>2. Stands(0, s.init)
    BY <1>1, <1>2
  <2> QED
    BY <2>1, <2>2
<1>4. ASSUME NEW k \in Nat, k \in T
      PROVE  k + 1 \in T
  <2> SUFFICES ASSUME k + 1 \in 0..layers - 1
               PROVE  \E w : AdmittedAt(w, k + 1) /\ Stands(k + 1, w)
    OBVIOUS
  <2>1. k \in 0..layers - 2 /\ k \in 0..layers - 1
    BY <1>1
  <2>2. PICK w : AdmittedAt(w, k) /\ Stands(k, w)
    BY <1>4, <2>1
  <2>3. ASSUME NEW acts \in SUBSET Range(actions), \A a \in acts : Pre[a] \subseteq w, Compatible(acts)
        PROVE  AdmittedAt(Result(w, acts), k + 1)
    BY <2>1, <2>2, <2>3, StepAdmitted DEF AdmittedAt
  <2>4. CASE k < Len(actions)
    <3>1. k + 1 \in 1..Len(actions) /\ (k + 1) - 1 = k
      BY <1>1, <2>4
    <3>2. w = Established(s)[k] /\ Pre[actions[k + 1]] \subseteq w
      BY <1>1, <2>2, <2>4, <3>1 DEF Feasible
    <3>3. AdmittedAt(Result(w, {actions[k + 1]}), k + 1)
      BY <1>1, <2>3, <3>1, <3>2 DEF Compatible
    <3>4. Result(w, {actions[k + 1]}) = Established(s)[k + 1]
      BY <1>2, <3>1, <3>2
    <3>5. Stands(k + 1, Established(s)[k + 1])
      BY <1>1, <3>1
    <3> QED
      BY <3>3, <3>4, <3>5
  <2>5. CASE k >= Len(actions)
    <3>1. AdmittedAt(Result(w, {}), k + 1)
      BY <2>3 DEF Compatible
    <3>2. Result(w, {}) = w
      BY DEF Result
    <3>3. Stands(k + 1, w)
      BY <1>1, <2>2, <2>5
    <3> QED
      BY <3>1, <3>2, <3>3
  <2> QED
    BY <1>1, <2>4, <2>5
<1> HIDE DEF T
<1>5. Nat \subseteq T
  BY <1>3, <1>4, NatSetInduction
<1>6. PICK w : AdmittedAt(w, m) /\ Stands(m, w)
  <2>1. m \in Nat /\ m \in T
    BY <1>1, <1>5
  <2> HIDE DEF Stands
  <2> QED
    BY <2>1, Zenon DEF T
<1>7. m >= Len(actions) => goals \subseteq w
  BY <1>6 DEF Feasible
<1> QED
  BY <1>6, <1>7

(* Neither loop of create_init_graph can run out of layers.                *)
LEMMA EnoughLayers ==
  ASSUME SettledInv, \A s \in Segments : Feasible(s), LayersExceeded
  PROVE  goal_contained_in_state_layer /\ ~exist_mutex_in_goal_layer
<1>1. TypeOK /\ GraphShape
  BY DEF SettledInv, ReachabilityInv
<1>2. PICK s \in Segments : actions = s.actions /\ goals = s.goals /\ state_layers[0] = s.init
  BY DEF SettledInv
<1>3. layers - 1 \in 0..layers - 1 /\ layers - 1 >= Len(actions)
  BY <1>1 DEF TypeOK, LayersExceeded
<1>4. PICK w : AdmittedAt(w, layers - 1) /\ goals \subseteq w
  BY <1>1, <1>2, <1>3, CourseAdmitted
<1> QED
  BY <1>4 DEF AdmittedAt, goal_contained_in_state_layer, exist_mutex_in_goal_layer

(* A new layer keeps the goals and does not make them mutex.               *)
LEMMA GoalsStay ==
  ASSUME ReachabilityInv, ReachabilityInv', create_graph_layer, UNCHANGED <<actions, goals>>,
         goal_contained_in_state_layer
  PROVE  /\ goal_contained_in_state_layer'
         /\ ~exist_mutex_in_goal_layer => ~exist_mutex_in_goal_layer'
<1>1. PICK n \in Nat \ {0} : n = layers
  BY DEF ReachabilityInv, TypeOK
<1>2. layers' = n + 1 /\ n - 1 \in 0..layers' - 2 /\ (n - 1) + 1 = layers' - 1
  BY <1>1 DEF create_graph_layer
<1>3. /\ state_layers'[n - 1] = state_layers[n - 1]
      /\ state_mutex_layers'[n - 1] = state_mutex_layers[n - 1]
  BY <1>1, GrowShape DEF ReachabilityInv
<1>4. (LayersGrow /\ MutexesShrink)'
  <2>1. (ReachabilityInv => LayersGrow /\ MutexesShrink)'
    BY LayersCompare, PTL
  <2> QED
    BY <2>1
<1>5. state_layers'[n - 1] \subseteq state_layers'[layers' - 1]
  BY <1>2, <1>4 DEF LayersGrow
<1>6. \A f, g \in state_layers'[n - 1] :
        <<f, g>> \in state_mutex_layers'[layers' - 1] => <<f, g>> \in state_mutex_layers'[n - 1]
  BY <1>2, <1>4 DEF MutexesShrink
<1> QED
  BY <1>1, <1>3, <1>5, <1>6 DEF goal_contained_in_state_layer, exist_mutex_in_goal_layer

(* When every segment is feasible, every step keeps SettledInv.            *)
LEMMA SettledInductive ==
  ASSUME \A s \in Segments : Feasible(s)
  PROVE  /\ Init => SettledInv
         /\ SettledInv /\ [Next]_vars => SettledInv'
<1>1. Init => SettledInv
  <2> SUFFICES ASSUME Init PROVE SettledInv
    OBVIOUS
  <2> PICK s \in Segments : SeedGraph(s)
    BY DEF Init, GraphInit
  <2>1. /\ actions = s.actions /\ goals = s.goals /\ state_layers[0] = s.init
        /\ phase = "contain"
    BY DEF SeedGraph
  <2> QED
    BY <2>1, ReachabilityInductive DEF SettledInv, InitGraphReady
<1>2. ASSUME SettledInv, [Next]_vars
      PROVE  SettledInv'
  <2>1. ReachabilityInv /\ ReachabilityInv'
    BY <1>2, ReachabilityInductive DEF SettledInv
  <2>2. actions' = actions /\ goals' = goals
    BY <1>2 DEF Next, GraphStep, WorldStep, create_init_graph, ExpandToContain, LeaveContainLoop,
       ExpandToNonMutex, LeaveMutexLoop, vars, gpVars
  <2>3. CASE create_graph_layer /\ phase' = phase
    <3>1. state_layers'[0] = state_layers[0]
      <4>1. 0 \in 0..layers - 1
        BY <2>1 DEF ReachabilityInv, TypeOK
      <4>2. \A k \in 0..layers - 1 : state_layers'[k] = state_layers[k]
        BY <2>1, <2>2, <2>3, GrowShape DEF ReachabilityInv
      <4> QED
        BY <4>1, <4>2
    <3>2. \E s \in Segments : actions' = s.actions /\ goals' = s.goals /\ state_layers'[0] = s.init
      BY <1>2, <2>2, <3>1 DEF SettledInv
    <3>3. /\ goal_contained_in_state_layer => goal_contained_in_state_layer'
          /\ goal_contained_in_state_layer /\ ~exist_mutex_in_goal_layer => ~exist_mutex_in_goal_layer'
      BY <2>1, <2>2, <2>3, GoalsStay
    <3> QED
      BY <1>2, <2>1, <2>3, <3>2, <3>3 DEF SettledInv, InitGraphReady
  <2>4. CASE UNCHANGED graph
    <3>1. /\ goal_contained_in_state_layer' <=> goal_contained_in_state_layer
          /\ exist_mutex_in_goal_layer' <=> exist_mutex_in_goal_layer
          /\ state_layers' = state_layers
      BY <2>2, <2>4 DEF graph, goal_contained_in_state_layer, exist_mutex_in_goal_layer
    <3>2. \E s \in Segments : actions' = s.actions /\ goals' = s.goals /\ state_layers'[0] = s.init
      BY <1>2, <2>2, <3>1 DEF SettledInv
    <3>3. CASE phase' = phase
      BY <1>2, <2>1, <3>1, <3>2, <3>3 DEF SettledInv, InitGraphReady
    <3>4. CASE LeaveContainLoop
      <4>1. goal_contained_in_state_layer /\ phase' = "nonmutex"
        BY <1>1, <1>2, <3>4, EnoughLayers DEF LeaveContainLoop
      <4> QED
        BY <2>1, <3>1, <3>2, <4>1 DEF SettledInv, InitGraphReady
    <3>5. CASE LeaveMutexLoop
      <4>1. ~exist_mutex_in_goal_layer /\ phase = "nonmutex" /\ phase' = "built"
        BY <1>1, <1>2, <3>5, EnoughLayers DEF LeaveMutexLoop
      <4>2. goal_contained_in_state_layer
        BY <1>2, <4>1 DEF SettledInv
      <4> QED
        BY <2>1, <3>1, <3>2, <4>1, <4>2 DEF SettledInv, InitGraphReady
    <3> QED
      BY <1>2, <2>4, <3>3, <3>4, <3>5 DEF Next, GraphStep, WorldStep, create_init_graph, ExpandToContain,
         ExpandToNonMutex, ExpandAfterFailure, vars, gpVars
  <2> QED
    BY <1>2, <2>3, <2>4 DEF Next, GraphStep, WorldStep, create_init_graph, ExpandToContain,
       LeaveContainLoop, ExpandToNonMutex, LeaveMutexLoop, ExpandAfterFailure, vars, gpVars
<1> QED
  BY <1>1, <1>2

(* What extraction is handed: when the actions of every segment can be     *)
(* followed one after the other, create_init_graph ends with every goal in *)
(* the last layer and no two of them mutex, whatever the bound on layers,  *)
(* and later layers keep it so.                                            *)
THEOREM GraphIsSettled ==
  ASSUME \A s \in Segments : Feasible(s)
  PROVE  Spec => []GraphSettled
<1>1. SettledInv => ReachabilityInv /\ InitGraphReady
  BY DEF SettledInv
<1>2. Init => SettledInv
  BY SettledInductive
<1>3. SettledInv /\ [Next]_vars => SettledInv'
  BY SettledInductive
<1> QED
  BY <1>1, <1>2, <1>3, LayersCompare, MutexesSymmetric, PTL DEF Spec, GraphSettled
==============================================================================
