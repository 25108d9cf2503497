------------------------------ MODULE GraphPlan ------------------------------
(***************************************************************************)
(* The proposition-action graph of cocg_graphplan.cpp: how                 *)
(* compute_planning_graph seeds it, how create_graph_layer grows it by one *)
(* layer, and how create_init_graph decides to grow it or to stop.         *)
(*                                                                         *)
(* A segment is the input of one call: the predicates of init_state, the   *)
(* mid actions between two sensing nodes (a vector, it may repeat an       *)
(* action), and the predicates of goal_state.                              *)
(***************************************************************************)
EXTENDS Domain

CONSTANT Segments       \* the inputs compute_planning_graph is called with

\* The predicates of a ProblemExpert are never negated: its init and goal
\* states only hold positive facts.  The goal state is init_state with the
\* mid actions applied, so that it is init_state when there are none.
ASSUME SegmentAssumption ==
  \A s \in Segments : /\ s.init \subseteq Positive
                      /\ s.actions \in Seq(ActionNames)
                      /\ s.goals \subseteq Positive
                      /\ s.actions = <<>> => s.goals \subseteq s.init

VARIABLES actions, goals,             \* arguments of compute_planning_graph
          layers,                     \* PAGraph: number of state layers ...
          state_layers, action_layers,              \* ... the layers ...
          state_mutex_layers, action_mutex_layers,  \* ... and their mutexes
          phase                       \* where create_init_graph stands

graph  == <<layers, state_layers, action_layers,
            state_mutex_layers, action_mutex_layers>>
gpVars == <<actions, goals, graph, phase>>
------------------------------------------------------------------------------
(* An action node is a grounded action or the noop that carries one fact. *)
Noop(f) == <<"noop", f>>
Act(a)  == <<"act", a>>
Node    == {Noop(f) : f \in Literal} \union {Act(a) : a \in ActionNames}

IsNoop(n)       == n[1] = "noop"
precond_facts(n) == IF IsNoop(n) THEN {n[2]} ELSE Pre[n[2]]
effect_facts(n)  == IF IsNoop(n) THEN {n[2]} ELSE Eff[n[2]]

(* The grounded actions whose preconditions are all in the state layer and *)
(* pairwise not mutex in it.                                               *)
Applicable(facts, mutex) ==
  {a \in Range(actions) : /\ Pre[a] \subseteq facts
                          /\ \A f, g \in Pre[a] : <<f, g>> \notin mutex}

NextActionLayer(facts, mutex) ==
  {Noop(f) : f \in facts} \union {Act(a) : a \in Applicable(facts, mutex)}

NextStateLayer(facts, nodes) ==
  facts \union UNION {effect_facts(n) : n \in nodes}

CompetingNeeds(m, n, mutex) ==
  \E f \in precond_facts(m), g \in precond_facts(n) : <<f, g>> \in mutex
InconsistentEffects(m, n) ==
  \E f \in effect_facts(m), g \in effect_facts(n) : negated_facts(f, g)
Interference(m, n) ==
  \E f \in precond_facts(m), g \in effect_facts(n) : negated_facts(f, g)

\* Mutant: the second interference check is left out.
NextActionMutexOneWay(nodes, mutex) ==
  {p \in nodes \X nodes : /\ p[1] # p[2]
                          /\ \/ CompetingNeeds(p[1], p[2], mutex)
                             \/ InconsistentEffects(p[1], p[2])
                             \/ Interference(p[1], p[2])}

NextActionMutex(nodes, mutex) ==
  {p \in nodes \X nodes : /\ p[1] # p[2]
                          /\ \/ CompetingNeeds(p[1], p[2], mutex)
                             \/ InconsistentEffects(p[1], p[2])
                             \/ Interference(p[1], p[2])
                             \/ Interference(p[2], p[1])}

Supporters(f, nodes) == {n \in nodes : f \in effect_facts(n)}

\* Mutant: one mutex pair of supporters is enough.
InconsistentSupportAny(f, g, nodes, actionMutex) ==
  \E m \in Supporters(f, nodes), n \in Supporters(g, nodes) :
    <<m, n>> \in actionMutex

(* Inconsistent support: there is a pair of supporters, and all are mutex. *)
InconsistentSupport(f, g, nodes, actionMutex) ==
  /\ Supporters(f, nodes) # {} /\ Supporters(g, nodes) # {}
  /\ \A m \in Supporters(f, nodes), n \in Supporters(g, nodes) :
       <<m, n>> \in actionMutex

NextStateMutex(facts, nodes, actionMutex) ==
  {p \in facts \X facts :
     /\ p[1] # p[2]
     /\ \/ negated_facts(p[1], p[2])
        \/ InconsistentSupport(p[1], p[2], nodes, actionMutex)}
------------------------------------------------------------------------------
\* Mutant: the new element overwrites the last one.
PushBackOver(v, x) == [i \in 0..layers - 1 |-> IF i < layers - 1 THEN v[i] ELSE x]

(* vector::push_back on a vector indexed from 0. *)
PushBack(v, x) == [i \in 0..layers |-> IF i < layers THEN v[i] ELSE x]

create_graph_layer ==
  LET cur   == layers - 1
      nodes == NextActionLayer(state_layers[cur], state_mutex_layers[cur])
      facts == NextStateLayer(state_layers[cur], nodes)
      amx   == NextActionMutex(nodes, state_mutex_layers[cur])
  IN  /\ state_layers'        = PushBack(state_layers, facts)
      /\ action_layers'       = PushBack(action_layers, nodes)
      /\ action_mutex_layers' = PushBack(action_mutex_layers, amx)
      /\ state_mutex_layers'  = PushBack(state_mutex_layers,
                                         NextStateMutex(facts, nodes, amx))
      /\ layers' = layers + 1

goal_contained_in_state_layer == goals \subseteq state_layers[layers - 1]

exist_mutex_in_goal_layer ==
  \E f, g \in goals : <<f, g>> \in state_mutex_layers[layers - 1]

\* Mutant: the bound is one layer too generous.
LayersExceededLate  == layers > Len(actions) + 1

(* "the layers of the graph has exceeded the actions num" *)
LayersExceeded == layers > Len(actions)

(* The first layer: the predicates of init_state, nothing mutex.           *)
SeedGraph(s) ==
  /\ actions = s.actions
  /\ goals   = s.goals
  /\ layers  = 1
  /\ state_layers        = [i \in {0} |-> s.init]
  /\ action_layers       = [i \in {0} |-> {}]
  /\ state_mutex_layers  = [i \in {0} |-> {}]
  /\ action_mutex_layers = [i \in {0} |-> {}]
  /\ phase = "contain"

GraphInit == \E s \in Segments : SeedGraph(s)

(* First loop of create_init_graph: grow until every goal is contained. *)
ExpandToContain ==
  /\ phase = "contain"
  /\ ~goal_contained_in_state_layer
  /\ ~LayersExceeded
  /\ create_graph_layer
  /\ UNCHANGED <<actions, goals, phase>>

LeaveContainLoop ==
  /\ phase = "contain"
  /\ goal_contained_in_state_layer \/ LayersExceeded
  /\ phase' = "nonmutex"
  /\ UNCHANGED <<actions, goals, graph>>

(* Second loop: grow until no two goals are mutex. *)
ExpandToNonMutex ==
  /\ phase = "nonmutex"
  /\ exist_mutex_in_goal_layer
  /\ ~LayersExceeded
  /\ create_graph_layer
  /\ UNCHANGED <<actions, goals, phase>>

LeaveMutexLoop ==
  /\ phase = "nonmutex"
  /\ ~exist_mutex_in_goal_layer \/ LayersExceeded
  /\ phase' = "built"
  /\ UNCHANGED <<actions, goals, graph>>

create_init_graph ==
  \/ ExpandToContain
  \/ LeaveContainLoop
  \/ ExpandToNonMutex
  \/ LeaveMutexLoop
(* compute_planning_graph asks for one more layer when an extraction fails. *)
ExpandAfterFailure ==
  /\ ~LayersExceeded
  /\ create_graph_layer
------------------------------------------------------------------------------
Phases == {"contain", "nonmutex", "built", "extracting", "solved", "unsolved"}

TypeOK ==
  /\ actions \in Seq(ActionNames)
  /\ goals \subseteq Positive
  /\ layers \in Nat \ {0}
  /\ state_layers        \in [0..layers - 1 -> SUBSET Literal]
  /\ action_layers       \in [0..layers - 1 -> SUBSET Node]
  /\ state_mutex_layers  \in [0..layers - 1 -> SUBSET (Literal \X Literal)]
  /\ action_mutex_layers \in [0..layers - 1 -> SUBSET (Node \X Node)]
  /\ phase \in Phases

(* How the layers hang together: the first one is init_state, and each     *)
(* later one is computed from the one below it.                            *)
LayerFollows(k) ==
  /\ action_layers[k + 1] = NextActionLayer(state_layers[k], state_mutex_layers[k])
  /\ state_layers[k + 1]  = NextStateLayer(state_layers[k], action_layers[k + 1])
  /\ action_mutex_layers[k + 1] =
       NextActionMutex(action_layers[k + 1], state_mutex_layers[k])
  /\ state_mutex_layers[k + 1] =
       NextStateMutex(state_layers[k + 1], action_layers[k + 1], action_mutex_layers[k + 1])

GraphShape ==
  /\ state_layers[0] \subseteq Positive
  /\ action_layers[0] = {}
  /\ state_mutex_layers[0] = {}
  /\ action_mutex_layers[0] = {}
  /\ \A k \in 0..layers - 2 : LayerFollows(k)

(* The mutexes of both kinds of layer are symmetric: the lookups of the    *)
(* code ask in one direction only.                                         *)
MutexSymmetric ==
  \A k \in 0..layers - 1 :
    /\ \A p \in state_mutex_layers[k]  : <<p[2], p[1]>> \in state_mutex_layers[k]
    /\ \A p \in action_mutex_layers[k] : <<p[2], p[1]>> \in action_mutex_layers[k]
==============================================================================
