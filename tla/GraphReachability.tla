-------------------------- MODULE GraphReachability --------------------------
(***************************************************************************)
(* What the layers and mutexes of the planning graph promise about the     *)
(* world: the graph of GraphPlan grows next to a world in which, at every  *)
(* time step, any set of compatible grounded actions may run.  The world   *)
(* is the environment the graph over-approximates; it takes step k only    *)
(* when state layer k exists, and chooses its actions without looking at   *)
(* the graph.                                                              *)
(***************************************************************************)
EXTENDS GraphPlan

VARIABLES known,  \* facts, positive and negative, established so far
          time    \* number of time steps taken

vars == <<gpVars, known, time>>

Result(facts, acts) ==
  {f \in facts : \A a \in acts : \A g \in Eff[a] : ~negated_facts(f, g)}
    \union UNION {Eff[a] : a \in acts}

WorldStep(acts) ==
  /\ time + 1 < layers
  /\ acts \subseteq {a \in Range(actions) : Pre[a] \subseteq known}
  /\ Compatible(acts)
  /\ known' = Result(known, acts)
  /\ time'  = time + 1
  /\ UNCHANGED gpVars

GraphStep ==
  /\ \/ create_init_graph
     \/ phase = "built" /\ ExpandAfterFailure /\ UNCHANGED <<actions, goals, phase>>
  /\ UNCHANGED <<known, time>>

Init == GraphInit /\ known = state_layers[0] /\ time = 0

Next == \/ GraphStep
        \/ \E acts \in SUBSET ActionNames : WorldStep(acts)

Spec == Init /\ [][Next]_vars
------------------------------------------------------------------------------
(* What the world has established after k steps is in state layer k, and   *)
(* no two facts it has established are mutex there: create_graph_layer     *)
(* never prunes a state the actions can reach.                             *)
MutexSound ==
  /\ known \subseteq state_layers[time]
  /\ \A f, g \in known : <<f, g>> \notin state_mutex_layers[time]

(* Facts and action nodes, once in the graph, are in every later layer.    *)
LayersGrow ==
  \A k \in 0..layers - 2 : /\ state_layers[k]  \subseteq state_layers[k + 1]
                           /\ action_layers[k] \subseteq action_layers[k + 1]

(* A mutex between nodes that are in two successive layers is never new in *)
(* the later one.                                                          *)
MutexesShrink ==
  \A k \in 0..layers - 2 :
    /\ state_mutex_layers[k + 1]
         \intersect (state_layers[k] \X state_layers[k]) \subseteq state_mutex_layers[k]
    /\ action_mutex_layers[k + 1]
         \intersect (action_layers[k] \X action_layers[k]) \subseteq action_mutex_layers[k]

(* Header of create_init_graph: "the init graph that all goal are          *)
(* satisfied and non-mutex in the last layer".                             *)
InitGraphReady ==
  phase = "built" => goal_contained_in_state_layer /\ ~exist_mutex_in_goal_layer

(* The actions of a segment one at a time, as the graph can follow them:   *)
(* what the first k of them have established.                              *)
Established(s) ==
  LET facts[k \in 0..Len(s.actions)] ==
        IF k = 0 THEN s.init ELSE Result(facts[k - 1], {s.actions[k]})
  IN  facts

(* traverse_contingent_planning_tree collects actions that can be applied  *)
(* one after the other, and the state they lead to.  A fact needed false   *)
(* must have been made false: the first layer holds positive facts only.   *)
Feasible(s) ==
  /\ \A k \in 1..Len(s.actions) : Pre[s.actions[k]] \subseteq Established(s)[k - 1]
  /\ s.goals \subseteq Established(s)[Len(s.actions)]

(* What extraction relies on in the graph it is handed: the order of a     *)
(* pair does not matter, layers only gain nodes and lose mutexes, and the  *)
(* goals are there.                                                        *)
GraphSettled == MutexSymmetric /\ LayersGrow /\ MutexesShrink /\ InitGraphReady

(* The inductive invariant behind MutexSound: the layers follow from each  *)
(* other, and the world is a consistent state its time step's layer admits.*)
ReachabilityInv ==
  /\ TypeOK
  /\ GraphShape
  /\ time \in 0..layers - 1
  /\ Consistent(known)
  /\ MutexSound

(* The one behind InitGraphReady: the graph is one of a segment, goals are *)
(* in its last layer once the first loop is left, and stay there.          *)
SettledInv ==
  /\ ReachabilityInv
  /\ \E s \in Segments : actions = s.actions /\ goals = s.goals /\ state_layers[0] = s.init
  /\ phase \in {"nonmutex", "built"} => goal_contained_in_state_layer
  /\ InitGraphReady
==============================================================================
