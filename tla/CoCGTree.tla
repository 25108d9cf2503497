------------------------------- MODULE CoCGTree ------------------------------
(***************************************************************************)
(* build_cocg_subgraph turns a contingent plan tree into a tree of layered *)
(* segments, and the tree is executed in one of the worlds the problem     *)
(* allows.  compute_planning_graph is used by its contract, LayeredPlan.   *)
(*                                                                         *)
(* A subgraph is named by its path: the observations made on the way to    *)
(* it.  The execution (clock, slot, pending, world) is the environment: it *)
(* runs the printed layers as time steps and follows what it observes.     *)
(***************************************************************************)
EXTENDS LayeredPlan, PlanTree

INSTANCE Belief WITH Facts <- Positive

CONSTANT Plans  \* inputs of cff_cocg: [expert, nodes], the root being node 1

Root == 1
root == <<>>

(* A plan tree: its pointers lead to nodes or are null, and never back.    *)
IsPlanTree(nodes) ==
  LET ends == DOMAIN nodes \union {nullptr}
  IN  /\ Root \in ends
      /\ nullptr \notin DOMAIN nodes
      /\ \A n \in DOMAIN nodes :
           /\ nodes[n].true_node \in ends /\ nodes[n].false_node \in ends
           /\ IsSensing(nodes, n) \/ nodes[n].item[2] \in ActionNames
      /\ \A S \in SUBSET DOMAIN nodes :
           S # {} => \E n \in S : nodes[n].true_node \notin S /\ nodes[n].false_node \notin S

ASSUME FactsAssumption == IsFiniteSet(Positive)
ASSUME PlanAssumption  == \A p \in Plans : p.expert \in Expert /\ IsPlanTree(p.nodes)

VARIABLES plan,      \* the input
          frames,    \* activations of build_cocg_subgraph, last on top
          subgraph,  \* SubGraphNodes built so far, by path
          world,     \* facts true in the world, and at the start
          path, slot, pending, clock   \* where the execution stands

buildVars == <<frames, subgraph>>
execVars  == <<world, path, slot, pending, clock>>
vars      == <<plan, buildVars, execVars>>

observe(nodes, n) == nodes[n].item[2]
------------------------------------------------------------------------------
\* Mutant: the walk stops one node short of the sensing node.
MidActionsButLast(n) ==
  LET all == MidNodes(plan.nodes, n)
      mid == SubSeq(all, 1, Len(all) - 1)
  IN  [i \in 1..Len(mid) |-> plan.nodes[mid[i]].item[2]]

MidActions(n) ==
  LET mid == MidNodes(plan.nodes, n)
  IN  [i \in 1..Len(mid) |-> plan.nodes[mid[i]].item[2]]

GoalState(e, n) == [e EXCEPT !.predicates = TraversedState(@, MidActions(n))]

(* A call of traverse_contingent_planning_tree from node n in state e and  *)
(* of build_cocg_subgraph with its result.                                 *)
Frame(at, e, n, t0) ==
  [path |-> at, init_state |-> e, goal_state |-> GoalState(e, n),
   actions |-> MidActions(n), node |-> StopNode(plan.nodes, n), t0 |-> t0,
   pc |-> "compute"]

top == frames[Len(frames)]

ReturnFrom == SubSeq(frames, 1, Len(frames) - 1)
SetPc(pc)  == [frames EXCEPT ![Len(frames)].pc = pc]

\* plus the null layer or the sensing node layer
LayersCnt(ls) == Len(ls) + 1

Init ==
  /\ plan \in Plans
  /\ frames = <<Frame(root, plan.expert, Root, 0)>>
  /\ subgraph = <<>>
  /\ \E w \in Worlds(plan.expert) : world = [now |-> w, start |-> w]
  /\ path = root /\ slot = 0 /\ pending = {} /\ clock = 0

Building == frames # <<>>

ComputeLayers ==
  /\ Building /\ top.pc = "compute"
  /\ \E ls \in SegmentLayers(top.init_state.predicates, top.actions, top.goal_state.predicates) :
       subgraph' = [p \in DOMAIN subgraph \union {top.path} |->
                      IF p = top.path
                      THEN [t0 |-> top.t0, actions_layers |-> ls, node |-> top.node,
                            init |-> top.init_state, goal |-> top.goal_state]
                      ELSE subgraph[p]]
  /\ frames' = SetPc(IF top.node = nullptr THEN "return" ELSE "true")
  /\ UNCHANGED <<plan, execVars>>

\* Mutant: the false part starts from the true observation.
DescendSame(value, n) ==
  LET e == AfterSensing(top.goal_state, observe(plan.nodes, top.node), TRUE)
  IN  Frame(Append(top.path, value), e, n,
            top.t0 + LayersCnt(subgraph[top.path].actions_layers))

(* The activation for one outcome of the sensing node.                     *)
Descend(value, n) ==
  LET e == AfterSensing(top.goal_state, observe(plan.nodes, top.node), value)
  IN  Frame(Append(top.path, value), e, n,
            top.t0 + LayersCnt(subgraph[top.path].actions_layers))

TraverseTruePart ==
  /\ Building /\ top.pc = "true"
  /\ frames' = Append(SetPc("false"), Descend(TRUE, plan.nodes[top.node].true_node))
  /\ UNCHANGED <<plan, subgraph, execVars>>

TraverseFalsePart ==
  /\ Building /\ top.pc = "false"
  /\ frames' = Append(SetPc("return"), Descend(FALSE, plan.nodes[top.node].false_node))
  /\ UNCHANGED <<plan, subgraph, execVars>>

\* Mutant: the call does not return.
ReturnAgain ==
  /\ Building /\ top.pc = "return"
  /\ frames' = SetPc("return")
  /\ UNCHANGED <<plan, subgraph, execVars>>

ReturnSubgraph ==
  /\ Building /\ top.pc = "return"
  /\ frames' = ReturnFrom
  /\ UNCHANGED <<plan, subgraph, execVars>>

build_cocg_subgraph ==
  \/ ComputeLayers
  \/ TraverseTruePart
  \/ TraverseFalsePart
  \/ ReturnSubgraph
------------------------------------------------------------------------------
here == subgraph[path]

(* One time step: the next layer of the subgraph is dispatched.            *)
StartLayer ==
  /\ ~Building /\ pending = {} /\ slot < Len(here.actions_layers)
  /\ slot' = slot + 1
  /\ pending' = here.actions_layers[slot + 1]
  /\ clock' = clock + 1
  /\ UNCHANGED <<plan, buildVars, world, path>>

Perform ==
  /\ \E a \in pending :
       /\ world' = [world EXCEPT !.now = apply_actuation_action(@, a)]
       /\ pending' = pending \ {a}
  /\ UNCHANGED <<plan, buildVars, path, slot, clock>>

(* The last time step of a subgraph: its sensing node.                     *)
Sense ==
  /\ ~Building /\ pending = {} /\ slot = Len(here.actions_layers)
  /\ here.node # nullptr
  /\ path' = Append(path, observe(plan.nodes, here.node) \in world.now)
  /\ slot' = 0
  /\ clock' = clock + 1
  /\ UNCHANGED <<plan, buildVars, world, pending>>

Finished == /\ ~Building /\ pending = {}
            /\ slot = Len(here.actions_layers) /\ here.node = nullptr

Next == build_cocg_subgraph \/ StartLayer \/ Perform \/ Sense

\* The recursion is one sequential call, and the executor never rests.
Spec == Init /\ [][Next]_vars /\ WF_vars(Next)
------------------------------------------------------------------------------
Prefix(k) == SubSeq(path, 1, k)

(* compute_planning_graph gave up on a segment of the branch taken: it     *)
(* returned no layers though the goal state was not reached.               *)
GaveUp ==
  \E k \in 0..Len(path) : /\ subgraph[Prefix(k)].actions_layers = NoLayers
                          /\ ~(subgraph[Prefix(k)].goal.predicates
                              \subseteq subgraph[Prefix(k)].init.predicates)

(* The contingent plan executed from node n in world w, one node per time  *)
(* step: the facts it ends with and the steps taken, k of them before.     *)
SequentialFrom(n, w, k) ==
  LET nodes == plan.nodes
      run[at \in (DOMAIN nodes \union {nullptr}) \X (SUBSET Positive) \X Nat] ==
        IF at[1] = nullptr THEN [facts |-> at[2], steps |-> at[3]]
        ELSE IF IsSensing(nodes, at[1])
        THEN run[<<IF observe(nodes, at[1]) \in at[2] THEN nodes[at[1]].true_node
                   ELSE nodes[at[1]].false_node, at[2], at[3] + 1>>]
        ELSE run[<<nodes[at[1]].true_node,
                   apply_actuation_action(at[2], nodes[at[1]].item[2]), at[3] + 1>>]
  IN  run[<<n, w, k>>]

Sequential == SequentialFrom(Root, world.start, 0)

(* t0_ of a subgraph is the time at which it is entered, on every branch.  *)
ClockIsT0 == ~Building /\ slot = 0 => clock = here.t0

(* Unless a segment of the branch was given up, what a subgraph takes for  *)
(* known when it is entered is true in the world: the expert followed the  *)
(* observations.                                                           *)
ExpertFollowsWorld == ~Building /\ slot = 0 /\ ~GaveUp => here.init.predicates \subseteq world.now

(* Time and facts are passed down the branch that is observed, however     *)
(* deep the recursion has built the tree.                                  *)
EnteredInStep == ClockIsT0 /\ ExpertFollowsWorld

(* ... every action of a dispatched layer is applicable whenever it is     *)
(* performed ...                                                           *)
DispatchApplicable == ~Building /\ ~GaveUp => \A a \in pending : Enabled(a, world.now)

(* ... and whatever the contingent plan would have made true in this world *)
(* is true at the end, in no more time steps.                              *)
EndsLikeContingentPlan ==
  Finished /\ ~GaveUp => Sequential.facts \subseteq world.now

NeverSlower == Finished => clock <= Sequential.steps

(* Building returns, and every branch comes to its end.                    *)
BranchEnds == <>Finished
------------------------------------------------------------------------------
(* The inductive invariant behind EnteredInStep: what one activation hands *)
(* to the next, and what has been built of the tree at every moment.       *)

Contents(e) ==
  /\ e = [predicates |-> e.predicates, unknowns |-> e.unknowns, oneofs |-> e.oneofs]
  /\ e.unknowns \subseteq Positive

IsCall(t0, init, goal, node) ==
  /\ t0 \in Nat
  /\ Contents(init)
  /\ goal = [predicates |-> goal.predicates, unknowns |-> init.unknowns, oneofs |-> init.oneofs]
  /\ node \in DOMAIN plan.nodes \union {nullptr}

(* What the subgraph r passes on to its subgraph for one outcome.          *)
Follows(r, value, t0, init) ==
  /\ r.node # nullptr
  /\ t0 = r.t0 + LayersCnt(r.actions_layers)
  /\ init = AfterSensing(r.goal, observe(plan.nodes, r.node), value)

EnteredAs(p, t0, init) ==
  \/ p = root /\ t0 = 0 /\ init = plan.expert
  \/ \E q \in DOMAIN subgraph, value \in BOOLEAN :
       p = Append(q, value) /\ Follows(subgraph[q], value, t0, init)

IsSubgraph(p, r) ==
  /\ p \in Seq(BOOLEAN)
  /\ IsCall(r.t0, r.init, r.goal, r.node)
  /\ EnteredAs(p, r.t0, r.init)
  /\ Len(r.actions_layers) \in Nat
  /\ r.actions_layers = NoLayers \/ ValidLayers(r.init.predicates, r.goal.predicates, r.actions_layers)

SubgraphsInv == \A p \in DOMAIN subgraph : IsSubgraph(p, subgraph[p])

IsFrame(f) ==
  /\ f = [path |-> f.path, init_state |-> f.init_state, goal_state |-> f.goal_state,
          actions |-> f.actions, node |-> f.node, t0 |-> f.t0, pc |-> f.pc]
  /\ f.path \in Seq(BOOLEAN) /\ f.actions \in Seq(ActionNames)
  /\ IsCall(f.t0, f.init_state, f.goal_state, f.node)
  /\ f.pc \in {"compute", "true", "false", "return"}
  /\ f.pc \in {"true", "false"} => f.node # nullptr

(* An activation that has not recorded its layers was called as it should  *)
(* be; the record of one that has is the one it works with.                *)
Recorded(f) ==
  IF f.pc = "compute"
  THEN f.path \notin DOMAIN subgraph /\ EnteredAs(f.path, f.t0, f.init_state)
  ELSE /\ f.path \in DOMAIN subgraph
       /\ LET r == subgraph[f.path] IN r.t0 = f.t0 /\ r.goal = f.goal_state /\ r.node = f.node

(* An outcome is not built before it is asked for.                         *)
NotYet(f) ==
  /\ f.pc = "true" => Append(f.path, TRUE) \notin DOMAIN subgraph
  /\ f.pc \in {"true", "false"} => Append(f.path, FALSE) \notin DOMAIN subgraph

Calls(f, next) ==
  \/ f.pc = "false"  /\ next.path = Append(f.path, TRUE)
  \/ f.pc = "return" /\ next.path = Append(f.path, FALSE)

FramesInv ==
  /\ frames \in Seq(Range(frames))
  /\ \A i \in 1..Len(frames) : /\ IsFrame(frames[i]) /\ Len(frames[i].path) = i - 1
                               /\ Recorded(frames[i]) /\ NotYet(frames[i])
  /\ \A i \in 1..Len(frames) - 1 : Calls(frames[i], frames[i + 1])

(* Both outcomes of a sensing node are built, or some activation is still  *)
(* to build them.                                                          *)
Awaits(f, p, value) ==
  \/ f.path = p /\ (f.pc = "true" \/ (f.pc = "false" /\ ~value))
  \/ f.path = Append(p, value) /\ f.pc = "compute"

CompleteInv ==
  \A p \in DOMAIN subgraph, value \in BOOLEAN :
    subgraph[p].node # nullptr =>
      \/ Append(p, value) \in DOMAIN subgraph
      \/ \E i \in 1..Len(frames) : Awaits(frames[i], p, value)

ExecInv ==
  IF Building
  THEN path = root /\ slot = 0 /\ pending = {} /\ clock = 0
  ELSE /\ path \in DOMAIN subgraph /\ slot \in 0..Len(here.actions_layers)
       /\ clock = here.t0 + slot
       /\ pending \subseteq IF slot = 0 THEN {} ELSE here.actions_layers[slot]

TreeInv == /\ plan \in Plans
           /\ SubgraphsInv /\ FramesInv /\ CompleteInv /\ ExecInv

(* The layers leave alone what is still to be observed: no fact that they  *)
(* add or delete is in a oneof of the expert the subgraph is entered with. *)
ActsOnKnown ==
  \A p \in DOMAIN subgraph : LET r == subgraph[p] IN
    \A k \in 1..Len(r.actions_layers) : \A a \in r.actions_layers[k] : \A f \in Eff[a] :
      \A o \in r.init.oneofs : <<f[1], "+">> \notin o

(* What the expert knows is true in the world, and its oneofs hold there.  *)
TrueIn(e, w) ==
  /\ e.predicates \subseteq w
  /\ \A o \in e.oneofs : \E f \in Positive : w \intersect o = {f}

(* While a layer is performed, the facts it does not delete are kept, and  *)
(* the ones it adds have come about where the action has been performed.   *)
Upheld(before, layer, w) ==
  /\ \A f \in before : (\A a \in layer \ pending : <<f[1], "-">> \notin Eff[a]) => f \in w
  /\ \A a \in layer \ pending : Eff[a] \intersect Positive \subseteq w

WorldInv ==
  /\ world \in [now : SUBSET Positive, start : SUBSET Positive]
  /\ Building => TrueIn(plan.expert, world.now)
  /\ ~Building /\ ~GaveUp =>
       /\ \A o \in here.init.oneofs : \E f \in Positive : world.now \intersect o = {f}
       /\ IF slot = 0
          THEN here.init.predicates \subseteq world.now
          ELSE Upheld(StatesAlong(here.init.predicates, here.actions_layers)[slot - 1],
                      here.actions_layers[slot], world.now)
------------------------------------------------------------------------------
(* The inductive invariant behind EndsLikeContingentPlan and NeverSlower:  *)
(* each subgraph is made from the walk from its node of the plan, and the  *)
(* contingent plan, which comes to that node too, goes on from there.      *)

Child(r, value) == IF value THEN plan.nodes[r.node].true_node ELSE plan.nodes[r.node].false_node

(* The walk for subgraph p begins at node n.                               *)
StartsAt(p, n) ==
  \/ p = root /\ n = Root
  \/ \E q \in DOMAIN subgraph, value \in BOOLEAN :
       p = Append(q, value) /\ subgraph[q].node # nullptr /\ n = Child(subgraph[q], value)

MadeFrom(r, n) ==
  /\ r.node = StopNode(plan.nodes, n)
  /\ r.goal = GoalState(r.init, n)
  /\ r.actions_layers \in SegmentLayers(r.init.predicates, MidActions(n), r.goal.predicates)

Ends == DOMAIN plan.nodes \union {nullptr}

(* The record r of subgraph p, and an activation before it records one.    *)
Made(p, r) == \E n \in Ends : StartsAt(p, n) /\ MadeFrom(r, n)

Called(f) ==
  f.pc = "compute" =>
    \E n \in Ends : StartsAt(f.path, n) /\ f = Frame(f.path, f.init_state, n, f.t0)

SegmentsInv ==
  /\ \A p \in DOMAIN subgraph : Made(p, subgraph[p])
  /\ \A i \in 1..Len(frames) : Called(frames[i])

(* What is observed is open until then: a oneof lists it when the subgraph *)
(* is entered, and the actions before the observation change nothing that  *)
(* a oneof lists.                                                          *)
ObservesOpen ==
  \A p \in DOMAIN subgraph, n \in Ends : LET r == subgraph[p] IN
    StartsAt(p, n) =>
      /\ \A a \in Range(MidActions(n)) : \A f \in Eff[a] : <<f[1], "+">> \notin UNION r.init.oneofs
      /\ r.node # nullptr => observe(plan.nodes, r.node) \in UNION r.init.oneofs

(* s, where the contingent plan has come to with node n after k steps, and *)
(* the world agree on what may still be observed, and the world keeps what *)
(* the actions on the way do not delete.                                   *)
Alongside(n, s, k) ==
  /\ StartsAt(path, n)
  /\ Sequential = SequentialFrom(n, s, k)
  /\ here.t0 <= k
  /\ \A f \in UNION here.init.oneofs : f \in s <=> f \in world.now
  /\ ~GaveUp =>
       \A f \in s : (\A a \in Range(MidActions(n)) : <<f[1], "-">> \notin Eff[a]) => f \in world.now

AlongsideInv ==
  IF Building THEN world.start = world.now
  ELSE \E n \in Ends : \E s \in SUBSET Positive : \E k \in Nat : Alongside(n, s, k)
==============================================================================
