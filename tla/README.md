# CoCG in TLA+

CoCG takes a contingent plan (a tree of actuation and sensing actions, computed
by Contingent-FF), cuts it into segments between sensing nodes, and replaces
every segment by layers of actions that may run at the same time, found by a
GraphPlan-style planning graph.  This directory models that transformation, the
state it is computed from, the execution of its result, and the planner the plan
comes from: its preprocessing, its belief states, its search and its heuristics.

Paths below are relative to the repository; `cff/` stands for
`src/cocg_cff_plan_solver/src/contingent-ff/`.

## The system

| Component | State it keeps | Operations | Hard behaviour |
|---|---|---|---|
| `cocg_graphplan` | `PAGraph`: state, action and mutex layers; `extraction_layers`; the recursion's goal counts | `create_init_graph`, `create_graph_layer`, `extract_solution`, `extract_backward_from_layer` | mutex propagation, when to stop growing, backtracking over unordered containers with state shared between activations |
| `cocg_core` | `SubGraphNode` tree (`t0_`, `layers_cnt_`, layers) | `compute_planning_graph`, `traverse_contingent_planning_tree`, `build_cocg_subgraph` | retry loop, giving up, two branches from one state, time bookkeeping |
| `cocg_problem_expert` | instances, predicates, functions, conditionals (`unknown`, `oneof`, `or`), goal | add/remove of each, `removeConditionalUnknown`, `addProblem`, `getProblem` | recursive propagation over conditionals it is rewriting; references between the parts |
| `cocg_utils`, `cocg_problem_expert_utils` | none of their own: they change a `ProblemExpert` | `apply_actuation_action`, `apply_sensing_action`, `evaluate`, `check`, `apply` | effects carried out part by part, closed world, `uint8_t` node ids |
| `utils` | none | `encode_plan`, `decode_plan`; text helpers | queues shared by recursive calls |
| `cocg_cff_plan_solver` | `tree_map` while reading | run Contingent-FF, read its output | sons named before they are read, output cut short |
| `contingent-ff`: `inst_pre`, `inst_easy`, `inst_hard`, `inst_final` | formulas, operators, ground actions, the connectivity graph | normal forms, negation twins, instantiation, reachability | each pass relies on the shape the others leave |
| `contingent-ff`: `state_transitions`, `repeated_states` | clause database with member lists, decision stack, belief states | `result_to_dest`, `dp_CNF`, `stagnates` | global tables extended and cut back by hand, nested; recursion over shared arrays |
| `contingent-ff`: `search`, `relax`, `relax_ff` | search tree, relaxed planning tables | AO* / weak AO*, heuristics | marks brought up one path only; counters left by earlier calls |
| `cocg_domain_reader`, `cocg_domain_expert` | domain text, parsed domain | section extraction, instantiation of actions | text only |
| `cocg_ast`, `cocg_pddl_parser` | data types, syntax trees | parsing, printing, helpers on trees | text only, but for the helpers |
| `cocg_tests` driver `cff_cocg` | none | solver, traverse, build, print | order of the calls |

The driver runs Contingent-FF, which yields a tree of `ContPlanNode`s.  The
problem is loaded into a `ProblemExpert`.  `traverse_contingent_planning_tree`
applies the actuation nodes up to the next sensing node to a copy of the expert;
`compute_planning_graph` lays these actions out in layers from the state before
to the state after; `build_cocg_subgraph` does so for the segment, then, from two
copies updated by `apply_sensing_action`, for the two outcomes of the sensing
node.  Inside Contingent-FF, a problem is grounded into a connectivity graph; the
search grows a tree of belief states, each computed by `result_to_dest` from
clauses about its path, with the help of a satisfiability test that keeps its
arrays from call to call; new states are compared with their ancestors, valued by
a relaxed plan, and the values and marks brought up the tree.

Everything runs in one thread, by plain calls.  What makes it hard is not
concurrency inside the programs but (1) the order in which unordered containers
are walked, (2) recursions over shared state and tables that the next call finds
as the last one left them, (3) that layers are *meant to be executed
concurrently*, and (4) that every branch must be right in every world the problem
allows.

## Modules

| Module | Models | Kind |
|---|---|---|
| `Domain` | grounded facts and actions, `negated_facts`, `apply_actuation_action` | operators |
| `GraphPlan` | `PAGraph`, `create_graph_layer`, `create_init_graph` | state machine, actions only |
| `GraphPlanProofs` | what `create_graph_layer` preserves, and how successive layers compare | lemmas |
| `GraphReachability` | `GraphPlan` next to a world in which compatible actions run concurrently | specification, properties |
| `GraphReachabilityProofs` | theorems about it | proofs |
| `GraphExtraction` | `extract_solution`, `extract_backward_from_layer` with its call stack | state machine, actions only |
| `PlanSegment` | `compute_planning_graph`, composing the two | state machine, actions only |
| `PlanExecutive` | what a caller may rely on, without graph or layers | abstract specification |
| `PlanExecution` | `PlanSegment` followed by an execution of the layers | specification, refinement of `PlanExecutive` |
| `PlanExecutionProofs` | every step of an extraction and of `PlanSegment` keeps what makes it right; theorems: extraction, layers, refinement | proofs |
| `LayeredPlan` | the contract of `compute_planning_graph` as operators | operators |
| `LayeredPlanProofs` | what these operators compute | proofs |
| `Belief` | what the contents of an expert mean (the worlds they allow), and the net effect of an observation | operators |
| `Knowledge` | `apply_sensing_action`, `removeConditionalUnknown`, `apply_actuation_action` on predicates and conditionals | specification, properties |
| `KnowledgeProofs` | theorems about it | proofs |
| `PlanTree` | `ContPlanNode` trees and their traversal | operators |
| `CoCGTree` | `build_cocg_subgraph` and the execution of the tree it builds, over `LayeredPlan` and `Belief` | specification, properties |
| `CoCGTreeProofs` | theorems about it | proofs |
| `PlanText` | `print_plan` of the planner and the reader of `CFFPlanSolver` | specification, properties |
| `PlanDelivery` | `encode_plan`, `decode_plan` with its call stack, after `PlanText`: planner, file, reader, message, receiver | specification, properties |
| `ConditionTrees` | `cocg_ast::Tree` and the helpers on trees of `Utils.cpp` | operators |
| `Evaluate` | `evaluate`, `check`, `apply` | specification, properties |
| `ProblemStore` | every add and remove of a `ProblemExpert`, `addProblem`, `getProblem` | specification, properties |
| `Formulas` | `normalize_all_wffs` on a goal, a condition, an initial clause | specification, properties |
| `Connectivity` | `translate_negative_preconds`; `inst_final.c`: reachability, relevance, final actions, the graph; then the graph run beside the actions | specification, properties |
| `Instantiation` | `inst_easy.c`, `inst_hard.c`: from operators to ground actions | specification, properties |
| `BeliefSpace` | what a contingent planning task means | operators |
| `DavisPutnam` | `dp_CNF`, `dp`, `do_unit_props` with stack, array and open calls | specification, properties |
| `ClauseBase` | codes, clauses and member lists; extending, saving, restoring, undoing | specification, properties |
| `ClausesProofs` | theorems about `DavisPutnam` and `ClauseBase` | proofs |
| `BeliefTransition` | `result_to_dest`: direct inference, clauses about the path, observations | specification, properties |
| `NondetStagnation` | `stagnates` on those states | specification, properties |
| `AndOrSearch` | `do_best_first_search`, `expand_first_node`, `update_fvalues_and_markers` | specification, properties |
| `AndOrSearchProofs` | theorems about it | proofs |
| `RelaxedFF` | heuristic 3: fixpoint, `extract_1P`, helpful actions, resets | specification, properties |
| `RelaxedBelief` | heuristic 2: graph of known and unknown layers; extraction, helpful actions | specification, properties |
| `MC*` | values of the constants for TLC, and the parts of a run | |

Definitions named `...Over`, `...Swapped`, `...ButLast` and so on, introduced by
"Mutant:", are broken variants of the definition that follows them; no
specification uses them.  They are there to show that a property can fail.

Four MC modules put several specifications side by side: `part` is chosen in the
initial state, one specification runs and the variables of the others rest.
These specifications share no state in the code either, or meet only through what
one of them hands to the other; where that interface matters it is modelled in
full (`PlanDelivery`, `PlanExecution`, `NondetStagnation`, `PlanSegment`) or
replaced by a definition that another run shows to be right: `LayeredPlan` in
`CoCGTree` (shown by `exec_plan`, and proved), `AfterSensing` (by `knowledge`), the meaning of
clauses in `BeliefTransition` (by `clauses_beliefs`, and proved), belief states as
sets of worlds in `AndOrSearch` (by `BeliefExact`).

### How the modules correspond to the code

*Facts.*  A fact is `<<atom, "+">>` or `<<atom, "-">>`, for the strings `(p)` and
`(not (p))`.  The predicates of an expert are positive facts, so is a goal state;
preconditions and effects of an action may be of either sign.

*Graph.*  `state_layers`, `action_layers` and the two mutex vectors are functions
on `0..layers - 1`, as in `PAGraph`; a mutex layer is a set of ordered pairs, as
the code stores them.  Noops are nodes, as in the code.  `phase` is the position
in `create_init_graph` and in the loop of `compute_planning_graph`.

*Extraction.*  A frame of `stack` is one activation of
`extract_backward_from_layer`; `cnt` is `prev_goals_cnt`, copied by value,
`extraction_layers` is shared, `ret` is the pair of booleans on its way to the
caller.  The two loops run over unordered containers, so the next goal and the
next supporter are a free choice.  Both early exits are kept: a goal found
already achieved leaves the supporter loop without a recursive call, and an
activation for a lower layer counts as extracted whatever came back.

*Knowledge.*  `predicates`, `unknowns` and `oneofs` are the predicates and the
two kinds of conditionals the propagation reads.  `calls` is the call stack of
`removeConditionalUnknown`; `RemoveUnknown` is the body up to the last loop
(erase, scan, remove, add, in one step, as nothing runs in between),
`PropagateNext` one turn of that loop.  The vector of facts to settle is a set:
its order is a free choice.

*Tree.*  A `SubGraphNode` is named by the observations that lead to it.  The
build calls `compute_planning_graph` through `SegmentLayers`: any layers that
keep the contract, or none at all, which is what the code returns when it gives
up.  A sensing node is assumed to have different sons and an actuation node equal
ones, as `cont_plan_node.h` says.

*Execution.*  Nothing in the repository executes the printed layers.  The
actions that do (`NextLayer`, `PerformAction`, `StartLayer`, `Perform`, `Sense`,
`WorldStep`) are the environment the layers are made for: layers in order, the
actions of one layer in any order, no check of preconditions.

*Delivery.*  A line of the planner's output is its fields; its wording is left
out, the numbers `t||i` that tie fathers to sons are kept.  `Text!Next` prints
and reads, `Send` is `encode_plan`, and `decode_plan` is a machine with the call
stack of its recursion over the two shared queues.

*Problem expert.*  A condition is its array of nodes with children by index, as in
`cocg_ast::Tree`; `TermAt` and `Nodes` go between that and the expression.
`evaluate` returns what the code returns (success, truth, value) and carries its
effects along.  `getProblem` is `Written`, the data of the text it writes;
`addProblem` reads it.  Node ids wrap at `IdRange`.

*Front end.*  The stages of `normalize_all_wffs` are the values of `stage`, one
action per pass and one per exit.  `Connectivity` has one action per phase of
`inst_final.c` and then applies the operators of the graph beside the actions as
they were parsed.  `Instantiation` has one action per pass over the domain; a
variable is a name where the code has an index.  The table of values that all levels
of a recursion share (`inst_table`) is passed on from step to step, with what is
left in it: `Bind` writes it fact by fact, also before a fact turns out not to fit,
`Reset` takes back what this level has set.

*Clauses.*  `frames` is the recursion of `dp`, `idx` and `todo` the propagation
loop, `lassigned` and `decision_stack` the arrays that survive from call to call.
In `ClauseBase` a list is its allocation with the end pointer in it, so that what
an undone clause left behind stays there.  `BeliefTransition` keeps the path with
the facts `F` and `U` of each state, rebuilds the clauses of the path as the
planner does, and carries `hist`, the histories of worlds that agree with it.
`NondetStagnation` has the branches for an effect that may add its fact and for one
that may delete it (`ChanceAdds`).

*Search.*  A node of the search space is named by its path.  `SelectLeaf` is
`get_open_leaf_of_best_subtree`, `ApplyOperator` and `ApplyObservation` one
operator of an expansion, `UpdateNode` one node of the path on the way up.  The
order of the sons follows the order of the facts in the state and is a free
choice.  In `RelaxedFF` the counters, levels and flags of the connectivity graph
are state that the next call finds.

## Runs

| Run | Shows | Bounds |
|---|---|---|
| `graph_reach` | whatever concurrent compatible actions establish in *k* steps is in layer *k* without mutexes (`MutexSound`); mutexes are symmetric, layers grow, mutexes shrink, `create_init_graph` ends on a usable graph (`GraphSettled`) | 6 atoms, 5 actions, 3 initial states, every executable segment of at most 3 actions, repetitions included |
| `exec_plan` | counts, goals and extracted actions stay in step through every undo, and extracted actions are never mutex (`ExtractionConsistent`); the result keeps the contract, refines `PlanExecutive`, is no longer than the sequence; the call returns | as `graph_reach`; all orders of the containers |
| `sequential_bound` (violated) | with an action that achieves two goals at once there are orders of the goals in which the extraction fails at every layer | 2 actions |
| `knowledge` | after any observations the expert allows exactly the worlds consistent with them and leaves no undecidable unknown; the recursion is confluent, settles every fact to its true value, and ends | 5 facts, all families of one to three oneofs out of six, overlaps included; observations of any fact in any order and number; actuations on known facts |
| `actuate_unknown` (violated) | acting on an unknown fact leaves the conditionals stale | as `knowledge` |
| `cocg_tree` | a subgraph is entered at `t0_` with what the expert knows being true (`EnteredInStep`); on a branch where no segment is given up every dispatched action is applicable, whatever the contingent plan would make true is true at the end, and it never takes longer; every branch ends | 5 plan trees: no observation, one, two nested in the false branch, two in a row, empty branches and empty segments; every world; every result of every segment |
| `plan_delivery` | what the reader builds is the plan that was printed (`ReadsBack`); what is decoded acts like what was encoded (`SameWalks`) | all plans of up to 3 levels with two actions and a sensing action; 3 nodes in a printed level instead of 2048, so that the planner gives up in the middle of a plan, too |
| `plan_codec_kind` (violated) | decoding turns actuation nodes into sensing nodes | as `plan_delivery` |
| `problem_expert` | saving ends the process only because of an instance taken away (`ExitsOnlyOnStale`); what is saved loads the same, but for longer or-clauses (`ReloadsSame`); taking back an unknown fact settles its oneofs (`UnknownTakenBack`); `check` is the truth of a condition, `apply` carries out what it can, and two modifiers of an effect one after the other, each on the values the one before it left | sequences of calls over 4 candidate instances, two of which come back with another type, 2 stored conditionals at a time, numbers up to a small bound (`SmallNumbers`); 33 conditions and effects in 9 states, three of them effects of two modifiers that fit the ids; 8 node ids instead of 256 in the evaluation, so that trees with more nodes occur |
| `front_end` | no pass changes what a formula says and each leaves what the next one relies on (`Normalises`); whatever is applied and observed, the graph and the actions it was made from agree in every world (`GraphFaithful`); an action is what its name says and none is missing (`NamedRight`, `NoneLost`), but for the operators that the code misnames, misreads or loses instances of (see the findings), which occur in the run and are named in the statements | conditions of up to three connectives over two constants; two rooms, up to 6 actions out of a robot's, a lamp's and a door's; operators with two or three parameters and effects with up to three more, over three constants |
| `clauses_beliefs` | the test answers right, call after call, and never meets the planner's exits; the lists followed are those of the clauses, over nested saves and restores; a belief state is exactly what can be known (`BeliefExact`); a state is cut only if an earlier one is as good in every world, and where nothing was observed whenever one is; the program ends only over an unknown fact of the initial state that no clause mentions (`CutIsSafe`) | 3 variables, 12 databases, 6 queries, 2 calls; 3 timed facts, 3 clauses, nesting 2, 4 tests; 12 tasks, with facts that chance may add, may delete, or both, paths of 4 steps (3 for the larger tasks) |
| `search` | marks and values agree all over the tree and a plan found works in every world (`SearchSound`); it is cheapest, and a failure proves that there is none (`SearchOptimal`); every search ends; heuristic 3 is not misled by an earlier call; heuristic 2 gives up only beliefs that have no plan, or none without a precondition that becomes known indirectly (`HasPlan`, `Direct`), and its relaxed plan serves every world when chance is kind | 6 tasks, AO* and weak AO*, three ways of combining branches, giving up, all stagnation settings, paths of 5; 4 tasks with 2 calls of heuristic 3; every task of 2 to 4 out of 12 operators that can reach the goal, one of 6 and one with chance in it, for heuristic 2; every belief over two unknown facts |

`KnowledgeActuation`, `PlanExecutionBound` and `PlanDeliveryKind` are the
configurations of the violated runs; the other runs have the name of their module.

### Bounds

The bounds are named in the configurations, or in the MC modules next to the
values.  They are meant to be just large enough for the interesting cases to
occur:

* Three actions let two of them be compatible, interfere or undo each other, let
  the graph need a layer more than the goals' first appearance, and reach the
  layer bound.  The safety properties of the graph, of the extraction and of the
  returned layers are moreover proved for all domains and segments.
* Three oneofs of up to three facts make chains of settled facts and two oneofs
  settling the same fact.  `BeliefExact` and `PropagatesTruth` are moreover proved
  for all problems.
* Five plan trees make the time of a subgraph depend on two earlier segments.  What
  is said of the execution is moreover proved for plan trees of any size.
* Plans of three levels have a sensing action below a sensing action and, with
  three nodes to a level, levels that are cut off.
* The problem store takes a constant of the domain, two objects and one that comes
  back with another type (`MCCandidates`), so that facts, values, conditionals and
  goals are left that refer to what is no longer there, or is something else.
  33 conditions and effects over 9 states cover every kind of node, error and
  modifier, and pairs of modifiers that do not commute, or of which one fails, with
  the 7 nodes they take; node ids wrap at 256 (`IdRange`) in the store and at 8 (`SmallIdRange`)
  in the evaluation, so that trees do not fit.  `MaxCalls` bounds `check` and
  `apply` in a row, `SmallNumbers` the values that repeated modifiers reach,
  `MaxConditions` the conditionals stored at a time.
* Conditions have two connectives below a negation or a quantifier; that is what
  a pass and its neighbours can disagree on.  Operators have one shared type, a
  static predicate, an intersected type and a condition with a disjunction each,
  so that every pass of the instantiation has something to remove.  `Chained` has
  static facts that meet the table of values partly filled by another one,
  `Misreadable` and `Observers` an operator for each way the code reads one wrong.
* Three variables allow every kind of clause, parity and equality databases that
  need both branches, and propagation through two levels; two calls
  show what a call leaves behind.  The answers are moreover proved right for all
  databases, queries and numbers of calls.
* Three timed facts and three clauses make codes and list cells be reused;
  `MaxNesting` 2 is what `stagnates` does.  That lists and clauses agree is moreover
  proved for all clauses and bounds.
* Paths of three or four states contain a state and two ancestors to compare it
  with; the tasks have hidden facts, chance, clashing and jointly impossible
  conditions.  Leaving out or turning round the treatment of a fact that chance may
  delete, in any of the operators of `NondetStagnation` that have one, makes
  `CutIsSafe` fail on `Fading`, `Relit` or `Faded`.
* A search of five steps meets dead ends, re-evaluated nodes, and values that
  change the best branch; the heuristic of this part (`MCH`) is admissible, and it
  is a parameter: `RelaxedFF` and `RelaxedBelief` model the real ones.  `SearchSound` is
  moreover proved for all tasks, heuristics and settings.
* The tasks of heuristic 2 have both ways to support a goal in several worlds
  (an implied fact, an operator without conditions, an observed precondition).  No
  task is left out for what heuristic 2 does on it: with all operators in place of
  `Direct`, or without luck in `RelaxedPlanSuffices`, the run fails.

Deadlock is not checked where a specification models a call, or an execution, that
ends.

### Fairness

The programs are sequential: once a call is entered nothing else runs, and its
next step is taken.  `FairSpec` of `PlanExecution` (weak fairness of `Plan`, the
call of `compute_planning_graph`) and `Spec` of `Knowledge` (of
`removeConditionalUnknown`) state exactly that.  `Spec` of `CoCGTree` also assumes
that the executor goes on with the next layer.  `AnySpec` of `MCSearch` states weak
fairness of the search; the searches followed to their end (`Followed`) are those
over the tasks of `Ending`, one of them without a plan, one with a dead end, with
every command line in mode 1 that compares a state with all its ancestors or with
none: the choice
keeps the search for counterexamples short and excludes no step of the searches
followed.  Observations and actuations of `Knowledge` get no fairness: nobody
promises that they happen.

## Findings

* `sequential_bound`: `cocg_graphplan.cpp:367` drops an already achieved goal and
  goes on with the loop without extracting what remains.  If a goal that still
  needs an action comes later in the loop it is chosen and all is well; if the
  already achieved goal is the last one, a complete extraction is reported as
  failed and undone.  Whether that happens depends on the order in which the
  `unordered_set` of goals is walked.  For the robot that moves and drops the box,
  it happens at every layer whenever the room comes before both effects of the
  drop, also if every activation walks its goals in the same order.
  `cocg_core.cpp:147` takes the sequential plan for the worst case.
* `actuate_unknown`: `cocg_utils.cpp:23` applies effects to predicates and
  functions only; conditionals about facts the action changes stay.
* `plan_codec_kind`: `utils.cpp:95` encodes the shared son of an actuation node
  once, and decoding does not share it again.

The first matters together with `cocg_core.cpp:176`: a segment that is given
up returns no layers, which is also the answer for a segment with nothing to do.
`build_cocg_subgraph` cannot tell and prints the branch without its actions.  The
properties of `cocg_tree` are therefore stated for branches without such a
segment, and say nothing of the others.

Seen while modelling, kept in the models as the code has it, and allowed for in
the statement of a property where it would otherwise not hold:

* `cocg_graphplan.cpp:112`: a negative precondition is looked up in a layer that
  holds positive facts only and never enters the graph.
* `cocg_problem_expert.cpp:255`: an unknown fact in no oneof is forgotten when it is
  observed true.
* `cocg_problem_expert.cpp:472`: `removeInstance` cleans goals that are
  conjunctions, others stay; `:865`: an or-clause is written with its first two
  facts.
* `cocg_problem_expert_utils.cpp:102`: negation is passed down to the facts of a
  condition without turning conjunctions and comparisons round; `:357`: a
  quantifier over the facts of a vector ranges over nothing.
* `cff_plan_solver.cpp:170`: a plan cut off after a level of 2048 nodes leaves
  nodes without a name; `:54`: an empty line of the output is read past its end.
* `cff/inst_final.c:2023`: that a deterministic effect interferes with a
  nondeterministic one is noticed only if the nondeterministic one comes first.
* `cff/inst_easy.c:394`: when a parameter of an operator is removed before the unary
  static facts become types and another one after, a ground action is named after
  other constants than it was made with (`RemovedTwice`).
* `cff/inst_easy.c:754`: a parameter that only unary static facts are about is
  removed without looking whether any constant has them all (`Emptied`).
* `cff/inst_easy.c:1011`: the static facts of an effect bind its parameters to
  constants of any type (`Loose`); here and at `:1280` a parameter that occurs twice
  in one fact may stand for two constants (`Twice`).
* `cff/inst_hard.c:191`: a parameter of a hard operator that occurs only in what the
  operator observes is removed as unused.  The operator is instantiated with the
  first constant of its type, and its other instances are lost (`Overlooked`).
* `cff/inst_hard.c:232`: when a parameter of an effect of a hard operator is removed,
  the names move up and the types do not (`Retyped`).  All of these occur in
  `front_end`; `NamedRight` and `NoneLost` say of which operators they do not speak,
  and what is lost or misnamed of the others.
* `cff/state_transitions.c:535`: a fact becomes unknown by an effect whose
  conditions are each unknown but never hold together; `:906`: a fact in no clause
  is taken to satisfy any condition on it, a condition and its negation at once
  too, so that an operator can be skipped for effects that never meet; `:3101`:
  `dp` leaves its stack as it is when it finds a model, and `dp_CNF` clears it.
* `cff/repeated_states.c:1200`: the stagnation test ends the program on
  an unknown fact that never got a variable.  It does so in `clauses_beliefs`, and
  `CutIsSafe` says when.
* `cff/search.c:353`: giving up is charged for the edge and for the node it leads
  to; `:653`: of equal values an actuation is preferred, where the comment above it
  says observations.
* `cff/relax.c`: heuristic 2 gives up beliefs that have a plan when a precondition
  can only be observed after another observation, or becomes known through a fact it
  is tied to; `:3589`: what an operator of the relaxed plan adds by chance is taken
  to come about.  Both occur in `search`; the statements except plans that need the
  first (`Direct`) and grant the second.

## Proofs

### The planning graph

`GraphReachabilityProofs` proves, for every domain (`DomainAssumption`: the
constants have their types; `EffectsAssumption`: no action both adds and deletes
an atom) and every set of segments (`SegmentAssumption`: initial state and goals
hold positive facts, and a segment without actions asks for nothing that is not in
its initial state, as its goal state is a copy of it):

* `TypeCorrect`: `Spec => []TypeOK`.
* `MutexSoundness`: `Spec => []MutexSound`.  The property is not inductive: the
  mutexes of a layer mean something only because they were computed from the
  layer below.  `ReachabilityInv` adds `GraphShape` (layer *k + 1* is what
  `create_graph_layer` computes from layer *k*, and the first one is the initial
  state) and that the world never holds a fact and its negation.  A world step
  keeps it because compatible applicable actions, together with the noops of the
  facts they leave alone, are pairwise non-mutex nodes of the next action layer
  (`StepAdmitted`); a graph step because it only appends (`GrowShape`).
* `GraphMonotone`: `Spec => [](LayersGrow /\ MutexesShrink)`, by comparing
  successive layers under `GraphShape` (`NodesPersist`, `StateMutexShrinks`,
  `ActionMutexShrinks`).  A mutex of state nodes can only go away as their
  supporters can only become more.
* `MutexesSymmetric`: `Spec => []MutexSymmetric`.
* `GraphIsSettled`: `Spec => []GraphSettled`, if every segment is `Feasible`: its
  actions can be applied one after the other and lead to the goals.  Both loops of
  `create_init_graph` may also end by their bound; that they never do so with a
  goal missing or mutex is a claim about the number of actions.  `CourseAdmitted`
  follows the segment through the graph, one action to a layer and nothing but
  noops from then on: `StepAdmitted` says that each state on the way is in its
  layer without mutexes, so that the goals are in the last one when the bound is
  reached (`EnoughLayers`).  `SettledInv` remembers which segment the graph is for.
  `Feasible` counts a negative precondition as met only if an action made the fact
  false: with `cocg_graphplan.cpp:112`, where the first layer holds no negative
  fact, the theorem would be wrong otherwise.  The segments of `graph_reach` are
  feasible (`SegmentsFeasible`).

`GraphPlanProofs` has the lemmas about layers that these proofs and the next ones
share.  Induction over the naturals is a lemma about sets (`NatSetInduction`, in
`LayeredPlanProofs`), which is what the recursive functions `Established`,
`StatesAlong` and the one in `SegmentLayers` need.

### Extraction and execution

`PlanExecutionProofs` proves under the same assumptions, whatever the order in which
the containers are walked and however deep the recursion:

* `PlanTypeCorrect`: `Spec => []TypeOK`.
* `ExtractionIsConsistent`: `Spec => []ExtractionConsistent`.
* `NeverLongerThanSequential`: `Spec => []NoLongerThanSequential`.
* `LayersRefineExecutive`: `Spec => RefinesExecutive`: planning and executing
  implement `PlanExecutive`.  Every step is one of it or changes nothing it sees
  (`StepRefines`): leaving `create_init_graph`, extracting and retrying stutter,
  and an action of a layer is performed where its preconditions hold.
* `ContractIsKept`: `Spec => []ContractKept`: the returned layers are valid in every
  order.
* `ResultsAreSegmentLayers`: what `compute_planning_graph` returns is in
  `SegmentLayers`, from which `CoCGTree` takes the result of a segment.  With
  `SegmentLayersExact` of `LayeredPlanProofs` the replacement is justified in both
  directions: `CoCGTree` leaves out no result, and every result it allows is
  performable in every order of its layers, leads to the goals and is no longer than
  the segment.

The invariant has four parts, each checked by TLC first.  `GraphInv` is the shape
of the graph.  `ExtractionInv` is about the activations on the stack:
`ExtractionConsistent` speaks of the running one only, and an undo goes back to a
caller whose counts, goals and choices must still be right, so `StackInv` says
so of every activation, with respect to the choices of those below it on the
stack.  `LiveInv` says that the extraction layers hold exactly these choices while
an activation runs or is about to undo one, and that the layers above are
complete; `ResultInv` that an extraction reported as complete is.  After a failure
in a lower layer, which counts as extracted all the same, nothing is said of the
layers: no caller goes on or takes a choice back, and the other boolean reports
the failure.  `ExtractedCompatible` is part of the invariant as it stands.
`SegmentInv` says that a result is read in the call that waits for it.
`ExecutionInv` says of the middle of a layer what each of its nodes stands for
(`Upheld`): an action not yet performed its preconditions, a performed one and a
noop its effects; that no order of the layer destroys one of these is where the
absence of mutexes is used (`PerformKeeps`).

### Knowledge

`KnowledgeProofs` proves, for every finite set of facts, every actuation and every
problem in which an unknown fact is listed by a oneof, oneofs have at least two
candidates, and no unknown fact is a predicate (`KnowledgeAssumption` with
`Backed`; every problem file of the repository that has unknown facts is of this
form, see `cocg_problem_expert.cpp:255` above for what happens otherwise):

* `KnowledgeInvariant`: `Spec => []KnowledgeInv`.
* `CallsAreTrue`: `Spec => []PropagatesTruth`.
* `KnowledgeIsExact`: `Spec => []BeliefExact`.

`BeliefExact` is about the moments between two actions.  In the middle of a
propagation the expert allows too many worlds: a fact can be settled by an
activation and not yet be recorded.  `Pending` collects these facts, the calls
just entered and what the loops of their callers still owe, and `KnowledgeInv`
says that the worlds the expert allows and that agree with `Pending` are the
belief, and that an unknown no longer listed by any oneof is pending.  Erasing an
unknown moves facts from the oneofs to `Pending` without changing that set
(`FoundTrue`, `FoundFalse`); a call that finds its unknown gone was pending with
a value that is already recorded (`UnknownNotFoundKeeps`).  As the pending facts
may be settled in any order, the proof holds for every order of the recursion.

### The tree

`CoCGTreeProofs` proves, for every finite set of facts (`FactsAssumption`) and every
set of plans whose nodes form a tree (`PlanAssumption` with `IsPlanTree`: pointers
lead to nodes or are null, and never back, so that every nonempty set of nodes has one
whose pointers leave the set):

* `SubgraphsStartAtT0`: `Spec => []ClockIsT0`, without further assumptions.
* `ExpertFollows`: `Spec /\ []ActsOnKnown => []EnteredInStep`.
* `DispatchesAreApplicable`: `Spec /\ []ActsOnKnown => []DispatchApplicable`, if no
  action has a negative precondition.
* `EndsLikeThePlan`: `Spec /\ []ObservesOpen => []EndsLikeContingentPlan`.
* `NeverSlowerThanPlan`: `Spec /\ []ObservesOpen => []NeverSlower`.

The hypotheses are about plans, not about the code, and none can be left out.  `ActsOnKnown` says that no action that is dispatched changes a fact which
a oneof still lists: the expert would go on concluding from a oneof that no longer
holds.  Negative preconditions have to be excluded because they are looked up among the
facts the expert takes for known: a fact it does not know may be true in the world,
and the action that was to make a fact false may be missing from the layers, which
keep only what their positive goals need.  `ObservesOpen` says that what a subgraph
observes is listed by one of the oneofs it is entered with, and that the actions
before the observation change no fact listed there: otherwise the expert and the
contingent plan, which looks at the world, may follow different branches.
`PlansActOnKnown` and `PreconditionsPositive` in `MCCoCGTree` show that the plans and
the domain of the run `cocg_tree` meet all three.

Building and executing have invariants of their own; TLC checked them, as invariants
of `cocg_tree`, before the proof.  `TreeInv` is about the recursion.  `FramesInv` says
that the open calls of `build_cocg_subgraph` nest: the path of a call is that of
its caller and one outcome, what a caller has recorded is what it passes on, and
what is below an outcome it has not come to is not recorded yet, so that nothing
is recorded twice.  `SubgraphsInv` says of every recorded subgraph that it is
entered as its parent was left (`Follows`: the time after its layers and the
observation, and the expert at the end of the segment, having sensed), `CompleteInv` that a recorded
subgraph with an observation has both its branches or a call that will build
them, `ExecInv` where an execution can be.  `WorldInv` is about the
execution: while no segment was given up, the world is one the expert of the
subgraph allows, seen from the state its layers have reached (`StatesAlong`), and
in the middle of a layer every order of the actions that are left leads on from
there (`Upheld`).  An observation keeps it because the propagation is sound
(`SettledSound`, `SensingTrue`): what a round of `AfterSensing` concludes from
oneofs that hold in the world is true there.

The last two theorems compare an execution with the contingent plan, performed one
action at a time (`Sequential`).  `SegmentsInv` says that the layers of a recorded
subgraph were made from the actions on the walk from its node, and `AlongsideInv`
that the contingent plan, after some number of steps, is at the node of the subgraph
the execution is in: the two agree on what may still be observed, the world has what
the contingent plan would make true, and no fewer steps were taken than layers.
`MidNodes`, `StopNode` and `SequentialFrom` follow the pointers of the tree, and that these
recursive functions exist and compute what they say is an induction over the tree
(`TreeInduction`), for which `IsPlanTree` is what is needed.

### The search

`AndOrSearchProofs` proves `SearchIsSound`, `do_best_first_search => []SearchSound`:
over the whole search the marks and values agree, the exits of the code that say
otherwise are not reached, and the plan it prints works in every world the task
allows, whatever is observed on the way.  It does so for every set of tasks and
command lines that is described by `SearchAssumption` (the cost of an edge and the
weight are not negative, as the solver's call sets neither; an operator observes at
most one fact, which is all that `state_transitions.c:278` and `inst_pre.c:539` look at)
and for every heuristic that returns a number of steps or `INFINITY` (`HeuristicType`;
`StepsTyped` in `MCSearch` says so of the one in the run).

An expansion brings up to date one path only, and each `UpdateNode` chooses among
edges whose values come from different expansions.  `SearchInv` says that the nodes
still to be brought up to date (`Pending`, the path from the current one to the root)
are undecided, and that all others are `Settled`: the best edge is live, the mark is
that of its sons, and in AO* no live edge is cheaper.  An expansion adds fresh nodes
below a leaf and so touches no node off the path (`StaysSettled`, `GrowsWell`); the
loop over the edges is the least of them (`BestOfIs`, by induction over the edges
considered); the walk to the next leaf passes undecided nodes only (`WalkUndecided`).
For the plan, `PlanInv` says that in every world a node allows each of its edges leads
on to a world that the son allows (`LeadsOn`), that a node solved without an edge
satisfies the goal in all its worlds, and that a node with edges is shorter than
`MaxPlanLength`.  A run of the plan therefore follows solved nodes through the tree
(`RunOnTrack`), one level deeper with each step, and rests at a goal in time
(`PlanWorks`).  That the world is among those the node allows is what an observation
has to keep, and the reason why both its sons are there.

### The satisfiability test

`ClausesProofs` proves, for every number of variables, every set of databases
and every sequence of calls (`SolverAssumption`: the constants have their types;
`CallerAssumption`: nothing empty is asked, no clause is empty, and the stack has
room for every variable, which is what the callers see to):

* `AnswersRight`: `Spec => []AnswerExact`, the answer of `dp_CNF` is right.
* `ExitsUnreached`: `Spec => []NeverExits`, its error exits are never taken.
* `OnlyEntailed`: `Spec => []PropagationEntailed`, unit propagation adds only what
  follows from the branch it is made in.
* `ArrayFollowsStack`: the array of assigned literals is at every moment what the
  decision stack says, and empty between calls.
* `TypesKept`: `Spec => []` of the types.

The invariant is `DpInv`.  `AnswerExact` alone is not inductive: that no model
exists rests on first branches refuted earlier, which are no longer on the stack.
Its parts are `InStep` (array and stack hold the same literals, each once),
`InsertInv` (what is inserted before the search starts loses nothing that is
asked), `FrameInv` (an open call was entered without a contradicted clause, the
entries below it follow from the ones chosen, and in a second branch the first
one has no model), `AskedBelow`, `PendingInv` (a clause that is contradicted will
still be looked at before the propagation ends) and `ReturnInv`.

### The clause base

The same module proves `ClauseListsMatch`: `BaseSpec => []ListsMatchClauses`, for all
timed facts, clauses and bounds and every sequence of extensions, nested tests,
restores and undoes.  With the results above, that is what the propagation over
sets of clauses in `DavisPutnam` rests on: following a list meets each clause that
contains the literal, once, and nothing an earlier path left.  The assumption
(`ClauseAssumption`) is that a clause has each of its literals once.
`state_transitions.c:1470` and `:1623` check this of the clauses made from hitting
sets; a disjunction of the problem file that repeats a literal is outside the
theorem, and would have its clause twice in a list.

`ListsMatchClauses` is not inductive: that a cut gives back the lists of the
remaining clauses is not a matter of the present lists alone, since cells behind
their ends are never erased, `gnum_c` stays when a test is restored, and codes above
it keep their facts.  `BaseInv` adds:

* `Fits`: codes, facts, clauses and lists belong together, a list holds its clauses
  in order, and a code without a list has no clause either.
* `Extensions`: the base can be cut back to the clauses of the initial state and to
  each of the stands in `saved`.  `CutsAt` says what that takes: the entries of a
  list up to the saved end are exactly its clauses up to the saved number, and the
  clauses up to there use codes up to the saved one only.

An encoded literal keeps the first and adds its clause behind every stand
(`EncodedFits`, `EncodedGrows`); clauses and batches follow by induction over their
length (`ClauseEncoded`, `BatchEncoded`).  A cut gives a base that fits (`CutFits`),
and one that can still be cut to the stands below (`CutKeepsCut`).

### Only model-checked

* Liveness (`Answered`, `SensingEnds`, `BranchEnds`, `EverySearchEnds`): fairness
  and ENABLED are out of the prover's reach.
* `PropagationConfluent`: `AfterSensing` computes a fixpoint in rounds, recursively;
  that it is the end of every order needs an induction over those rounds.  What it
  means for the worlds allowed is proved (`KnowledgeIsExact`).
* `SearchOptimal`: that the answer is cheapest rests on the heuristic being
  admissible, with least costs computed as a fixpoint over all belief states of the
  task.
* The delivery, the problem store, the evaluation, the normal forms, the
  preprocessing, belief states and the stagnation test: recursive operators over
  trees, texts and formulas, out of the prover's reach.
* Heuristics 2 and 3: `RelaxedPlanRight` and `BeliefHeuristicRight` compare with what
  is computed over all worlds and all plans of a task; the invariants this needs are
  not proved.

## Not modelled

* The domain reader and the domain expert, the PDDL parsers (the generated ones of
  Contingent-FF among them), and all printing: text in, text out.
* Starting Contingent-FF as a process, temporary files, time measurements and
  statistics.
* Arithmetic of doubles: values are integers, and division is that of integers.
* `or` conditionals in the propagation: stored by the code and never used there.
* Heuristics 0 and 1 of `cff/relax.c`, which rest on implications between paths of
  the relaxed plan, and its option to count observations (`observe_h`).
* In `cff/inst_hard.c`, equalities and the details of multiplying disjuncts out.
* The order in which helpful actions are tried; capacity limits of Contingent-FF's
  static tables, but for the ones named (`MaxPredicates`, `MaxRelevant`,
  `Capacity`, `MaxPlanLength`).

## Plan

1. Done: planning graph, extraction, compute call, knowledge, subgraph tree,
   delivery, problem store, evaluation; preprocessing, satisfiability test, clause
   base, belief states, stagnation, search and heuristics 2 and 3 of
   Contingent-FF; proofs about the planning graph and the satisfiability test.
2. Done: proofs about the extraction, the returned layers and the refinement; about
   the propagation; about what `create_init_graph` hands over.
3. Done: proofs about the tree, with the comparison to the contingent plan, and that
   the contract it is built on is what `compute_planning_graph` keeps; about the
   search.
4. Done: proof of `ListsMatchClauses`, so that what `DavisPutnam` assumes of the
   lists is proved as well.
5. Left: heuristics 0 and 1 of `cff/relax.c`, against the same statement as heuristic 2.
