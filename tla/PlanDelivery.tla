---------------------------- MODULE PlanDelivery -----------------------------
(***************************************************************************)
(* A contingent plan on its way to the executor: Contingent-FF prints it,  *)
(* CFFPlanSolver reads it into a tree of ContPlanNodes (PlanText).         *)
(* encode_plan flattens that tree into a preorder sequence of flags (1 for *)
(* a node, 0 for nullptr) and one of items; decode_plan rebuilds a tree    *)
(* from two queues that its recursive calls share.                         *)
(***************************************************************************)
EXTENDS PlanTree, Integers, FiniteSets

CONSTANTS Plans, NoPlan, MaxLayer

Root == 1

\* Mutant: the false part comes first.
EncodedSwapped(nodes) ==
  LET code[n \in DOMAIN nodes \union {nullptr}] ==
        IF n = nullptr THEN [structure |-> <<0>>, items |-> <<>>]
        ELSE LET t == code[nodes[n].true_node]
                 f == IF IsSensing(nodes, n) THEN code[nodes[n].false_node]
                      ELSE code[nullptr]
             IN  [structure |-> <<1>> \o f.structure \o t.structure,
                  items     |-> <<nodes[n].item>> \o f.items \o t.items]
  IN  code[Root]

(* encode_plan.  The second son of an actuation node is encoded as nullptr.*)
Encoded(nodes) ==
  LET code[n \in DOMAIN nodes \union {nullptr}] ==
        IF n = nullptr THEN [structure |-> <<0>>, items |-> <<>>]
        ELSE LET t == code[nodes[n].true_node]
                 f == IF IsSensing(nodes, n) THEN code[nodes[n].false_node]
                      ELSE code[nullptr]
             IN  [structure |-> <<1>> \o t.structure \o f.structure,
                  items     |-> <<nodes[n].item>> \o t.items \o f.items]
  IN  code[Root]
------------------------------------------------------------------------------
VARIABLES nodes,        \* the tree that was encoded
          struc, data,  \* the queues of decode_plan
          built,        \* the nodes allocated so far
          calls,        \* open calls: the node, and the son being decoded
          ret           \* what the last call returned, or Pending

vars == <<nodes, struc, data, built, calls, ret>>

Pending == <<>>

\* No call yet: nothing was encoded.
Init ==
  /\ nodes = <<>> /\ struc = <<>> /\ data = <<>>
  /\ built = <<>> /\ calls = <<>> /\ ret = <<nullptr>>

\* encode_plan of a tree, and the call of decode_plan on the other side.
EncodePlan(plan) ==
  /\ nodes' = plan
  /\ struc' = Encoded(plan).structure
  /\ data' = Encoded(plan).items
  /\ built' = <<>> /\ calls' = <<>> /\ ret' = Pending

top == calls[Len(calls)]

\* An exhausted structure reads as a null pointer.
NextFlag == IF struc = <<>> THEN 0 ELSE Head(struc)

DecodeNull ==
  /\ ret = Pending /\ NextFlag = 0
  /\ struc' = IF struc = <<>> THEN struc ELSE Tail(struc)
  /\ ret' = <<nullptr>>
  /\ UNCHANGED <<nodes, data, built, calls>>

DecodeNode ==
  /\ ret = Pending /\ NextFlag = 1
  /\ struc' = Tail(struc)
  /\ data' = Tail(data)
  /\ built' = Append(built, ContPlanNode(Head(data), nullptr, nullptr))
  /\ calls' = Append(calls, [node |-> Len(built) + 1, son |-> "true"])
  /\ UNCHANGED <<nodes, ret>>

AssignTrueNode ==
  /\ ret # Pending /\ calls # <<>> /\ top.son = "true"
  /\ built' = [built EXCEPT ![top.node].true_node = ret[1]]
  /\ calls' = [calls EXCEPT ![Len(calls)].son = "false"]
  /\ ret' = Pending
  /\ UNCHANGED <<nodes, struc, data>>

AssignFalseNode ==
  /\ ret # Pending /\ calls # <<>> /\ top.son = "false"
  /\ built' = [built EXCEPT ![top.node].false_node = ret[1]]
  /\ calls' = SubSeq(calls, 1, Len(calls) - 1)
  /\ ret' = <<top.node>>
  /\ UNCHANGED <<nodes, struc, data>>

decode_plan == DecodeNull \/ DecodeNode \/ AssignTrueNode \/ AssignFalseNode

Decoded == ret # Pending /\ calls = <<>>
------------------------------------------------------------------------------
VARIABLES tree, lower, t, file, tree_map, line, pc   \* of PlanText

Text == INSTANCE PlanText WITH Trees <- Plans

(* The pointers of the tree read, numbered from the root: a node stands    *)
(* before its sons, as it was made before them.                            *)
Number(id) ==
  IF id \notin DOMAIN tree_map THEN nullptr
  ELSE Cardinality({x \in DOMAIN tree_map : x[1] < id[1] \/ (x[1] = id[1] /\ x[2] <= id[2])})

\* The PDDL action of an item tells whether it senses.
Item(item) == <<IF item.action = "sense" THEN "sense" ELSE "act", item.action, item.time>>

TreeRead ==
  [n \in 1..Cardinality(DOMAIN tree_map) |->
     LET x == tree_map[CHOOSE id \in DOMAIN tree_map : Number(id) = n]
     IN  ContPlanNode(Item(x.item), Number(x.true_node), Number(x.false_node))]

DeliveryInit == Text!Init /\ Init

Solve == Text!Next /\ UNCHANGED vars

Send ==
  /\ pc = "returned" /\ pc' = "sent"
  /\ EncodePlan(<<>> \o TreeRead)
  /\ UNCHANGED <<tree, lower, t, file, tree_map, line>>

Receive == decode_plan /\ UNCHANGED <<tree, lower, t, file, tree_map, line, pc>>

Deliver == Solve \/ Send \/ Receive

DeliverySpec == DeliveryInit /\ [][Deliver]_<<tree, lower, t, file, tree_map, line, pc, nodes, struc, data, built, calls, ret>>
------------------------------------------------------------------------------
(* The nodes met along one sequence of observations, and the value of each *)
(* observation, until the walk reaches nullptr.  An actuation node that    *)
(* lost its kind goes on with its true son.                                *)
Walk(plan, answers) ==
  LET step[n \in DOMAIN plan \union {nullptr}, k \in 0..Len(answers)] ==
        IF n = nullptr THEN <<>>
        ELSE IF plan[n].item[1] = "act" THEN <<plan[n].item>> \o step[plan[n].true_node, k]
        ELSE IF k = Len(answers) THEN <<plan[n].item>>
        ELSE <<plan[n].item>> \o
             step[IF answers[k + 1] THEN plan[n].true_node ELSE plan[n].false_node, k + 1]
  IN  step[IF DOMAIN plan = {} THEN nullptr ELSE Root, 0]

(* The decoded tree does the same as the encoded one under every sequence  *)
(* of observations, actuation nodes being told by their items.             *)
SameWalks ==
  Decoded => /\ struc = <<>> /\ data = <<>>
             /\ \A answers \in UNION {[1..k -> BOOLEAN] : k \in 0..3} :
                  Walk(built, answers) = Walk(nodes, answers)

(* "If true_node and false_node are equal, then the node is a actuation    *)
(* action. Otherwise, it is a sensing action.": a node that comes back as  *)
(* a sensing node was sent as one.                                         *)
KindKept ==
  Decoded => \A n \in DOMAIN built : IsSensing(built, n) => built[n].item[1] = "sense"

(* What CFFPlanSolver reads is what Contingent-FF found: the same actions  *)
(* at the same times after every sequence of outcomes.                     *)
ReadsBack == Text!ReadsBack
==============================================================================
