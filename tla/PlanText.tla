------------------------------- MODULE PlanText -------------------------------
(***************************************************************************)
(* How a contingent plan gets from Contingent-FF into CoCG: print_plan     *)
(* writes the best edges layer by layer, each with its number in the layer *)
(* and the numbers of its sons in the next; CFFPlanSolver runs the planner *)
(* and builds a ContPlanNode for each number it meets.                     *)
(***************************************************************************)
EXTENDS Integers, Sequences, PlanTree

CONSTANTS Trees,      \* plans: NoPlan, or [op, obs, sons]
          NoPlan,     \* no best edge: the goal holds
          MaxLayer    \* 2048, actions of a level that can be printed

VARIABLES tree, lower, t,      \* print_plan: the layer to print, its time
          file,                \* pddlplan.1
          tree_map, line,      \* the reader's nodes, and the next line
          pc
vars == <<tree, lower, t, file, tree_map, line, pc>>

Id(time, i) == <<time, i>>
NoNode == Id(0, -1)      \* nullptr
\* A line: of one action, with the numbers of its sons, or some text.
Row(id, tr, sons) == [text |-> "row", id |-> id, op |-> tr.op, sons |-> sons]
Text(words) == [text |-> words]
Header == Text("ff: found plan as follows")
Separator == Text("---")
EmptyPlan == Text("(empty plan)")
Blank == Text("")

Init ==
  /\ tree \in Trees
  /\ lower = <<>> /\ t = 0 /\ file = <<>>
  /\ tree_map = << >> /\ line = 1
  /\ pc = "header"

PrintHeader ==
  /\ pc = "header"
  /\ file' = file \o (IF tree = NoPlan THEN <<Header, EmptyPlan, Blank>> ELSE <<Header>>)
  /\ lower' = <<tree>>
  /\ pc' = IF tree = NoPlan THEN "open" ELSE "layer"
  /\ UNCHANGED <<tree, t, tree_map, line>>

(* The sons of a layer that are to be printed, in the order of their       *)
(* fathers, and the number of each.                                        *)
Live(sons) == SelectSeq(sons, LAMBDA x : x # NoPlan)
NextLayer(layer) ==
  LET upto[i \in 0..Len(layer)] == IF i = 0 THEN <<>> ELSE upto[i - 1] \o Live(layer[i].sons)
  IN  upto

\* Mutant: the numbers start again with every action of the layer.
NumbersRestart(layer, i) ==
  [j \in DOMAIN layer[i].sons |->
     IF layer[i].sons[j] = NoPlan THEN -1 ELSE Len(Live(SubSeq(layer[i].sons, 1, j - 1)))]

Numbers(layer, i) ==
  [j \in DOMAIN layer[i].sons |->
     IF layer[i].sons[j] = NoPlan THEN -1
     ELSE Len(NextLayer(layer)[i - 1]) + Len(Live(SubSeq(layer[i].sons, 1, j - 1)))]

Rows(layer, time) ==
  [i \in 1..Len(layer) |->
     Row(Id(time, i - 1), layer[i], [j \in DOMAIN layer[i].sons |-> Id(time + 1, Numbers(layer, i)[j])])]

Upper(layer) == NextLayer(layer)[Len(layer)]

PrintLayer ==
  /\ pc = "layer" /\ lower # <<>>
  /\ Len(Upper(lower)) <= MaxLayer
  /\ file' = file \o <<Separator>> \o Rows(lower, t)
  /\ lower' = Upper(lower)
  /\ t' = t + 1
  /\ UNCHANGED <<tree, tree_map, line, pc>>

(* exit(1), in the middle of the plan.                                     *)
TooManyActions ==
  /\ pc = "layer" /\ lower # <<>>
  /\ Len(Upper(lower)) > MaxLayer
  /\ file' = file \o <<Blank, Text("too many actions in one level for plan print!")>>
  /\ pc' = "open"
  /\ UNCHANGED <<tree, lower, t, tree_map, line>>

PrintTotals ==
  /\ pc = "layer" /\ lower = <<>>
  /\ file' = file \o <<Separator, Blank, Text("tree layers"), Blank>>
  /\ pc' = "open"
  /\ UNCHANGED <<tree, lower, t, tree_map, line>>
------------------------------------------------------------------------------
\* get_cocg_cont_plan_tree_root: everything up to the header is skipped.
SkipToPlan ==
  /\ pc = "open"
  /\ line' = 1 + CHOOSE i \in DOMAIN file : file[i].text = Header.text
  /\ pc' = "read"
  /\ UNCHANGED <<tree, lower, t, file, tree_map>>

NewNode == ContPlanNode([action |-> "", time |-> 0], NoNode, NoNode)
WithNode(map, id) == IF id \in DOMAIN map THEN map
                     ELSE [x \in DOMAIN map \union {id} |-> IF x = id THEN NewNode ELSE map[x]]

IsLeafId(id) == id[2] = -1

(* One line: its node gets the item, its sons are made if they are new.    *)
(* The only son of an actuation is both true_node and false_node.          *)
WithLine(map, row) ==
  LET son(j) == IF IsLeafId(row.sons[j]) THEN NoNode ELSE row.sons[j]
      last == Len(row.sons)
      own == WithNode(map, row.id)
      first == IF son(1) = NoNode THEN own ELSE WithNode(own, son(1))
      both == IF son(last) = NoNode THEN first ELSE WithNode(first, son(last))
  IN  [both EXCEPT ![row.id] = ContPlanNode([action |-> row.op, time |-> row.id[1]], son(1), son(last))]

IsRow(x) == x.text = "row"
Advance == line' = line + 1 /\ UNCHANGED <<tree, lower, t, file>>

ReadSeparator ==
  /\ pc = "read" /\ line <= Len(file) /\ file[line].text = Separator.text
  /\ UNCHANGED <<tree_map, pc>> /\ Advance

ReadLine ==
  /\ pc = "read" /\ line <= Len(file) /\ IsRow(file[line])
  /\ tree_map' = WithLine(tree_map, file[line])
  /\ pc' = pc /\ Advance

(* A line of two words: the third is read past the end of the tokens.      *)
ReadEmptyPlan ==
  /\ pc = "read" /\ line <= Len(file) /\ file[line].text = EmptyPlan.text
  /\ pc' = "undefined"
  /\ UNCHANGED tree_map /\ Advance

ReadEnd ==
  /\ pc = "read"
  /\ line > Len(file) \/ file[line].text = Blank.text
  /\ pc' = "returned"
  /\ UNCHANGED <<tree, lower, t, file, tree_map, line>>

PrintPlan == PrintHeader \/ PrintLayer \/ TooManyActions \/ PrintTotals
Read == SkipToPlan \/ ReadSeparator \/ ReadLine \/ ReadEmptyPlan \/ ReadEnd
Next == PrintPlan \/ Read

get_cocg_cont_plan_tree_root == Init /\ [][Next]_vars
------------------------------------------------------------------------------
(* The items met from a node along each sequence of outcomes; an actuation *)
(* has the same item after both.                                           *)
RECURSIVE PlanItems(_, _)
PlanItems(tr, time) ==
  IF tr = NoPlan THEN {}
  ELSE {<<<<>>, tr.op, time>>} \union
       UNION {{<< <<v>> \o x[1], x[2], x[3]>> :
                 x \in PlanItems(tr.sons[IF v THEN 1 ELSE Len(tr.sons)], time + 1)} : v \in BOOLEAN}

RECURSIVE NodeItems(_)
NodeItems(n) ==
  IF n = NoNode THEN {}
  ELSE {<<<<>>, tree_map[n].item.action, tree_map[n].item.time>>} \union
       {<< <<TRUE>> \o x[1], x[2], x[3]>> : x \in NodeItems(tree_map[n].true_node)} \union
       {<< <<FALSE>> \o x[1], x[2], x[3]>> : x \in NodeItems(tree_map[n].false_node)}

Root == IF Id(0, 0) \in DOMAIN tree_map THEN Id(0, 0) ELSE NoNode

(* What is read is what was found: the same actions at the same times      *)
(* after every sequence of outcomes.                                       *)
ReadsBack ==
  pc = "returned" /\ lower = <<>> => NodeItems(Root) = PlanItems(tree, 0)
==============================================================================
