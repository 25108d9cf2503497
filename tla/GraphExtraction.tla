--------------------------- MODULE GraphExtraction ---------------------------
(***************************************************************************)
(* Backward extraction of a layered plan from the planning graph:          *)
(* extract_solution and the recursion of extract_backward_from_layer, with *)
(* its call stack explicit.  A frame is one activation: its parameters     *)
(* (layer, cur_goals, cnt) and its locals.  The two nested loops walk      *)
(* unordered containers, so which goal and which supporting action come    *)
(* next is a free choice.  extraction_layers is passed by reference and    *)
(* shared by all the activations; prev_goals_cnt (cnt) is passed by value. *)
(***************************************************************************)
EXTENDS GraphPlan

VARIABLES stack,              \* activations of extract_backward_from_layer
          ret,                \* the value the last one returned, if unread
          extraction_layers   \* action nodes chosen so far, per layer

extractionVars == <<stack, ret, extraction_layers>>

\* (overall_extracted, cur_layer_extracted), or nothing to read.
NoReturn == <<>>
Return(found, extracted) == <<found, extracted>>
OverallExtracted  == ret[1]
CurLayerExtracted == ret[2]

NoFact == <<"none", "none">>
NoNode == <<"none", "none">>
NoCount == [f \in Literal |-> 0]

(* mode is where an activation stands: at the head of the loop over goals, *)
(* at the head of the loop over the supporters of a goal ("actions"), in   *)
(* the recursive call for the remaining goals of its layer ("same"), or in *)
(* the one for the layer below.                                            *)

Frame(layer, cur_goals, cnt) ==
  [layer |-> layer, cur_goals |-> cur_goals, cnt |-> cnt,
   remained_goals |-> cur_goals, todo |-> cur_goals,
   goal |-> NoFact, trying |-> {}, action |-> NoNode,
   mode |-> "goals", found |-> FALSE]

top == stack[Len(stack)]

ReplaceTop(s, frame) == [s EXCEPT ![Len(s)] = frame]
Pop(s) == SubSeq(s, 1, Len(s) - 1)

Running   == stack # <<>> /\ ret = NoReturn
Returning == stack # <<>> /\ ret # NoReturn

AddPreconds(cnt, n) ==
  [f \in Literal |-> IF f \in precond_facts(n) THEN cnt[f] + 1 ELSE cnt[f]]
SubPreconds(cnt, n) ==
  [f \in Literal |-> IF f \in precond_facts(n) THEN cnt[f] - 1 ELSE cnt[f]]

\* Mutant: no mutex is looked up.
MutexWithExtractedNever(n, k) == FALSE

MutexWithExtracted(n, k) ==
  \E m \in extraction_layers[k] : <<n, m>> \in action_mutex_layers[k]
------------------------------------------------------------------------------
(* extract_solution: fresh extraction layers, one activation at the last   *)
(* layer for the goals.                                                    *)
StartExtraction ==
  /\ extraction_layers' = [k \in 0..layers - 1 |-> {}]
  /\ stack' = <<Frame(layers - 1, goals, NoCount)>>
  /\ ret' = NoReturn

ReachInitialLayer ==
  /\ Running
  /\ top.layer = 0
  /\ stack' = Pop(stack)
  /\ ret' = Return(TRUE, TRUE)
  /\ UNCHANGED extraction_layers

DescendToPreviousLayer ==
  /\ Running
  /\ top.layer > 0 /\ top.cur_goals = {} /\ top.mode = "goals"
  /\ LET prev_goals == {f \in Literal : top.cnt[f] > 0}
     IN  stack' = Append(ReplaceTop(stack, [top EXCEPT !.mode = "below"]),
                         Frame(top.layer - 1, prev_goals, NoCount))
  /\ UNCHANGED <<ret, extraction_layers>>

NextGoal ==
  /\ Running
  /\ top.layer > 0 /\ top.mode = "goals"
  /\ \E g \in top.todo :
       stack' = ReplaceTop(stack,
                  [top EXCEPT !.todo = @ \ {g},
                              !.goal = g,
                              !.trying = IF g \in state_layers[top.layer]
                                         THEN Supporters(g, action_layers[top.layer])
                                         ELSE {},
                              !.mode = "actions"])
  /\ UNCHANGED <<ret, extraction_layers>>

(* The supporter was extracted for another goal: this goal is dropped, and *)
(* the loop over goals goes on without a recursive call.                   *)
AlreadyAchieved ==
  /\ Running
  /\ top.mode = "actions"
  /\ \E n \in top.trying : n \in extraction_layers[top.layer]
  /\ stack' = ReplaceTop(stack, [top EXCEPT !.remained_goals = @ \ {top.goal},
                                            !.mode = "goals"])
  /\ UNCHANGED <<ret, extraction_layers>>

SkipMutexAction ==
  /\ Running
  /\ top.mode = "actions"
  /\ \E n \in top.trying :
       /\ MutexWithExtracted(n, top.layer)
       /\ stack' = ReplaceTop(stack, [top EXCEPT !.trying = @ \ {n}])
  /\ UNCHANGED <<ret, extraction_layers>>

ChooseAction ==
  /\ Running
  /\ top.mode = "actions"
  /\ \E n \in top.trying \ extraction_layers[top.layer] :
       /\ ~MutexWithExtracted(n, top.layer)
       /\ LET remained == top.remained_goals \ {top.goal}
              cnt == AddPreconds(top.cnt, n)
          IN  stack' = Append(ReplaceTop(stack,
                                [top EXCEPT !.remained_goals = remained,
                                            !.cnt = cnt,
                                            !.action = n,
                                            !.trying = @ \ {n},
                                            !.mode = "same"]),
                              Frame(top.layer, remained, cnt))
       /\ extraction_layers' = [extraction_layers EXCEPT ![top.layer] = @ \union {n}]
  /\ UNCHANGED ret

(* No supporter is left: the goal stays in remained_goals.                 *)
GiveUpGoal ==
  /\ Running
  /\ top.mode = "actions" /\ top.trying = {}
  /\ stack' = ReplaceTop(stack, [top EXCEPT !.mode = "goals"])
  /\ UNCHANGED <<ret, extraction_layers>>

GiveUpFrame ==
  /\ Running
  /\ top.layer > 0 /\ top.mode = "goals"
  /\ top.cur_goals # {} /\ top.todo = {}
  /\ stack' = Pop(stack)
  /\ ret' = Return(top.found, FALSE)
  /\ UNCHANGED extraction_layers

(* The remaining goals of the layer were extracted: break out of the loops.*)
KeepAction ==
  /\ Returning
  /\ top.mode = "same" /\ CurLayerExtracted
  /\ stack' = Pop(stack)
  /\ UNCHANGED <<ret, extraction_layers>>

\* Mutant: the counts are not taken back.
UndoActionKeepCount ==
  /\ Returning
  /\ top.mode = "same" /\ ~CurLayerExtracted
  /\ extraction_layers' = [extraction_layers EXCEPT ![top.layer] = @ \ {top.action}]
  /\ stack' = ReplaceTop(stack, [top EXCEPT !.remained_goals = @ \union {top.goal},
                                            !.found = OverallExtracted,
                                            !.action = NoNode,
                                            !.mode = "actions"])
  /\ ret' = NoReturn

UndoAction ==
  /\ Returning
  /\ top.mode = "same" /\ ~CurLayerExtracted
  /\ extraction_layers' = [extraction_layers EXCEPT ![top.layer] = @ \ {top.action}]
  /\ stack' = ReplaceTop(stack, [top EXCEPT !.remained_goals = @ \union {top.goal},
                                            !.cnt = SubPreconds(@, top.action),
                                            !.found = OverallExtracted,
                                            !.action = NoNode,
                                            !.mode = "actions"])
  /\ ret' = NoReturn

(* The layer above counts as extracted whatever the layer below answered.  *)
ReturnFromBelow ==
  /\ Returning
  /\ top.mode = "below"
  /\ stack' = Pop(stack)
  /\ ret' = Return(OverallExtracted, TRUE)
  /\ UNCHANGED extraction_layers

extract_backward_from_layer ==
  \/ ReachInitialLayer
  \/ DescendToPreviousLayer
  \/ NextGoal
  \/ AlreadyAchieved
  \/ SkipMutexAction
  \/ ChooseAction
  \/ GiveUpGoal
  \/ GiveUpFrame
  \/ KeepAction
  \/ UndoAction
  \/ ReturnFromBelow

Returned == stack = <<>> /\ ret # NoReturn
------------------------------------------------------------------------------
\* The facts the extracted actions of layer k have to bring about.
Needed(k) ==
  IF k = layers - 1 THEN goals
  ELSE UNION {precond_facts(n) : n \in extraction_layers[k + 1]}

Achieved(k) == UNION {effect_facts(n) : n \in extraction_layers[k]}

(* prev_goals_cnt is copied into every activation while extraction_layers  *)
(* is shared: whenever an activation runs, its count of each precondition  *)
(* is the number of actions extracted for its layer that need it, so that  *)
(* the layer below is asked for exactly those facts.                       *)
CountsMatch ==
  Running /\ top.layer > 0 =>
    \A f \in Literal :
      top.cnt[f] =
        Cardinality({n \in extraction_layers[top.layer] : f \in precond_facts(n)})

(* What is no longer a remaining goal of the running activation, and every *)
(* fact the layers above it need, is the effect of an extracted action of  *)
(* its layer, through every undo and every goal found already achieved.    *)
GoalsCovered ==
  Running =>
    /\ Needed(top.layer) \ top.remained_goals \subseteq Achieved(top.layer)
    /\ \A k \in top.layer + 1..layers - 1 : Needed(k) \subseteq Achieved(k)

(* The actions extracted for a layer are nodes of that layer of the graph, *)
(* no two of them mutex there.                                             *)
ExtractedCompatible ==
  phase \in {"extracting", "solved"} =>
    \A k \in 1..layers - 1 :
      /\ extraction_layers[k] \subseteq action_layers[k]
      /\ \A n, m \in extraction_layers[k] : <<n, m>> \notin action_mutex_layers[k]

(* The three together: every activation of the recursion asks the layer    *)
(* below for what the actions extracted so far need, undone or not.        *)
ExtractionConsistent == CountsMatch /\ GoalsCovered /\ ExtractedCompatible
------------------------------------------------------------------------------
(* The inductive invariant behind ExtractionConsistent.  It describes the  *)
(* call stack: an activation in mode "same" has added its action to the    *)
(* extraction layer it works on, no other has.                             *)
FrameType ==
  [layer : 0..layers - 1, cur_goals : SUBSET Literal, cnt : [Literal -> Nat],
   remained_goals : SUBSET Literal, todo : SUBSET Literal,
   goal : Literal \union {NoFact}, trying : SUBSET Node,
   action : Node \union {NoNode},
   mode : {"goals", "actions", "same", "below"}, found : {FALSE}]

\* What the first i activations have added to extraction layer k.
Chosen(i, k) ==
  {stack[h].action : h \in {j \in 1..i : stack[j].mode = "same" /\ stack[j].layer = k}}

Before(i) == Chosen(i - 1, stack[i].layer)

Counts(cnt, nodes) ==
  \A f \in Literal : cnt[f] = Cardinality({n \in nodes : f \in precond_facts(n)})

EffectsOf(nodes) == UNION {effect_facts(n) : n \in nodes}

(* What holds in an activation that found before in its extraction layer:  *)
(* its counts, and that it owes no fact but its remaining goals.           *)
FrameOK(frame, before) ==
  /\ frame.remained_goals \subseteq frame.cur_goals
  /\ frame.todo \subseteq frame.cur_goals
  /\ IsFiniteSet(before)
  /\ frame.mode # "same" =>
       /\ Counts(frame.cnt, before)
       /\ Needed(frame.layer) \ frame.remained_goals \subseteq EffectsOf(before)
  /\ frame.mode \in {"actions", "same"} =>
       /\ frame.layer > 0
       /\ frame.goal \in frame.cur_goals
       /\ frame.trying \subseteq Supporters(frame.goal, action_layers[frame.layer])
  /\ frame.mode = "same" =>
       /\ frame.action \in Supporters(frame.goal, action_layers[frame.layer]) \ before
       /\ Counts(frame.cnt, before \union {frame.action})
       /\ Needed(frame.layer) \ (frame.remained_goals \union {frame.goal})
            \subseteq EffectsOf(before)
  /\ frame.mode = "below" => frame.layer > 0 /\ frame.cur_goals = {}

(* The activations below the top wait for a recursive call, and the layers *)
(* never increase towards the top.                                         *)
StackInv ==
  /\ stack \in Seq(FrameType)
  /\ \A i \in 1..Len(stack) : FrameOK(stack[i], Before(i))
  /\ \A i \in 1..Len(stack) - 1 : /\ stack[i].mode \in {"same", "below"}
                                  /\ stack[i].mode = "same" =>
                                       stack[i + 1].layer = stack[i].layer
  /\ \A i, j \in 1..Len(stack) : i < j => stack[j].layer <= stack[i].layer
  /\ Running => top.mode \in {"goals", "actions"}
  /\ Returning => top.mode \in {"same", "below"}

(* While an activation runs or is about to undo its action, its extraction *)
(* layer holds the choices on the stack, the layers below are untouched    *)
(* and those above are complete.                                           *)
LiveInv ==
  Running \/ (Returning /\ top.mode = "same" /\ ~CurLayerExtracted) =>
    /\ extraction_layers[top.layer] = Chosen(Len(stack), top.layer)
    /\ \A k \in 0..top.layer - 1 : extraction_layers[k] = {}
    /\ \A k \in top.layer + 1..layers - 1 : Needed(k) \subseteq Achieved(k)

\* Each fact a layer needs is brought about there.
AllCovered == \A k \in 1..layers - 1 : Needed(k) \subseteq Achieved(k)

ResultInv ==
  ret # NoReturn =>
    /\ ret \in BOOLEAN \X BOOLEAN
    /\ OverallExtracted => CurLayerExtracted /\ AllCovered

ExtractedInv ==
  phase \in {"extracting", "solved"} =>
    /\ extraction_layers \in [0..layers - 1 -> SUBSET Node]
    /\ extraction_layers[0] = {}

ExtractionInv ==
  /\ phase # "extracting" => stack = <<>>
  /\ StackInv
  /\ LiveInv
  /\ ResultInv
  /\ ExtractedInv
  /\ ExtractedCompatible
==============================================================================
