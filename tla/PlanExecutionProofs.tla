-------------------------- MODULE PlanExecutionProofs --------------------------
(***************************************************************************)
(* Proofs about compute_planning_graph and an execution of the layers it   *)
(* returns, for every domain and every segment.  First the extraction, at  *)
(* every depth of its recursion: the actions extracted so far are          *)
(* compatible, cover what they should, and are counted right.  Then the    *)
(* layers: they are no more than the segment has actions, and performed in *)
(* any order within a layer they refine the executive.                     *)
(***************************************************************************)
EXTENDS PlanExecution, GraphPlanProofs, LayeredPlanProofs, FiniteSetTheorems, SequenceTheorems

(* The call stack as a sequence: its last element, and returning from it.  *)
LEMMA LastOfStack ==
  ASSUME NEW S, NEW s \in Seq(S), s # <<>>
  PROVE  Len(s) \in Nat \ {0} /\ s[Len(s)] \in S
  OBVIOUS

(* Popping an activation leaves the ones below it as they are.             *)
LEMMA PopIs ==
  ASSUME NEW S, NEW s \in Seq(S), s # <<>>
  PROVE  /\ Pop(s) \in Seq(S)
         /\ Len(Pop(s)) = Len(s) - 1
         /\ \A i \in 1..Len(s) - 1 : Pop(s)[i] = s[i]
<1>1. Len(s) \in Nat \ {0} /\ \A i \in 1..Len(s) - 1 : s[i] \in S
  OBVIOUS
<1>2. Pop(s) = [i \in 1..Len(s) - 1 |-> s[i]]
  BY <1>1, SubSeqProperties DEF Pop
<1>3. Pop(s) \in Seq(S)
  BY <1>1, SubSeqProperties DEF Pop
<1> QED
  BY <1>1, <1>2, <1>3

(* What the first i activations added is told by those activations alone.  *)
LEMMA ChosenSame ==
  ASSUME NEW i \in Nat, \A j \in 1..i : stack'[j] = stack[j]
  PROVE  \A k : Chosen(i, k)' = Chosen(i, k)
<1> SUFFICES ASSUME NEW k PROVE Chosen(i, k)' = Chosen(i, k)
  OBVIOUS
<1>1. {j \in 1..i : stack'[j].mode = "same" /\ stack'[j].layer = k}
        = {j \in 1..i : stack[j].mode = "same" /\ stack[j].layer = k}
  OBVIOUS
<1> QED
  BY <1>1 DEF Chosen

(* The i-th activation adds at most the action it is trying.               *)
LEMMA ChosenGrows ==
  ASSUME NEW i \in Nat \ {0}, NEW k
  PROVE  Chosen(i, k) = Chosen(i - 1, k) \union
                          (IF stack[i].mode = "same" /\ stack[i].layer = k
                           THEN {stack[i].action} ELSE {})
<1>1. 1..i = (1..i - 1) \union {i}
  OBVIOUS
<1> QED
  BY <1>1 DEF Chosen

(* What layer k is asked for depends on the layer above it only.           *)
LEMMA NeededSame ==
  ASSUME NEW k \in 0..layers - 1, layers \in Nat, UNCHANGED <<layers, goals>>,
         \A l \in k + 1..layers - 1 : extraction_layers'[l] = extraction_layers[l]
  PROVE  Needed(k)' = Needed(k)
<1>1. k = layers - 1 \/ k + 1 \in k + 1..layers - 1
  OBVIOUS
<1> QED
  BY <1>1 DEF Needed

(* An activation is untouched by changes to its own layer and below.       *)
LEMMA FrameKept ==
  ASSUME NEW frame \in FrameType, NEW before, FrameOK(frame, before), layers \in Nat,
         UNCHANGED <<layers, goals, action_layers>>,
         \A l \in frame.layer + 1..layers - 1 : extraction_layers'[l] = extraction_layers[l]
  PROVE  FrameOK(frame, before)'
<1>1. frame.layer \in 0..layers - 1
  BY DEF FrameType
<1>2. Needed(frame.layer)' = Needed(frame.layer)
  BY <1>1, NeededSame
<1> QED
  BY <1>2 DEF FrameOK, Counts, EffectsOf
------------------------------------------------------------------------------
(* The stack changes in three ways; each keeps StackInv when the           *)
(* activations it puts in place are right.  Inner changes nothing that an  *)
(* activation below the top depends on.                                    *)
Inner ==
  /\ UNCHANGED <<layers, goals, action_layers>>
  /\ \A l \in top.layer + 1..layers - 1 : extraction_layers'[l] = extraction_layers[l]

(* An activation works on a layer of the graph.                            *)
LEMMA FrameLayer ==
  ASSUME NEW frame \in FrameType, layers \in Nat
  PROVE  frame.layer \in 0..layers - 1 /\ frame.layer \in Nat
<1>1. frame.layer \in 0..layers - 1
  BY DEF FrameType
<1> QED
  BY <1>1

(* The activation that runs, under the invariant of the stack.             *)
LEMMA TopFacts ==
  ASSUME StackInv, stack # <<>>
  PROVE  /\ Len(stack) \in Nat \ {0}
         /\ top \in FrameType
         /\ FrameOK(top, Before(Len(stack)))
         /\ Before(Len(stack)) = Chosen(Len(stack) - 1, top.layer)
  BY LastOfStack DEF StackInv, top, Before

(* A step that leaves the waiting activations alone, and the layers they   *)
(* work on, keeps what is known of them.                                   *)
LEMMA InnerFrames ==
  ASSUME StackInv, stack # <<>>, layers \in Nat, Inner,
         \A j \in 1..Len(stack) - 1 : stack'[j] = stack[j]
  PROVE  /\ \A i \in 1..Len(stack) - 1 : FrameOK(stack[i], Before(i))'
         /\ \A i \in 0..Len(stack) - 1 : \A k : Chosen(i, k)' = Chosen(i, k)
<1>1. Len(stack) \in Nat \ {0} /\ top \in FrameType
  BY TopFacts
<1>2. ASSUME NEW i \in 0..Len(stack) - 1
      PROVE  \A k : Chosen(i, k)' = Chosen(i, k)
  <2>1. i \in Nat /\ \A j \in 1..i : stack'[j] = stack[j]
    BY <1>1
  <2> QED
    BY <2>1, ChosenSame
<1>3. ASSUME NEW i \in 1..Len(stack) - 1
      PROVE  FrameOK(stack[i], Before(i))'
  <2>1. stack[i] \in FrameType /\ stack[i].layer >= top.layer /\ FrameOK(stack[i], Before(i))
    BY <1>1 DEF StackInv, top
  <2>2. stack'[i] = stack[i]
    OBVIOUS
  <2>3. Before(i)' = Before(i)
    <3>1. PICK h, k : h = i - 1 /\ k = stack[i].layer
      OBVIOUS
    <3>2. Chosen(h, k)' = Chosen(h, k)
      BY <1>1, <1>2, <3>1
    <3> QED
      BY <2>2, <3>1, <3>2 DEF Before
  <2>0. PICK before : before = Before(i)
    OBVIOUS
  <2>4. PICK frame \in FrameType : frame = stack[i] /\ before = Before(i)
    BY <2>0, <2>1
  <2>5. \A l \in frame.layer + 1..layers - 1 : extraction_layers'[l] = extraction_layers[l]
    <3>1. frame.layer \in 0..layers - 1 /\ top.layer \in 0..layers - 1
      BY <1>1 DEF FrameType
    <3>2. frame.layer >= top.layer
      BY <2>1, <2>4
    <3>3. frame.layer + 1..layers - 1 \subseteq top.layer + 1..layers - 1
      BY <3>1, <3>2
    <3> QED
      BY <3>3 DEF Inner
  <2>6. FrameOK(frame, before)'
    BY <2>1, <2>4, <2>5, FrameKept DEF Inner
  <2> QED
    BY <2>2, <2>3, <2>4, <2>6
<1> QED
  BY <1>2, <1>3

(* An activation goes on: the top of the stack is replaced.                *)
LEMMA ReplaceTopKeeps ==
  ASSUME StackInv, stack # <<>>, layers \in Nat, Inner,
         NEW frame \in FrameType, stack' = ReplaceTop(stack, frame),
         frame.layer = top.layer, frame.mode \in {"goals", "actions"},
         NEW before, before = Before(Len(stack)), FrameOK(frame, before)',
         ret' = NoReturn
  PROVE  /\ StackInv' /\ stack' # <<>> /\ top' = frame
         /\ Chosen(Len(stack), top.layer)' = before
<1>0. PICK k : k = top.layer
  OBVIOUS
<1>1. PICK n \in Nat \ {0} : n = Len(stack) /\ k = top.layer
  BY <1>0, TopFacts
<1>2. /\ stack' \in Seq(FrameType) /\ Len(stack') = n /\ stack'[n] = frame
      /\ \A i \in 1..n - 1 : stack'[i] = stack[i]
  <2>1. stack \in Seq(FrameType)
    BY DEF StackInv
  <2> QED
    BY <1>1, <2>1 DEF ReplaceTop
<1>3. top' = frame /\ stack' # <<>>
  BY <1>1, <1>2 DEF top
<1>4. /\ \A i \in 1..n - 1 : FrameOK(stack[i], Before(i))'
      /\ Chosen(n - 1, k)' = Chosen(n - 1, k)
  <2>1. \A j \in 1..Len(stack) - 1 : stack'[j] = stack[j]
    BY <1>1, <1>2
  <2>2. n - 1 \in 0..Len(stack) - 1
    BY <1>1
  <2> QED
    BY <1>1, <2>1, <2>2, InnerFrames
<1>5. before = Chosen(n - 1, k)
  BY <1>1, TopFacts
<1>6. Before(n)' = before /\ Chosen(n, k)' = before
  <2>1. Before(n)' = before
    BY <1>1, <1>2, <1>4, <1>5 DEF Before
  <2>2. 1..n = (1..n - 1) \union {n}
    OBVIOUS
  <2>3. Chosen(n, k)' = Chosen(n - 1, k)'
    BY <1>2, <2>2 DEF Chosen
  <2> QED
    BY <1>4, <1>5, <2>1, <2>3
<1>7. ASSUME NEW i \in 1..n
      PROVE  FrameOK(stack[i], Before(i))'
  <2>1. CASE i = n
    BY <1>2, <1>6, <2>1
  <2>2. CASE i # n
    BY <1>4, <2>2
  <2> QED
    BY <2>1, <2>2
<1>8. \A i \in 1..n - 1 : /\ stack'[i].mode \in {"same", "below"}
                          /\ stack'[i].mode = "same" => stack'[i + 1].layer = stack'[i].layer
  BY <1>1, <1>2 DEF StackInv, top
<1>9. \A i, j \in 1..n : i < j => stack'[j].layer <= stack'[i].layer
  BY <1>1, <1>2 DEF StackInv, top
<1>10. FrameType' = FrameType
  BY DEF FrameType, Inner
<1>11. StackInv'
  BY <1>2, <1>3, <1>7, <1>8, <1>9, <1>10 DEF StackInv, Running, Returning
<1> QED
  BY <1>1, <1>2, <1>3, <1>6, <1>11

(* An activation makes a recursive call, for its own layer or for the one  *)
(* below.                                                                  *)
LEMMA CallKeeps ==
  ASSUME StackInv, stack # <<>>, layers \in Nat, Inner,
         NEW frame \in FrameType, NEW callee \in FrameType,
         stack' = Append(ReplaceTop(stack, frame), callee),
         frame.layer = top.layer, callee.mode = "goals",
         \/ frame.mode = "same" /\ callee.layer = frame.layer
         \/ frame.mode = "below" /\ callee.layer < frame.layer,
         NEW before, before = Before(Len(stack)), FrameOK(frame, before)',
         NEW chosen, FrameOK(callee, chosen)',
         chosen = IF frame.mode = "same" THEN before \union {frame.action} ELSE {},
         ret' = NoReturn
  PROVE  /\ StackInv' /\ stack' # <<>> /\ top' = callee
         /\ Chosen(Len(stack), top.layer)' = chosen
<1>0. PICK k, h : k = top.layer /\ h = callee.layer
  OBVIOUS
<1>1. PICK n \in Nat \ {0} : n = Len(stack) /\ k = top.layer /\ h = callee.layer
  BY <1>0, TopFacts
<1>2. /\ stack' \in Seq(FrameType) /\ Len(stack') = n + 1
      /\ stack'[n] = frame /\ stack'[n + 1] = callee
      /\ \A i \in 1..n - 1 : stack'[i] = stack[i]
  <2>1. stack \in Seq(FrameType)
    BY DEF StackInv
  <2> QED
    BY <1>1, <2>1 DEF ReplaceTop
<1>3. top' = callee /\ stack' # <<>>
  BY <1>1, <1>2 DEF top
<1>4. /\ \A i \in 1..n - 1 : FrameOK(stack[i], Before(i))'
      /\ \A l : Chosen(n - 1, l)' = Chosen(n - 1, l)
  <2>1. \A j \in 1..Len(stack) - 1 : stack'[j] = stack[j]
    BY <1>1, <1>2
  <2>2. n - 1 \in 0..Len(stack) - 1
    BY <1>1
  <2> QED
    BY <1>1, <2>1, <2>2, InnerFrames
<1>5. before = Chosen(n - 1, k)
  BY <1>1, TopFacts
<1>6. Before(n)' = before
  BY <1>1, <1>2, <1>4, <1>5 DEF Before
<1>7. /\ \A i, j \in 1..n + 1 : i < j => stack'[j].layer <= stack'[i].layer
      /\ \A i \in 1..n : stack'[i].layer >= k /\ stack'[i].layer = stack[i].layer
      /\ h <= k /\ h \in Nat /\ k \in Nat
  <2>1. \A i \in 1..n : stack'[i].layer = stack[i].layer /\ stack'[i].layer \in Nat
    <3>1. ASSUME NEW i \in 1..n PROVE stack'[i].layer = stack[i].layer
      <4>1. CASE i = n
        BY <1>1, <1>2, <4>1 DEF top
      <4>2. CASE i # n
        BY <1>2, <4>2
      <4> QED
        BY <4>1, <4>2
    <3>2. ASSUME NEW i \in 1..n PROVE stack'[i].layer \in Nat
      <4>1. stack'[i] \in FrameType
        BY <1>2
      <4> QED
        BY <4>1, FrameLayer
    <3> QED
      BY <3>1, <3>2
  <2>2. \A i, j \in 1..n : i < j => stack[j].layer <= stack[i].layer
    BY <1>1 DEF StackInv
  <2>3. stack[n].layer = k /\ k \in Nat
    BY <1>1, TopFacts, FrameLayer DEF top
  <2>4. \A i \in 1..n : stack[i].layer >= k
    BY <2>1, <2>2, <2>3
  <2>5. h <= k /\ h \in Nat
    <3>1. h \in Nat
      BY <1>1, FrameLayer
    <3> QED
      BY <1>1, <2>3, <3>1
  <2> QED
    BY <1>1, <1>2, <2>1, <2>2, <2>3, <2>4, <2>5
<1>8. Before(n + 1)' = chosen /\ Chosen(n + 1, h)' = chosen
  <2>1. Chosen(n, h)' = chosen
    <3>1. 1..n = (1..n - 1) \union {n}
      OBVIOUS
    <3>2. CASE frame.mode = "same"
      <4>1. h = k
        BY <1>1, <3>2
      <4>2. Chosen(n, k)' = Chosen(n - 1, k)' \union {frame.action}
        BY <1>1, <1>2, <3>1, <3>2 DEF Chosen
      <4> QED
        BY <1>4, <1>5, <3>2, <4>1, <4>2
    <3>3. CASE frame.mode = "below"
      <4>1. \A i \in 1..n : stack'[i].layer # h
        BY <1>1, <1>7, <3>3
      <4> QED
        BY <3>3, <4>1 DEF Chosen
    <3> QED
      BY <3>2, <3>3
  <2>2. Chosen(n + 1, h)' = Chosen(n, h)'
    <3>1. 1..n + 1 = (1..n) \union {n + 1}
      OBVIOUS
    <3> QED
      BY <1>2, <3>1 DEF Chosen
  <2>3. (n + 1) - 1 = n
    OBVIOUS
  <2> QED
    BY <1>1, <1>2, <2>1, <2>2, <2>3 DEF Before
<1>9. ASSUME NEW i \in 1..n + 1
      PROVE  FrameOK(stack[i], Before(i))'
  <2>1. CASE i = n + 1
    BY <1>2, <1>8, <2>1
  <2>2. CASE i = n
    BY <1>2, <1>6, <2>2
  <2>3. CASE i \in 1..n - 1
    BY <1>4, <2>3
  <2>4. i = n + 1 \/ i = n \/ i \in 1..n - 1
    OBVIOUS
  <2> QED
    BY <2>1, <2>2, <2>3, <2>4
<1>10. \A i \in 1..n : /\ stack'[i].mode \in {"same", "below"}
                       /\ stack'[i].mode = "same" => stack'[i + 1].layer = stack'[i].layer
  <2>1. ASSUME NEW i \in 1..n - 1
        PROVE  /\ stack'[i].mode \in {"same", "below"}
               /\ stack'[i].mode = "same" => stack'[i + 1].layer = stack'[i].layer
    <3>1. /\ stack[i].mode \in {"same", "below"}
          /\ stack[i].mode = "same" => stack[i + 1].layer = stack[i].layer
      BY <1>1 DEF StackInv
    <3>2. i \in 1..n /\ i + 1 \in 1..n
      OBVIOUS
    <3> QED
      BY <1>2, <1>7, <3>1, <3>2
  <2>2. /\ stack'[n].mode \in {"same", "below"}
        /\ stack'[n].mode = "same" => stack'[n + 1].layer = stack'[n].layer
    BY <1>2
  <2> QED
    BY <2>1, <2>2
<1>11. FrameType' = FrameType
  BY DEF FrameType, Inner
<1>12. StackInv'
  BY <1>2, <1>3, <1>7, <1>9, <1>10, <1>11 DEF StackInv, Running, Returning
<1> QED
  BY <1>1, <1>2, <1>3, <1>8, <1>12

(* An activation returns: what its caller knows is as it was.              *)
LEMMA ReturnKeeps ==
  ASSUME StackInv, stack # <<>>, layers \in Nat, stack' = Pop(stack),
         UNCHANGED <<layers, goals, action_layers, extraction_layers>>,
         ret' # NoReturn
  PROVE  /\ StackInv'
         /\ Returning' /\ top.mode # "same" /\ (top.mode = "same")' =>
              /\ top'.layer = top.layer
              /\ Chosen(Len(stack), top.layer)' = Before(Len(stack))
<1>1. PICK n \in Nat \ {0} : n = Len(stack)
  BY TopFacts
<1>2. /\ stack' \in Seq(FrameType) /\ Len(stack') = n - 1
      /\ \A i \in 1..n - 1 : stack'[i] = stack[i]
  <2>1. stack \in Seq(FrameType)
    BY DEF StackInv
  <2> QED
    BY <1>1, <2>1, PopIs
<1>3. /\ \A i \in 1..n - 1 : FrameOK(stack[i], Before(i))'
      /\ \A l : Chosen(n - 1, l)' = Chosen(n - 1, l)
  <2>1. \A j \in 1..Len(stack) - 1 : stack'[j] = stack[j]
    BY <1>1, <1>2
  <2>2. n - 1 \in 0..Len(stack) - 1
    BY <1>1
  <2> QED
    BY <1>1, <2>1, <2>2, InnerFrames DEF Inner
<1>4. ASSUME NEW i \in 1..(n - 1) - 1
      PROVE  /\ stack'[i].mode \in {"same", "below"}
             /\ stack'[i].mode = "same" => stack'[i + 1].layer = stack'[i].layer
  BY <1>1, <1>2 DEF StackInv
<1>5. \A i, j \in 1..n - 1 : i < j => stack'[j].layer <= stack'[i].layer
  BY <1>1, <1>2 DEF StackInv
<1>6. Returning' => n - 1 \in 1..n - 1 /\ top' = stack[n - 1] /\ top'.mode \in {"same", "below"}
  BY <1>1, <1>2 DEF Returning, top, StackInv
<1>7. FrameType' = FrameType
  BY DEF FrameType
<1>8. StackInv'
  <2>1. \A i \in 1..Len(stack') : FrameOK(stack[i], Before(i))'
    BY <1>2, <1>3
  <2>2. \A i \in 1..Len(stack') - 1 :
          /\ stack'[i].mode \in {"same", "below"}
          /\ stack'[i].mode = "same" => stack'[i + 1].layer = stack'[i].layer
    <3>1. 1..Len(stack') - 1 = 1..(n - 1) - 1
      BY <1>2
    <3> QED
      BY <1>4, <3>1
  <2>3. \A i, j \in 1..Len(stack') : i < j => stack'[j].layer <= stack'[i].layer
    BY <1>1, <1>2, <1>5
  <2>4. ~Running' /\ (Returning' => top'.mode \in {"same", "below"})
    BY <1>6 DEF Running
  <2> QED
    BY <1>2, <1>7, <2>1, <2>2, <2>3, <2>4 DEF StackInv, Running, Returning
<1>9. ASSUME Returning', (top.mode = "same")'
      PROVE  /\ top'.layer = top.layer
             /\ Chosen(Len(stack), top.layer)' = Before(Len(stack))
  <2>1. PICK k : k = top.layer
    OBVIOUS
  <2>2. top'.layer = k
    BY <1>1, <1>6, <1>9, <2>1 DEF StackInv, top
  <2> QED
    BY <1>1, <1>2, <1>3, <2>1, <2>2, TopFacts
<1> QED
  BY <1>8, <1>9
------------------------------------------------------------------------------
(* What an activation can rely on while it runs.                           *)
LEMMA RunningFacts ==
  ASSUME GraphInv, ExtractionInv, phase = "extracting", Running
  PROVE  /\ stack # <<>> /\ layers \in Nat \ {0} /\ Len(stack) \in Nat \ {0}
         /\ top \in FrameType /\ top.layer \in 0..layers - 1
         /\ top.mode \in {"goals", "actions"}
         /\ FrameOK(top, Before(Len(stack)))
         /\ extraction_layers \in [0..layers - 1 -> SUBSET Node]
         /\ extraction_layers[top.layer] = Before(Len(stack))
         /\ \A k \in 0..top.layer - 1 : extraction_layers[k] = {}
         /\ \A k \in top.layer + 1..layers - 1 : Needed(k) \subseteq Achieved(k)
<1>1. stack # <<>> /\ layers \in Nat \ {0}
  BY DEF Running, GraphInv, TypeOK
<1>2. top \in FrameType /\ top.layer \in 0..layers - 1
  BY <1>1, TopFacts, FrameLayer DEF ExtractionInv
<1>3. top.mode \in {"goals", "actions"}
  BY DEF ExtractionInv, StackInv
<1>4. Len(stack) \in Nat \ {0} /\ FrameOK(top, Before(Len(stack)))
  BY <1>1, TopFacts DEF ExtractionInv
<1>5. Chosen(Len(stack), top.layer) = Before(Len(stack))
  BY <1>1, <1>3, <1>4, TopFacts, ChosenGrows DEF ExtractionInv, top
<1> QED
  BY <1>1, <1>2, <1>3, <1>4, <1>5 DEF ExtractionInv, LiveInv, ExtractedInv

(* Steps that choose nothing and undo nothing leave the layers as good as  *)
(* they were.                                                              *)
LEMMA SameExtracted ==
  ASSUME ExtractionInv, UNCHANGED <<gpVars, extraction_layers>>
  PROVE  /\ ExtractedInv' /\ ExtractedCompatible' /\ (AllCovered => AllCovered')
         /\ \A k : Needed(k)' = Needed(k) /\ Achieved(k)' = Achieved(k)
<1>1. UNCHANGED <<layers, goals, action_layers, action_mutex_layers, phase, extraction_layers>>
  BY DEF gpVars, graph
<1>2. \A k : Needed(k)' = Needed(k) /\ Achieved(k)' = Achieved(k)
  BY <1>1 DEF Needed, Achieved
<1>3. ExtractedInv' /\ ExtractedCompatible'
  BY <1>1 DEF ExtractionInv, ExtractedInv, ExtractedCompatible
<1> QED
  BY <1>1, <1>2, <1>3 DEF AllCovered

(* The running activation goes on with other locals.                       *)
LEMMA GoesOn ==
  ASSUME GraphInv, ExtractionInv, phase = "extracting", Running,
         UNCHANGED <<gpVars, ret, extraction_layers>>,
         NEW frame \in FrameType, stack' = ReplaceTop(stack, frame),
         frame.layer = top.layer, frame.mode \in {"goals", "actions"},
         FrameOK(frame, Before(Len(stack)))
  PROVE  ExtractionInv'
<1>1. PICK before : before = Before(Len(stack))
  OBVIOUS
<1>2. UNCHANGED <<layers, goals, action_layers, action_mutex_layers, phase, extraction_layers>>
  BY DEF gpVars, graph
<1>3. Inner
  BY <1>2 DEF Inner
<1>4. layers \in Nat /\ stack # <<>> /\ ret' = NoReturn
  BY RunningFacts DEF Running
<1>5. FrameOK(frame, before)'
  BY <1>1, <1>2, <1>4, FrameKept
<1>6. /\ StackInv' /\ stack' # <<>> /\ top' = frame
      /\ Chosen(Len(stack), top.layer)' = before
  BY <1>1, <1>3, <1>4, <1>5, ReplaceTopKeeps DEF ExtractionInv
<1>7. LiveInv'
  BY <1>1, <1>2, <1>6, RunningFacts, SameExtracted DEF LiveInv
<1>8. ResultInv'
  BY <1>4 DEF ResultInv
<1> QED
  BY <1>2, <1>6, <1>7, <1>8, SameExtracted DEF ExtractionInv

(* An activation returns its two results to its caller.                    *)
LEMMA Returns ==
  ASSUME GraphInv, ExtractionInv, phase = "extracting", stack # <<>>,
         UNCHANGED <<gpVars, extraction_layers>>, stack' = Pop(stack),
         NEW found \in BOOLEAN, NEW extracted \in BOOLEAN, ret' = Return(found, extracted),
         found => extracted /\ AllCovered,
         extracted \/ Running
  PROVE  ExtractionInv'
<1>1. UNCHANGED <<layers, goals, action_layers, action_mutex_layers, phase, extraction_layers>>
  BY DEF gpVars, graph
<1>2. ret' # NoReturn /\ ret' = <<found, extracted>>
  BY DEF Return, NoReturn
<1>3. StackInv'
  BY <1>1, <1>2, ReturnKeeps DEF ExtractionInv, GraphInv, TypeOK
<1>4. LiveInv'
  <2>1. CASE extracted
    <3>1. CurLayerExtracted'
      BY <1>2, <2>1 DEF CurLayerExtracted
    <3> QED
      BY <1>2, <3>1 DEF LiveInv, Running
  <2>2. CASE ~extracted
    <3>1. SUFFICES ASSUME Returning', (top.mode = "same")'
                   PROVE  /\ (extraction_layers[top.layer] = Chosen(Len(stack), top.layer))'
                          /\ (\A k \in 0..top.layer - 1 : extraction_layers[k] = {})'
                          /\ (\A k \in top.layer + 1..layers - 1 : Needed(k) \subseteq Achieved(k))'
      BY <1>2 DEF LiveInv, Running
    <3>2. Running
      BY <2>2
    <3>3. top.mode # "same"
      BY <3>2, RunningFacts
    <3>4. top'.layer = top.layer /\ Chosen(Len(stack), top.layer)' = Before(Len(stack))
      BY <1>1, <1>2, <3>1, <3>3, ReturnKeeps DEF ExtractionInv, GraphInv, TypeOK
    <3> QED
      BY <1>1, <3>2, <3>4, RunningFacts, SameExtracted
  <2> QED
    BY <2>1, <2>2
<1>5. ResultInv'
  BY <1>2, SameExtracted DEF ResultInv, OverallExtracted, CurLayerExtracted
<1> QED
  BY <1>1, <1>3, <1>4, <1>5, SameExtracted DEF ExtractionInv
------------------------------------------------------------------------------
(* One lemma per step of extract_backward_from_layer.                      *)
LEMMA NextGoalKeeps ==
  ASSUME GraphInv, ExtractionInv, phase = "extracting", UNCHANGED gpVars, NextGoal
  PROVE  ExtractionInv'
<1>1. PICK g \in top.todo :
        stack' = ReplaceTop(stack,
                   [top EXCEPT !.todo = @ \ {g},
                               !.goal = g,
                               !.trying = IF g \in state_layers[top.layer]
                                          THEN Supporters(g, action_layers[top.layer])
                                          ELSE {},
                               !.mode = "actions"])
  BY DEF NextGoal
<1>2. PICK trying : trying = IF g \in state_layers[top.layer]
                             THEN Supporters(g, action_layers[top.layer]) ELSE {}
  OBVIOUS
<1>3. PICK frame : frame = [top EXCEPT !.todo = @ \ {g}, !.goal = g, !.trying = trying,
                                       !.mode = "actions"]
  OBVIOUS
<1>4. Running /\ top.layer > 0 /\ top.mode = "goals" /\ UNCHANGED <<ret, extraction_layers>>
  BY DEF NextGoal
<1>5. top \in FrameType /\ FrameOK(top, Before(Len(stack))) /\ top.layer \in 0..layers - 1
  BY <1>4, RunningFacts
<1>6. trying \subseteq Supporters(g, action_layers[top.layer]) /\ trying \in SUBSET Node
  BY <1>2, <1>5 DEF Supporters, GraphInv, TypeOK
<1>7. g \in Literal /\ g \in top.cur_goals
  BY <1>5 DEF FrameType, FrameOK
<1>8. frame \in FrameType
  BY <1>3, <1>5, <1>6, <1>7 DEF FrameType
<1>9. /\ frame.layer = top.layer /\ frame.cur_goals = top.cur_goals /\ frame.cnt = top.cnt
      /\ frame.remained_goals = top.remained_goals /\ frame.todo = top.todo \ {g}
      /\ frame.goal = g /\ frame.trying = trying /\ frame.mode = "actions"
  BY <1>3, <1>5 DEF FrameType
<1>10. FrameOK(frame, Before(Len(stack)))
  BY <1>4, <1>5, <1>6, <1>7, <1>9 DEF FrameOK
<1> QED
  BY <1>1, <1>2, <1>3, <1>4, <1>8, <1>9, <1>10, GoesOn

(* A goal is found achieved: the supporter loop is left without a call.    *)
LEMMA AlreadyAchievedKeeps ==
  ASSUME GraphInv, ExtractionInv, phase = "extracting", UNCHANGED gpVars, AlreadyAchieved
  PROVE  ExtractionInv'
<1>1. /\ Running /\ top.mode = "actions" /\ UNCHANGED <<ret, extraction_layers>>
      /\ \E n \in top.trying : n \in extraction_layers[top.layer]
  BY DEF AlreadyAchieved
<1>2. PICK frame : frame = [top EXCEPT !.remained_goals = @ \ {top.goal}, !.mode = "goals"]
  OBVIOUS
<1>3. stack' = ReplaceTop(stack, frame)
  BY <1>2 DEF AlreadyAchieved
<1>4. /\ top \in FrameType /\ FrameOK(top, Before(Len(stack)))
      /\ extraction_layers[top.layer] = Before(Len(stack))
  BY <1>1, RunningFacts
<1>5. frame \in FrameType
  BY <1>2, <1>4 DEF FrameType
<1>6. /\ frame.layer = top.layer /\ frame.cur_goals = top.cur_goals /\ frame.cnt = top.cnt
      /\ frame.remained_goals = top.remained_goals \ {top.goal} /\ frame.todo = top.todo
      /\ frame.mode = "goals"
  BY <1>2, <1>4 DEF FrameType
<1>7. top.goal \in EffectsOf(Before(Len(stack)))
  BY <1>1, <1>4 DEF FrameOK, Supporters, EffectsOf
<1>8. FrameOK(frame, Before(Len(stack)))
  BY <1>1, <1>4, <1>6, <1>7 DEF FrameOK
<1> QED
  BY <1>1, <1>3, <1>5, <1>6, <1>8, GoesOn

(* A supporter mutex with a chosen action is passed over.                  *)
LEMMA SkipMutexActionKeeps ==
  ASSUME GraphInv, ExtractionInv, phase = "extracting", UNCHANGED gpVars, SkipMutexAction
  PROVE  ExtractionInv'
<1>1. Running /\ top.mode = "actions" /\ UNCHANGED <<ret, extraction_layers>>
  BY DEF SkipMutexAction
<1>2. PICK n \in top.trying : stack' = ReplaceTop(stack, [top EXCEPT !.trying = @ \ {n}])
  BY DEF SkipMutexAction
<1>3. PICK frame : frame = [top EXCEPT !.trying = @ \ {n}]
  OBVIOUS
<1>4. top \in FrameType /\ FrameOK(top, Before(Len(stack)))
  BY <1>1, RunningFacts
<1>5. frame \in FrameType
  BY <1>3, <1>4 DEF FrameType
<1>6. /\ frame.layer = top.layer /\ frame.cur_goals = top.cur_goals /\ frame.cnt = top.cnt
      /\ frame.remained_goals = top.remained_goals /\ frame.todo = top.todo
      /\ frame.goal = top.goal /\ frame.trying = top.trying \ {n} /\ frame.mode = "actions"
  BY <1>1, <1>3, <1>4 DEF FrameType
<1>7. FrameOK(frame, Before(Len(stack)))
  BY <1>1, <1>4, <1>6 DEF FrameOK
<1> QED
  BY <1>1, <1>2, <1>3, <1>5, <1>6, <1>7, GoesOn

(* No supporter is left: the next goal is tried.                           *)
LEMMA GiveUpGoalKeeps ==
  ASSUME GraphInv, ExtractionInv, phase = "extracting", UNCHANGED gpVars, GiveUpGoal
  PROVE  ExtractionInv'
<1>1. Running /\ top.mode = "actions" /\ UNCHANGED <<ret, extraction_layers>>
  BY DEF GiveUpGoal
<1>2. PICK frame : frame = [top EXCEPT !.mode = "goals"]
  OBVIOUS
<1>3. stack' = ReplaceTop(stack, frame)
  BY <1>2 DEF GiveUpGoal
<1>4. top \in FrameType /\ FrameOK(top, Before(Len(stack)))
  BY <1>1, RunningFacts
<1>5. frame \in FrameType
  BY <1>2, <1>4 DEF FrameType
<1>6. /\ frame.layer = top.layer /\ frame.cur_goals = top.cur_goals /\ frame.cnt = top.cnt
      /\ frame.remained_goals = top.remained_goals /\ frame.todo = top.todo
      /\ frame.mode = "goals"
  BY <1>2, <1>4 DEF FrameType
<1>7. FrameOK(frame, Before(Len(stack)))
  BY <1>1, <1>4, <1>6 DEF FrameOK
<1> QED
  BY <1>1, <1>3, <1>5, <1>6, <1>7, GoesOn

(* Reaching layer 0 means that every layer above it is covered.            *)
LEMMA ReachInitialLayerKeeps ==
  ASSUME GraphInv, ExtractionInv, phase = "extracting", UNCHANGED gpVars, ReachInitialLayer
  PROVE  ExtractionInv'
<1>1. /\ Running /\ top.layer = 0 /\ UNCHANGED extraction_layers
      /\ stack' = Pop(stack) /\ ret' = Return(TRUE, TRUE)
  BY DEF ReachInitialLayer
<1>2. AllCovered
  BY <1>1, RunningFacts DEF AllCovered
<1> QED
  BY <1>1, <1>2, RunningFacts, Returns

(* No goal is left: the activation returns a failure.                      *)
LEMMA GiveUpFrameKeeps ==
  ASSUME GraphInv, ExtractionInv, phase = "extracting", UNCHANGED gpVars, GiveUpFrame
  PROVE  ExtractionInv'
<1>1. /\ Running /\ UNCHANGED extraction_layers
      /\ stack' = Pop(stack) /\ ret' = Return(top.found, FALSE)
  BY DEF GiveUpFrame
<1>2. top.found = FALSE
  BY <1>1, RunningFacts DEF FrameType
<1> QED
  BY <1>1, <1>2, RunningFacts, Returns

(* The call on the same layer succeeded: its action stays.                 *)
LEMMA KeepActionKeeps ==
  ASSUME GraphInv, ExtractionInv, phase = "extracting", UNCHANGED gpVars, KeepAction
  PROVE  ExtractionInv'
<1>1. /\ Returning /\ CurLayerExtracted /\ UNCHANGED <<ret, extraction_layers>>
      /\ stack' = Pop(stack)
  BY DEF KeepAction
<1>2. PICK found \in BOOLEAN, extracted \in BOOLEAN : ret = <<found, extracted>>
  BY <1>1 DEF ExtractionInv, ResultInv, Returning
<1>3. extracted /\ (found => AllCovered)
  BY <1>1, <1>2 DEF ExtractionInv, ResultInv, Returning, OverallExtracted, CurLayerExtracted
<1> QED
  BY <1>1, <1>2, <1>3, Returns DEF Returning, Return

(* An activation for the layer below counts as extracted.                  *)
LEMMA ReturnFromBelowKeeps ==
  ASSUME GraphInv, ExtractionInv, phase = "extracting", UNCHANGED gpVars, ReturnFromBelow
  PROVE  ExtractionInv'
<1>1. /\ Returning /\ UNCHANGED extraction_layers
      /\ stack' = Pop(stack) /\ ret' = Return(OverallExtracted, TRUE)
  BY DEF ReturnFromBelow
<1>2. PICK found \in BOOLEAN : OverallExtracted = found
  BY <1>1 DEF ExtractionInv, ResultInv, Returning, OverallExtracted
<1>3. found => AllCovered
  BY <1>1, <1>2 DEF ExtractionInv, ResultInv, Returning
<1> QED
  BY <1>1, <1>2, <1>3, Returns DEF Returning

(* Counting one action more or one less for each of its preconditions      *)
(* keeps a right count right.                                              *)
LEMMA CountsAdd ==
  ASSUME NEW cnt \in [Literal -> Nat], NEW nodes, IsFiniteSet(nodes), NEW n, n \notin nodes,
         Counts(cnt, nodes)
  PROVE  /\ AddPreconds(cnt, n) \in [Literal -> Nat]
         /\ Counts(AddPreconds(cnt, n), nodes \union {n})
         /\ IsFiniteSet(nodes \union {n})
<1>1. AddPreconds(cnt, n) \in [Literal -> Nat]
  BY DEF AddPreconds
<1>2. ASSUME NEW f \in Literal
      PROVE  AddPreconds(cnt, n)[f]
               = Cardinality({m \in nodes \union {n} : f \in precond_facts(m)})
  <2> DEFINE need == {m \in nodes : f \in precond_facts(m)}
  <2>1. IsFiniteSet(need) /\ n \notin need /\ cnt[f] = Cardinality(need)
    BY FS_Subset DEF Counts
  <2>2. CASE f \in precond_facts(n)
    <3>1. {m \in nodes \union {n} : f \in precond_facts(m)} = need \union {n}
      BY <2>2
    <3>2. Cardinality(need \union {n}) = Cardinality(need) + 1
      BY <2>1, FS_AddElement
    <3> QED
      BY <2>1, <2>2, <3>1, <3>2 DEF AddPreconds
  <2>3. CASE f \notin precond_facts(n)
    <3>1. {m \in nodes \union {n} : f \in precond_facts(m)} = need
      BY <2>3
    <3> QED
      BY <2>1, <2>3, <3>1 DEF AddPreconds
  <2> QED
    BY <2>2, <2>3
<1> QED
  BY <1>1, <1>2, FS_AddElement DEF Counts

(* Taking back the preconditions of an action undoes adding them.          *)
LEMMA CountsRemove ==
  ASSUME NEW cnt \in [Literal -> Nat], NEW nodes, IsFiniteSet(nodes), NEW n, n \notin nodes,
         Counts(cnt, nodes \union {n})
  PROVE  /\ SubPreconds(cnt, n) \in [Literal -> Nat]
         /\ Counts(SubPreconds(cnt, n), nodes)
<1>1. ASSUME NEW f \in Literal
      PROVE  /\ SubPreconds(cnt, n)[f] = Cardinality({m \in nodes : f \in precond_facts(m)})
             /\ SubPreconds(cnt, n)[f] \in Nat
  <2> DEFINE need == {m \in nodes : f \in precond_facts(m)}
  <2>1. IsFiniteSet(need) /\ n \notin need /\ Cardinality(need) \in Nat
    BY FS_Subset, FS_CardinalityType
  <2>2. cnt[f] = Cardinality({m \in nodes \union {n} : f \in precond_facts(m)})
    BY DEF Counts
  <2>3. CASE f \in precond_facts(n)
    <3>1. {m \in nodes \union {n} : f \in precond_facts(m)} = need \union {n}
      BY <2>3
    <3>2. Cardinality(need \union {n}) = Cardinality(need) + 1
      BY <2>1, FS_AddElement
    <3>3. cnt[f] = Cardinality(need) + 1
      BY <2>2, <3>1, <3>2
    <3>4. SubPreconds(cnt, n)[f] = cnt[f] - 1
      BY <2>3 DEF SubPreconds
    <3> HIDE DEF need
    <3> QED
      BY <2>1, <3>3, <3>4 DEF need
  <2>4. CASE f \notin precond_facts(n)
    <3>1. {m \in nodes \union {n} : f \in precond_facts(m)} = need
      BY <2>4
    <3> QED
      BY <2>1, <2>2, <2>4, <3>1 DEF SubPreconds
  <2> QED
    BY <2>3, <2>4
<1>2. SubPreconds(cnt, n) \in [Literal -> Nat]
  BY <1>1 DEF SubPreconds
<1> QED
  BY <1>1, <1>2 DEF Counts

(* The layer below is asked for exactly the preconditions of the actions   *)
(* extracted for this layer: those are the facts with a positive count.    *)
LEMMA DescendToPreviousLayerKeeps ==
  ASSUME GraphInv, ExtractionInv, phase = "extracting", UNCHANGED gpVars,
         DescendToPreviousLayer
  PROVE  ExtractionInv'
<1>1. /\ Running /\ UNCHANGED <<ret, extraction_layers>>
      /\ top.layer > 0 /\ top.cur_goals = {} /\ top.mode = "goals"
  BY DEF DescendToPreviousLayer
<1>2. PICK before, k, n : before = Before(Len(stack)) /\ k = top.layer /\ n = Len(stack)
  OBVIOUS
<1>3. /\ top \in FrameType /\ FrameOK(top, before) /\ k \in 1..layers - 1
      /\ extraction_layers[k] = before /\ stack # <<>> /\ layers \in Nat
      /\ extraction_layers \in [0..layers - 1 -> SUBSET Node]
      /\ \A l \in 0..k - 1 : extraction_layers[l] = {}
      /\ \A l \in k + 1..layers - 1 : Needed(l) \subseteq Achieved(l)
  BY <1>1, <1>2, RunningFacts
<1>4. PICK prev : prev = {f \in Literal : top.cnt[f] > 0}
  OBVIOUS
<1>5. PICK frame : frame = [top EXCEPT !.mode = "below"]
  OBVIOUS
<1>6. PICK callee : callee = Frame(k - 1, prev, NoCount)
  OBVIOUS
<1>7. stack' = Append(ReplaceTop(stack, frame), callee)
  BY <1>2, <1>4, <1>5, <1>6 DEF DescendToPreviousLayer
<1>8. /\ frame \in FrameType /\ frame.layer = k /\ frame.cur_goals = top.cur_goals
      /\ frame.cnt = top.cnt /\ frame.remained_goals = top.remained_goals
      /\ frame.todo = top.todo /\ frame.mode = "below"
  BY <1>2, <1>3, <1>5 DEF FrameType
<1>9. FrameOK(frame, before)
  BY <1>1, <1>2, <1>3, <1>8 DEF FrameOK
<1>10. k - 1 \in 0..layers - 1 /\ k - 1 < k /\ k - 1 # layers - 1 /\ (k - 1) + 1 = k
  BY <1>3
<1>11. NoCount \in [Literal -> Nat] /\ Counts(NoCount, {})
  BY FS_EmptySet DEF NoCount, Counts
<1>12. /\ callee \in FrameType /\ callee.layer = k - 1 /\ callee.cur_goals = prev
       /\ callee.cnt = NoCount /\ callee.remained_goals = prev /\ callee.todo = prev
       /\ callee.mode = "goals"
  BY <1>4, <1>6, <1>10, <1>11 DEF Frame, FrameType
<1>13. Needed(k - 1) \subseteq prev
  <2> SUFFICES ASSUME NEW m \in before, NEW f \in precond_facts(m)
               PROVE  f \in prev
    BY <1>3, <1>10 DEF Needed
  <2> DEFINE need == {h \in before : f \in precond_facts(h)}
  <2>1. f \in Literal
    <3>1. k \in 1..layers - 1 /\ m \in action_layers[k]
      BY <1>3 DEF ExtractionInv, ExtractedCompatible
    <3> QED
      BY <3>1, NodeFacts
  <2>2. top.cnt[f] = Cardinality(need)
    BY <1>1, <1>3, <2>1 DEF FrameOK, Counts
  <2>3. IsFiniteSet(need) /\ need # {}
    BY <1>3, FS_Subset DEF FrameOK
  <2>4. Cardinality(need) \in Nat /\ Cardinality(need) # 0
    BY <2>3, FS_CardinalityType, FS_EmptySet
  <2> HIDE DEF need
  <2> QED
    BY <1>4, <2>1, <2>2, <2>4
<1>14. FrameOK(callee, {})
  BY <1>11, <1>12, <1>13, FS_EmptySet DEF FrameOK
<1>15. Inner /\ UNCHANGED <<layers, goals, action_layers>>
  BY <1>1 DEF Inner, gpVars, graph
<1>16. FrameOK(frame, before)' /\ FrameOK(callee, {})'
  BY <1>1, <1>3, <1>8, <1>9, <1>12, <1>14, <1>15, FrameKept
<1>17. /\ StackInv' /\ stack' # <<>> /\ top' = callee
       /\ Chosen(Len(stack), top.layer)' = {}
  <2>1. PICK chosen : chosen = {}
    OBVIOUS
  <2>2. StackInv /\ ret' = NoReturn
    BY <1>1 DEF ExtractionInv, Running
  <2> QED
    BY <1>2, <1>3, <1>7, <1>8, <1>10, <1>12, <1>15, <1>16, <2>1, <2>2, CallKeeps
<1>18. LiveInv'
  <2>1. Needed(k) \subseteq Achieved(k)
    BY <1>1, <1>2, <1>3 DEF FrameOK, Achieved, EffectsOf
  <2>2. \A l \in (k - 1) + 1..layers - 1 : Needed(l) \subseteq Achieved(l)
    BY <1>3, <2>1
  <2>3. \A l \in (k - 1) + 1..layers - 1 : Needed(l)' \subseteq Achieved(l)'
    BY <1>1, <2>2, SameExtracted
  <2>4. extraction_layers'[k - 1] = {} /\ \A l \in 0..(k - 1) - 1 : extraction_layers'[l] = {}
    BY <1>1, <1>3, <1>10
  <2> QED
    BY <1>12, <1>15, <1>17, <2>3, <2>4 DEF LiveInv
<1>19. ResultInv'
  BY <1>1 DEF ResultInv, Running
<1> QED
  BY <1>1, <1>17, <1>18, <1>19, SameExtracted DEF ExtractionInv, gpVars

(* The action chosen is mutex with none of those extracted for the layer,  *)
(* asked either way, and brings about the goal that leaves remained_goals. *)
LEMMA ChooseActionKeeps ==
  ASSUME GraphInv, ExtractionInv, phase = "extracting", UNCHANGED gpVars, ChooseAction
  PROVE  ExtractionInv'
<1>1. Running /\ top.mode = "actions" /\ UNCHANGED ret
  BY DEF ChooseAction
<1>2. PICK before, k : before = Before(Len(stack)) /\ k = top.layer
  OBVIOUS
<1>3. PICK n \in top.trying \ extraction_layers[k] :
        /\ ~MutexWithExtracted(n, k)
        /\ LET remained == top.remained_goals \ {top.goal}
               cnt == AddPreconds(top.cnt, n)
           IN  stack' = Append(ReplaceTop(stack,
                                 [top EXCEPT !.remained_goals = remained,
                                             !.cnt = cnt,
                                             !.action = n,
                                             !.trying = @ \ {n},
                                             !.mode = "same"]),
                               Frame(k, remained, cnt))
        /\ extraction_layers' = [extraction_layers EXCEPT ![k] = @ \union {n}]
  BY <1>2 DEF ChooseAction
<1>4. /\ top \in FrameType /\ FrameOK(top, before) /\ k \in 0..layers - 1
      /\ extraction_layers[k] = before /\ stack # <<>> /\ layers \in Nat
      /\ extraction_layers \in [0..layers - 1 -> SUBSET Node]
      /\ \A l \in 0..k - 1 : extraction_layers[l] = {}
      /\ \A l \in k + 1..layers - 1 : Needed(l) \subseteq Achieved(l)
  BY <1>1, <1>2, RunningFacts
<1>5. PICK remained, cnt : /\ remained = top.remained_goals \ {top.goal}
                           /\ cnt = AddPreconds(top.cnt, n)
  OBVIOUS
<1>6. PICK frame : frame = [top EXCEPT !.remained_goals = remained, !.cnt = cnt, !.action = n,
                                       !.trying = @ \ {n}, !.mode = "same"]
  OBVIOUS
<1>7. PICK callee : callee = Frame(k, remained, cnt)
  OBVIOUS
<1>8. stack' = Append(ReplaceTop(stack, frame), callee)
  BY <1>3, <1>5, <1>6, <1>7
<1>9. /\ k \in 1..layers - 1 /\ n \notin before /\ n \in Node /\ n \in action_layers[k]
      /\ n \in Supporters(top.goal, action_layers[k]) /\ top.goal \in top.cur_goals
  <2>1. /\ k > 0 /\ n \in Supporters(top.goal, action_layers[k]) /\ top.goal \in top.cur_goals
        /\ n \notin before
    BY <1>1, <1>2, <1>3, <1>4 DEF FrameOK
  <2>2. k \in 1..layers - 1 /\ n \in action_layers[k]
    BY <1>4, <2>1 DEF Supporters
  <2> QED
    BY <2>1, <2>2, NodeFacts
<1>10. /\ cnt \in [Literal -> Nat] /\ Counts(cnt, before \union {n})
       /\ IsFiniteSet(before \union {n})
  <2>1. top.cnt \in [Literal -> Nat] /\ Counts(top.cnt, before) /\ IsFiniteSet(before)
    BY <1>1, <1>4 DEF FrameType, FrameOK
  <2> QED
    BY <1>5, <1>9, <2>1, CountsAdd
<1>11. remained \subseteq Literal /\ remained \subseteq top.cur_goals
  BY <1>4, <1>5 DEF FrameType, FrameOK
<1>12. /\ frame \in FrameType /\ frame.layer = k /\ frame.cur_goals = top.cur_goals
       /\ frame.cnt = cnt /\ frame.remained_goals = remained /\ frame.todo = top.todo
       /\ frame.goal = top.goal /\ frame.trying = top.trying \ {n} /\ frame.action = n
       /\ frame.mode = "same"
  BY <1>2, <1>4, <1>6, <1>9, <1>10, <1>11 DEF FrameType
<1>13. /\ callee \in FrameType /\ callee.layer = k /\ callee.cur_goals = remained
       /\ callee.cnt = cnt /\ callee.remained_goals = remained /\ callee.todo = remained
       /\ callee.mode = "goals"
  BY <1>4, <1>7, <1>10, <1>11 DEF Frame, FrameType
<1>14. Needed(k) \ top.remained_goals \subseteq EffectsOf(before)
  BY <1>1, <1>2, <1>4 DEF FrameOK
<1>15. FrameOK(frame, before)
  BY <1>1, <1>2, <1>4, <1>5, <1>9, <1>10, <1>11, <1>12, <1>14 DEF FrameOK
<1>16. FrameOK(callee, before \union {n})
  <2>1. top.goal \in effect_facts(n)
    BY <1>9 DEF Supporters
  <2>2. Needed(k) \ remained \subseteq EffectsOf(before \union {n})
    BY <1>5, <1>14, <2>1 DEF EffectsOf
  <2> QED
    BY <1>10, <1>13, <2>2 DEF FrameOK
<1>17. /\ UNCHANGED <<layers, goals, action_layers, action_mutex_layers, phase>>
       /\ \A l \in 0..layers - 1 : l # k => extraction_layers'[l] = extraction_layers[l]
       /\ extraction_layers'[k] = before \union {n}
       /\ extraction_layers' \in [0..layers - 1 -> SUBSET Node]
  BY <1>3, <1>4, <1>9 DEF gpVars, graph
<1>18. \A l \in k + 1..layers - 1 : extraction_layers'[l] = extraction_layers[l]
  BY <1>4, <1>17
<1>19. Inner
  BY <1>2, <1>17, <1>18 DEF Inner
<1>20. FrameOK(frame, before)' /\ FrameOK(callee, before \union {n})'
  <2>1. PICK chosen : chosen = before \union {n}
    OBVIOUS
  <2> QED
    BY <1>4, <1>12, <1>13, <1>15, <1>16, <1>17, <1>18, <2>1, FrameKept
<1>21. /\ StackInv' /\ stack' # <<>> /\ top' = callee
       /\ Chosen(Len(stack), top.layer)' = before \union {n}
  <2>1. PICK chosen : chosen = before \union {n}
    OBVIOUS
  <2>2. StackInv /\ ret' = NoReturn
    BY <1>1 DEF ExtractionInv, Running
  <2>3. FrameOK(callee, chosen)'
    BY <1>20, <2>1
  <2> QED
    BY <1>2, <1>4, <1>8, <1>12, <1>13, <1>19, <1>20, <2>1, <2>2, <2>3, CallKeeps, ZenonT(40)
<1>22. LiveInv'
  <2>1. ASSUME NEW l \in k + 1..layers - 1
        PROVE  Needed(l)' \subseteq Achieved(l)'
    <3>1. l \in 0..layers - 1 /\ \A h \in l + 1..layers - 1 : h \in k + 1..layers - 1
      BY <1>4
    <3>2. Needed(l)' = Needed(l)
      BY <1>4, <1>17, <1>18, <3>1, NeededSame
    <3>3. Achieved(l)' = Achieved(l)
      BY <1>18 DEF Achieved
    <3> QED
      BY <1>4, <3>2, <3>3
  <2>2. \A l \in 0..k - 1 : extraction_layers'[l] = {}
    BY <1>4, <1>17
  <2> QED
    BY <1>13, <1>17, <1>21, <2>1, <2>2 DEF LiveInv
<1>23. ResultInv'
  BY <1>1 DEF ResultInv, Running
<1>24. ExtractedInv'
  <2>1. 0 \in 0..layers - 1 /\ 0 # k
    BY <1>4, <1>9
  <2>2. extraction_layers[0] = {}
    BY DEF ExtractionInv, ExtractedInv
  <2> QED
    BY <1>17, <2>1, <2>2 DEF ExtractedInv
<1>25. ExtractedCompatible'
  <2> SUFFICES ASSUME NEW l \in 1..layers - 1
               PROVE  /\ extraction_layers'[l] \subseteq action_layers[l]
                      /\ \A m, h \in extraction_layers'[l] : <<m, h>> \notin action_mutex_layers[l]
    BY <1>17 DEF ExtractedCompatible
  <2>1. /\ extraction_layers[l] \subseteq action_layers[l]
        /\ \A m, h \in extraction_layers[l] : <<m, h>> \notin action_mutex_layers[l]
    BY DEF ExtractionInv, ExtractedCompatible
  <2>2. CASE l # k
    BY <1>17, <2>1, <2>2
  <2>3. CASE l = k
    <3>1. \A m \in before : <<n, m>> \notin action_mutex_layers[k]
      BY <1>3, <1>4 DEF MutexWithExtracted
    <3>2. \A m \in before : <<m, n>> \notin action_mutex_layers[k]
      BY <1>4, <1>9, <2>1, <2>3, <3>1, NotMutexFacts
    <3>3. <<n, n>> \notin action_mutex_layers[k]
      BY <1>9, NotMutexFacts
    <3> QED
      BY <1>4, <1>9, <1>17, <2>1, <2>3, <3>1, <3>2, <3>3
  <2> QED
    BY <2>2, <2>3
<1> QED
  BY <1>17, <1>21, <1>22, <1>23, <1>24, <1>25 DEF ExtractionInv

(* A failed choice is taken back together with its counts; the activation  *)
(* has found nothing yet.                                                  *)
LEMMA UndoActionKeeps ==
  ASSUME GraphInv, ExtractionInv, phase = "extracting", UNCHANGED gpVars, UndoAction
  PROVE  ExtractionInv'
<1>1. /\ Returning /\ stack # <<>> /\ ret # NoReturn
      /\ top.mode = "same" /\ ~CurLayerExtracted /\ ret' = NoReturn
  BY DEF UndoAction, Returning
<1>2. PICK before, k : before = Before(Len(stack)) /\ k = top.layer
  OBVIOUS
<1>3. PICK n : n = top.action
  OBVIOUS
<1>4. /\ top \in FrameType /\ FrameOK(top, before) /\ k \in 0..layers - 1
      /\ Len(stack) \in Nat \ {0} /\ layers \in Nat /\ before = Chosen(Len(stack) - 1, k)
  BY <1>1, <1>2, TopFacts, FrameLayer DEF ExtractionInv, GraphInv, TypeOK
<1>5. /\ n \in Supporters(top.goal, action_layers[k]) \ before /\ k > 0
      /\ top.goal \in top.cur_goals /\ top.trying \subseteq Supporters(top.goal, action_layers[k])
      /\ Counts(top.cnt, before \union {n}) /\ IsFiniteSet(before)
      /\ Needed(k) \ (top.remained_goals \union {top.goal}) \subseteq EffectsOf(before)
  BY <1>1, <1>2, <1>3, <1>4 DEF FrameOK
<1>6. /\ extraction_layers \in [0..layers - 1 -> SUBSET Node]
      /\ extraction_layers[k] = before \union {n}
      /\ \A l \in 0..k - 1 : extraction_layers[l] = {}
      /\ \A l \in k + 1..layers - 1 : Needed(l) \subseteq Achieved(l)
  <2>1. Chosen(Len(stack), k) = before \union {n}
    BY <1>1, <1>2, <1>3, <1>4, ChosenGrows DEF top
  <2> QED
    BY <1>1, <1>2, <2>1 DEF ExtractionInv, LiveInv, ExtractedInv
<1>7. OverallExtracted = FALSE
  BY <1>1 DEF ExtractionInv, ResultInv, OverallExtracted
<1>8. PICK remained, cnt : /\ remained = top.remained_goals \union {top.goal}
                           /\ cnt = SubPreconds(top.cnt, n)
  OBVIOUS
<1>9. PICK frame : frame = [top EXCEPT !.remained_goals = remained, !.cnt = cnt, !.found = FALSE,
                                       !.action = NoNode, !.mode = "actions"]
  OBVIOUS
<1>10. /\ stack' = ReplaceTop(stack, frame)
       /\ extraction_layers' = [extraction_layers EXCEPT ![k] = @ \ {n}]
  BY <1>2, <1>3, <1>7, <1>8, <1>9 DEF UndoAction
<1>11. cnt \in [Literal -> Nat] /\ Counts(cnt, before)
  <2>1. top.cnt \in [Literal -> Nat]
    BY <1>4 DEF FrameType
  <2> QED
    BY <1>5, <1>8, <2>1, CountsRemove
<1>12. /\ frame \in FrameType /\ frame.layer = k /\ frame.cur_goals = top.cur_goals
       /\ frame.cnt = cnt /\ frame.remained_goals = remained /\ frame.todo = top.todo
       /\ frame.goal = top.goal /\ frame.trying = top.trying /\ frame.mode = "actions"
  <2>1. remained \in SUBSET Literal
    BY <1>4, <1>5, <1>8 DEF FrameType
  <2> QED
    BY <1>2, <1>4, <1>9, <1>11, <2>1 DEF FrameType
<1>13. FrameOK(frame, before)
  BY <1>4, <1>5, <1>8, <1>11, <1>12 DEF FrameOK
<1>14. /\ UNCHANGED <<layers, goals, action_layers, action_mutex_layers, phase>>
       /\ \A l \in 0..layers - 1 : l # k => extraction_layers'[l] = extraction_layers[l]
       /\ extraction_layers'[k] = before
       /\ extraction_layers' \in [0..layers - 1 -> SUBSET Node]
  <2>1. (before \union {n}) \ {n} = before
    BY <1>5
  <2>2. before \in SUBSET Node
    BY <1>4, <1>6
  <2> QED
    BY <1>4, <1>6, <1>10, <2>1, <2>2 DEF gpVars, graph
<1>15. \A l \in k + 1..layers - 1 : extraction_layers'[l] = extraction_layers[l]
  BY <1>4, <1>14
<1>16. Inner
  BY <1>2, <1>14, <1>15 DEF Inner
<1>17. FrameOK(frame, before)'
  BY <1>4, <1>12, <1>13, <1>14, <1>15, FrameKept
<1>18. /\ StackInv' /\ stack' # <<>> /\ top' = frame
       /\ Chosen(Len(stack), top.layer)' = before
  <2>1. StackInv
    BY DEF ExtractionInv
  <2> QED
    BY <1>1, <1>2, <1>4, <1>10, <1>12, <1>16, <1>17, <2>1, ReplaceTopKeeps
<1>19. LiveInv'
  <2>1. ASSUME NEW l \in k + 1..layers - 1
        PROVE  Needed(l)' \subseteq Achieved(l)'
    <3>1. l \in 0..layers - 1 /\ \A h \in l + 1..layers - 1 : h \in k + 1..layers - 1
      BY <1>4
    <3>2. Needed(l)' = Needed(l)
      BY <1>4, <1>14, <1>15, <3>1, NeededSame
    <3>3. Achieved(l)' = Achieved(l)
      BY <1>15 DEF Achieved
    <3> QED
      BY <1>6, <3>2, <3>3
  <2>2. \A l \in 0..k - 1 : extraction_layers'[l] = {}
    BY <1>4, <1>6, <1>14
  <2> QED
    BY <1>12, <1>14, <1>18, <2>1, <2>2 DEF LiveInv
<1>20. ResultInv'
  BY <1>1 DEF ResultInv
<1>21. ExtractedInv'
  <2>1. 0 \in 0..layers - 1 /\ 0 # k
    BY <1>4, <1>5
  <2>2. extraction_layers[0] = {}
    BY DEF ExtractionInv, ExtractedInv
  <2> QED
    BY <1>14, <2>1, <2>2 DEF ExtractedInv
<1>22. ExtractedCompatible'
  <2> SUFFICES ASSUME NEW l \in 1..layers - 1
               PROVE  /\ extraction_layers'[l] \subseteq action_layers[l]
                      /\ \A m, h \in extraction_layers'[l] : <<m, h>> \notin action_mutex_layers[l]
    BY <1>14 DEF ExtractedCompatible
  <2>1. /\ extraction_layers[l] \subseteq action_layers[l]
        /\ \A m, h \in extraction_layers[l] : <<m, h>> \notin action_mutex_layers[l]
    BY DEF ExtractionInv, ExtractedCompatible
  <2> QED
    BY <1>6, <1>14, <2>1
<1> QED
  BY <1>14, <1>18, <1>19, <1>20, <1>21, <1>22 DEF ExtractionInv

(* extract_solution starts from empty extraction layers.                   *)
LEMMA StartExtractionKeeps ==
  ASSUME GraphInv, StartExtraction, UNCHANGED <<actions, goals, graph>>, phase' = "extracting"
  PROVE  ExtractionInv'
<1>1. PICK frame : frame = Frame(layers - 1, goals, NoCount)
  OBVIOUS
<1>2. /\ layers \in Nat \ {0} /\ layers - 1 \in 0..layers - 1 /\ goals \subseteq Literal
      /\ UNCHANGED <<layers, goals, action_layers, action_mutex_layers>>
  BY DEF GraphInv, TypeOK, Literal, Positive, graph
<1>3. /\ stack' = <<frame>> /\ ret' = NoReturn
      /\ extraction_layers' = [k \in 0..layers - 1 |-> {}]
  BY <1>1 DEF StartExtraction
<1>4. NoCount \in [Literal -> Nat] /\ Counts(NoCount, {})
  BY FS_EmptySet DEF NoCount, Counts
<1>5. /\ frame \in FrameType /\ frame.layer = layers - 1 /\ frame.cur_goals = goals
      /\ frame.cnt = NoCount /\ frame.remained_goals = goals /\ frame.todo = goals
      /\ frame.mode = "goals"
  BY <1>1, <1>2, <1>4 DEF Frame, FrameType
<1>6. Needed(layers - 1)' = goals
  BY <1>2 DEF Needed
<1>7. FrameOK(frame, {})'
  BY <1>2, <1>4, <1>5, <1>6, FS_EmptySet DEF FrameOK, Counts, EffectsOf
<1>8. FrameType' = FrameType /\ stack' \in Seq(FrameType) /\ Len(stack') = 1
      /\ stack'[1] = frame /\ top' = frame /\ stack' # <<>>
  <2>1. FrameType' = FrameType
    BY <1>2 DEF FrameType
  <2>2. stack' \in Seq(FrameType) /\ Len(stack') = 1 /\ stack'[1] = frame /\ stack' # <<>>
    BY <1>3, <1>5
  <2>3. top' = frame
    BY <2>2 DEF top
  <2> QED
    BY <2>1, <2>2, <2>3
<1>9. Chosen(0, layers - 1)' = {} /\ Chosen(1, layers - 1)' = {}
  <2>1. 1..1 = {1} /\ 1..0 = {}
    OBVIOUS
  <2> QED
    BY <1>2, <1>5, <1>8, <2>1 DEF Chosen
<1>10. StackInv'
  <2>1. Before(1)' = {}
    BY <1>2, <1>5, <1>8, <1>9 DEF Before
  <2>2. FrameOK(stack[1], Before(1))'
    BY <1>7, <1>8, <2>1
  <2>3. 1..1 = {1} /\ 1..1 - 1 = {}
    OBVIOUS
  <2> QED
    BY <1>3, <1>5, <1>8, <2>2, <2>3 DEF StackInv, Running, Returning
<1>11. LiveInv'
  <2>1. PICK k : k = layers - 1
    OBVIOUS
  <2>2. /\ k \in 0..layers - 1 /\ (k + 1)..layers - 1 = {}
        /\ \A l \in 0..k - 1 : l \in 0..layers - 1
    BY <1>2, <2>1
  <2>3. extraction_layers'[k] = {} /\ \A l \in 0..k - 1 : extraction_layers'[l] = {}
    BY <1>3, <2>2
  <2>4. top'.layer = k /\ Chosen(Len(stack), k)' = {}
    <3>1. layers' - 1 = k
      BY <1>2, <2>1
    <3> QED
      BY <1>5, <1>8, <1>9, <2>1, <3>1
  <2> QED
    BY <1>2, <2>2, <2>3, <2>4 DEF LiveInv
<1>12. ResultInv' /\ ExtractedInv' /\ ExtractedCompatible'
  BY <1>2, <1>3 DEF ResultInv, ExtractedInv, ExtractedCompatible
<1> QED
  BY <1>10, <1>11, <1>12 DEF ExtractionInv
------------------------------------------------------------------------------
(* Every step of the recursion keeps the invariant.                        *)
LEMMA ExtractStepKeeps ==
  ASSUME GraphInv, ExtractionInv, ExtractStep
  PROVE  GraphInv' /\ ExtractionInv'
<1>1. phase = "extracting" /\ UNCHANGED gpVars /\ extract_backward_from_layer
  BY DEF ExtractStep
<1>2. GraphInv'
  <2>1. UNCHANGED <<actions, goals, graph>> /\ phase' \in Phases
    BY <1>1 DEF gpVars, Phases
  <2> QED
    BY <2>1, SameGraphInv
<1>3. ExtractionInv'
  <2>1. CASE ReachInitialLayer
    BY <1>1, <2>1, ReachInitialLayerKeeps
  <2>2. CASE DescendToPreviousLayer
    BY <1>1, <2>2, DescendToPreviousLayerKeeps
  <2>3. CASE NextGoal
    BY <1>1, <2>3, NextGoalKeeps
  <2>4. CASE AlreadyAchieved
    BY <1>1, <2>4, AlreadyAchievedKeeps
  <2>5. CASE SkipMutexAction
    BY <1>1, <2>5, SkipMutexActionKeeps
  <2>6. CASE ChooseAction
    BY <1>1, <2>6, ChooseActionKeeps
  <2>7. CASE GiveUpGoal
    BY <1>1, <2>7, GiveUpGoalKeeps
  <2>8. CASE GiveUpFrame
    BY <1>1, <2>8, GiveUpFrameKeeps
  <2>9. CASE KeepAction
    BY <1>1, <2>9, KeepActionKeeps
  <2>10. CASE UndoAction
    BY <1>1, <2>10, UndoActionKeeps
  <2>11. CASE ReturnFromBelow
    BY <1>1, <2>11, ReturnFromBelowKeeps
  <2> QED
    BY <1>1, <2>1, <2>2, <2>3, <2>4, <2>5, <2>6, <2>7, <2>8, <2>9, <2>10, <2>11
       DEF extract_backward_from_layer
<1> QED
  BY <1>2, <1>3

(* Between two extractions nothing is on the stack, so that the graph may  *)
(* grow: an answer found FALSE promises nothing about it.                  *)
LEMMA IdleKeeps ==
  ASSUME stack' = <<>>, ret' = NoReturn \/ (ret' \in BOOLEAN \X BOOLEAN /\ ~ret'[1]),
         phase' \notin {"extracting", "solved"}
  PROVE  ExtractionInv'
<1>1. /\ stack' \in Seq(FrameType') /\ Len(stack') = 0 /\ 1..0 = {} /\ 1..0 - 1 = {}
      /\ ~Running' /\ ~Returning'
  BY DEF Running, Returning
<1>2. StackInv' /\ LiveInv'
  BY <1>1 DEF StackInv, LiveInv
<1>3. ResultInv'
  BY DEF ResultInv, OverallExtracted
<1> QED
  BY <1>2, <1>3 DEF ExtractionInv, ExtractedInv, ExtractedCompatible

(* compute_planning_graph seeds the graph and keeps all of it: the graph,  *)
(* the extraction under way, and what its control flow tells.              *)
LEMMA SegmentInitInv ==
  ASSUME SegmentInit
  PROVE  GraphInv /\ ExtractionInv /\ SegmentInv
<1>1. GraphInv /\ phase = "contain" /\ layers = 1 /\ stack = <<>> /\ ret = NoReturn
  BY SeedGraphInv DEF SegmentInit
<1> PICK s \in Segments : SeedGraph(s)
  BY DEF SegmentInit, GraphInit
<1>2. actions = <<>> => goals \subseteq state_layers[0]
  BY DEF SeedGraph
<1>3. Len(actions) \in Nat
  BY <1>1 DEF GraphInv, TypeOK
<1>4. SegmentInv
  BY <1>1, <1>2, <1>3 DEF SegmentInv
<1>5. /\ stack \in Seq(FrameType) /\ Len(stack) = 0 /\ 1..0 = {} /\ 1..0 - 1 = {}
      /\ ~Running /\ ~Returning
  BY <1>1 DEF Running, Returning
<1>6. StackInv /\ LiveInv
  BY <1>1, <1>5 DEF StackInv, LiveInv
<1> QED
  BY <1>1, <1>4, <1>6 DEF ExtractionInv, ResultInv, ExtractedInv, ExtractedCompatible

(* Every step of compute_planning_graph keeps the three invariants.        *)
LEMMA PlanKeeps ==
  ASSUME GraphInv, ExtractionInv, SegmentInv, compute_planning_graph
  PROVE  GraphInv' /\ ExtractionInv' /\ SegmentInv'
<1>0. layers \in Nat \ {0} /\ Len(actions) \in Nat
  BY DEF GraphInv, TypeOK
<1>1. ASSUME create_graph_layer, ~LayersExceeded, UNCHANGED <<actions, goals>>
      PROVE  /\ layers' = layers + 1 /\ layers' <= Len(actions) + 1
             /\ state_layers'[0] = state_layers[0]
             /\ goals \subseteq state_layers[layers - 1] => goals' \subseteq state_layers'[layers' - 1]
  <2>1. layers' = layers + 1 /\ 0 \in 0..layers - 1 /\ layers - 1 \in 0..layers - 1
    BY <1>0, <1>1 DEF create_graph_layer
  <2>2. \A k \in 0..layers - 1 : state_layers'[k] = state_layers[k]
    BY <1>1, GrowShape DEF GraphInv
  <2>3. state_layers[layers - 1] \subseteq state_layers'[layers]
    <3>1. PICK facts : /\ state_layers' = PushBack(state_layers, facts)
                       /\ state_layers[layers - 1] \subseteq facts
      BY <1>1 DEF create_graph_layer, NextStateLayer
    <3> QED
      BY <1>0, <3>1 DEF PushBack
  <2> QED
    BY <1>0, <1>1, <2>1, <2>2, <2>3 DEF LayersExceeded
<1>2. CASE BuildGraph
  <2>1. /\ phase \in {"contain", "nonmutex"} /\ phase' \in {"contain", "nonmutex", "built"}
        /\ UNCHANGED <<actions, goals, extractionVars, ret_action_layers>>
        /\ stack = <<>>
    BY <1>2 DEF BuildGraph, create_init_graph, ExpandToContain, LeaveContainLoop, ExpandToNonMutex,
                LeaveMutexLoop, ExtractionInv
  <2>2. ExtractionInv'
    <3>1. ret = NoReturn \/ (ret \in BOOLEAN \X BOOLEAN /\ ~ret[1])
      BY <2>1 DEF SegmentInv, ExtractionInv, ResultInv, OverallExtracted
    <3> QED
      BY <2>1, <3>1, IdleKeeps DEF extractionVars
  <2>3. CASE create_graph_layer /\ ~LayersExceeded /\ phase' = phase
    <3>1. GraphInv'
      BY <2>1, <2>3, GrowGraphInv DEF Phases
    <3>2. /\ phase' \notin {"extracting", "solved"} => ret' = NoReturn \/ ~OverallExtracted'
          /\ phase' # "solved"
      BY <2>1 DEF SegmentInv, OverallExtracted, extractionVars
    <3>3. /\ layers' <= Len(actions') + 1
          /\ actions' = <<>> => goals' \subseteq state_layers'[0]
      BY <1>1, <2>1, <2>3 DEF SegmentInv
    <3>4. phase' # "contain" => layers' > Len(actions') \/ goals' \subseteq state_layers'[layers' - 1]
      BY <1>0, <1>1, <2>1, <2>3 DEF SegmentInv
    <3> QED
      BY <2>2, <3>1, <3>2, <3>3, <3>4 DEF SegmentInv
  <2>4. CASE LeaveContainLoop \/ LeaveMutexLoop
    <3>1. UNCHANGED <<actions, goals, graph>> /\ phase' # "contain" /\ phase' # "solved"
      BY <2>4 DEF LeaveContainLoop, LeaveMutexLoop
    <3>2. GraphInv'
      BY <2>1, <3>1, SameGraphInv DEF Phases
    <3>3. layers > Len(actions) \/ goals \subseteq state_layers[layers - 1]
      BY <2>4 DEF LeaveContainLoop, LeaveMutexLoop, SegmentInv, goal_contained_in_state_layer,
                  LayersExceeded
    <3> QED
      BY <2>1, <2>2, <3>1, <3>2, <3>3 DEF SegmentInv, OverallExtracted, extractionVars, graph
  <2> QED
    BY <1>2, <2>3, <2>4 DEF BuildGraph, create_init_graph, ExpandToContain, ExpandToNonMutex
<1>3. CASE Extract
  <2>1. /\ UNCHANGED <<actions, goals, graph>> /\ phase = "built" /\ phase' = "extracting"
        /\ StartExtraction
    BY <1>3 DEF Extract
  <2>2. GraphInv'
    BY <2>1, SameGraphInv DEF Phases
  <2> QED
    BY <2>1, <2>2, StartExtractionKeeps DEF SegmentInv, graph
<1>4. CASE ExtractStep
  <2>1. phase = "extracting" /\ UNCHANGED gpVars
    BY <1>4 DEF ExtractStep
  <2> QED
    BY <1>4, <2>1, ExtractStepKeeps DEF SegmentInv, gpVars, graph
<1>5. CASE Solved
  <2>1. /\ UNCHANGED <<actions, goals, graph, extractionVars>> /\ phase = "extracting"
        /\ phase' = "solved" /\ stack = <<>> /\ ret # NoReturn /\ OverallExtracted
        /\ ret_action_layers' = ActionLayersOf(extraction_layers)
    BY <1>5 DEF Solved, Returned
  <2>2. UNCHANGED <<layers, goals, state_layers, action_layers, action_mutex_layers, stack, ret,
                    extraction_layers>>
    BY <2>1 DEF graph, extractionVars
  <2>3. GraphInv'
    BY <2>1, SameGraphInv DEF Phases
  <2>4. ActionLayersOf(extraction_layers)' = ActionLayersOf(extraction_layers)
    BY <2>2 DEF ActionLayersOf
  <2>5. SegmentInv'
    BY <2>1, <2>2, <2>4 DEF SegmentInv, OverallExtracted
  <2>6. /\ stack' \in Seq(FrameType') /\ Len(stack') = 0 /\ 1..0 = {} /\ 1..0 - 1 = {}
        /\ ~Running' /\ ~Returning'
    BY <2>1, <2>2 DEF Running, Returning
  <2>7. StackInv' /\ LiveInv'
    BY <2>6 DEF StackInv, LiveInv
  <2>8. ResultInv'
    <3>1. /\ ret \in BOOLEAN \X BOOLEAN /\ AllCovered /\ CurLayerExtracted
      BY <2>1 DEF ExtractionInv, ResultInv
    <3>2. AllCovered'
      BY <2>2, <3>1 DEF AllCovered, Needed, Achieved
    <3> QED
      BY <2>2, <3>1, <3>2 DEF ResultInv, OverallExtracted, CurLayerExtracted
  <2>9. ExtractedInv' /\ ExtractedCompatible'
    BY <2>1, <2>2 DEF ExtractionInv, ExtractedInv, ExtractedCompatible
  <2> QED
    BY <2>1, <2>2, <2>3, <2>5, <2>7, <2>8, <2>9 DEF ExtractionInv
<1>6. CASE ExpandAndRetry \/ GiveUp
  <2>1. /\ phase = "extracting" /\ phase' \in {"built", "unsolved"} /\ stack = <<>>
        /\ ret # NoReturn /\ ~OverallExtracted
        /\ UNCHANGED <<actions, goals, extractionVars, ret_action_layers>>
    BY <1>6 DEF ExpandAndRetry, GiveUp, Returned
  <2>2. ExtractionInv'
    <3>1. ret \in BOOLEAN \X BOOLEAN /\ ~ret[1]
      BY <2>1 DEF ExtractionInv, ResultInv, OverallExtracted
    <3> QED
      BY <2>1, <3>1, IdleKeeps DEF extractionVars
  <2>3. CASE ExpandAndRetry
    <3>0. create_graph_layer /\ ~LayersExceeded /\ phase' = "built"
      BY <2>3 DEF ExpandAndRetry, ExpandAfterFailure
    <3>1. GraphInv'
      BY <2>1, <3>0, GrowGraphInv DEF Phases
    <3>2. /\ layers' <= Len(actions') + 1
          /\ actions' = <<>> => goals' \subseteq state_layers'[0]
          /\ layers' > Len(actions') \/ goals' \subseteq state_layers'[layers' - 1]
      BY <1>0, <1>1, <2>1, <3>0 DEF SegmentInv
    <3> QED
      BY <2>1, <2>2, <3>0, <3>1, <3>2 DEF SegmentInv, OverallExtracted, extractionVars
  <2>4. CASE GiveUp
    <3>1. UNCHANGED <<actions, goals, graph>> /\ phase' = "unsolved"
      BY <2>4 DEF GiveUp
    <3>2. GraphInv'
      BY <3>1, SameGraphInv DEF Phases
    <3> QED
      BY <2>1, <2>2, <3>1, <3>2 DEF SegmentInv, OverallExtracted, extractionVars, graph
  <2> QED
    BY <1>6, <2>3, <2>4
<1> QED
  BY <1>2, <1>3, <1>4, <1>5, <1>6 DEF compute_planning_graph

(* init_state is never lost: layer 0 is not touched again.                 *)
LEMMA FirstLayerStays ==
  ASSUME GraphInv, compute_planning_graph
  PROVE  state_layers'[0] = state_layers[0]
<1>1. ASSUME create_graph_layer, actions' = actions
      PROVE  state_layers'[0] = state_layers[0]
  <2>1. 0 \in 0..layers - 1
    BY DEF GraphInv, TypeOK
  <2> QED
    BY <1>1, <2>1, GrowShape DEF GraphInv
<1> QED
  BY <1>1 DEF compute_planning_graph, BuildGraph, create_init_graph, ExpandToContain,
              LeaveContainLoop, ExpandToNonMutex, LeaveMutexLoop, Extract, ExtractStep, Solved,
              ExpandAndRetry, ExpandAfterFailure, GiveUp, gpVars, graph

(* Whatever else moves, a segment left alone stays as it is.               *)
LEMMA SameSegment ==
  ASSUME GraphInv, ExtractionInv, SegmentInv, UNCHANGED segVars
  PROVE  GraphInv' /\ ExtractionInv' /\ SegmentInv'
<1>1. UNCHANGED <<actions, goals, graph, phase, stack, ret, extraction_layers, ret_action_layers>>
  BY DEF segVars, gpVars, extractionVars
<1>2. UNCHANGED <<layers, state_layers, action_layers, action_mutex_layers>>
  BY <1>1 DEF graph
<1>3. GraphInv'
  BY <1>1, SameGraphInv DEF GraphInv, TypeOK
<1>4. SegmentInv'
  BY <1>1, <1>2 DEF SegmentInv, ActionLayersOf, OverallExtracted
<1>5. StackInv'
  <2>1. FrameType' = FrameType /\ Running' = Running /\ Returning' = Returning /\ top' = top
    BY <1>1, <1>2 DEF FrameType, Running, Returning, top
  <2>2. ASSUME NEW i \in 1..Len(stack)
        PROVE  FrameOK(stack[i], Before(i))'
    <3>1. FrameOK(stack[i], Before(i))
      BY DEF ExtractionInv, StackInv
    <3> QED
      BY <1>1, <1>2, <3>1 DEF FrameOK, Before, Chosen, Needed, Counts, EffectsOf
  <2> QED
    BY <1>1, <2>1, <2>2 DEF ExtractionInv, StackInv
<1>6. LiveInv' /\ ResultInv'
  <2>1. LiveInv'
    <3>1. /\ Running' = Running /\ Returning' = Returning /\ top' = top
          /\ CurLayerExtracted' = CurLayerExtracted
      BY <1>1 DEF Running, Returning, top, CurLayerExtracted
    <3>2. Chosen(Len(stack), top.layer)' = Chosen(Len(stack), top.layer)
      BY <1>1 DEF Chosen, top
    <3>3. \A k : Needed(k)' = Needed(k) /\ Achieved(k)' = Achieved(k)
      BY <1>1, <1>2 DEF Needed, Achieved
    <3> QED
      BY <1>1, <1>2, <3>1, <3>2, <3>3 DEF ExtractionInv, LiveInv
  <2>2. ResultInv'
    BY <1>1, <1>2 DEF ExtractionInv, ResultInv, AllCovered, Needed, Achieved, OverallExtracted,
                      CurLayerExtracted
  <2> QED
    BY <2>1, <2>2
<1>7. ExtractedInv' /\ ExtractedCompatible'
  BY <1>1, <1>2 DEF ExtractionInv, ExtractedInv, ExtractedCompatible
<1> QED
  BY <1>1, <1>3, <1>4, <1>5, <1>6, <1>7 DEF ExtractionInv

(* The invariant gives what is said of a running activation and of the     *)
(* actions extracted.                                                      *)
LEMMA ExtractionInvGives ==
  ASSUME GraphInv, ExtractionInv
  PROVE  ExtractionConsistent
<1>1. ASSUME Running PROVE CountsMatch /\ GoalsCovered
  <2>0. phase = "extracting"
    BY <1>1 DEF ExtractionInv, Running
  <2>1. PICK before, k : before = Before(Len(stack)) /\ k = top.layer
    OBVIOUS
  <2>2. /\ FrameOK(top, before) /\ extraction_layers[k] = before
        /\ \A l \in k + 1..layers - 1 : Needed(l) \subseteq Achieved(l)
        /\ top.mode # "same"
    BY <1>1, <2>0, <2>1, RunningFacts
  <2>3. /\ Counts(top.cnt, before)
        /\ Needed(k) \ top.remained_goals \subseteq EffectsOf(before)
    BY <2>1, <2>2 DEF FrameOK
  <2>4. CountsMatch
    BY <2>1, <2>2, <2>3 DEF CountsMatch, Counts
  <2>5. GoalsCovered
    BY <2>1, <2>2, <2>3 DEF GoalsCovered, Achieved, EffectsOf
  <2> QED
    BY <2>4, <2>5
<1>2. CountsMatch /\ GoalsCovered
  BY <1>1 DEF CountsMatch, GoalsCovered
<1> QED
  BY <1>2 DEF ExtractionConsistent, ExtractionInv

------------------------------------------------------------------------------
(***************************************************************************)
(* The layers, performed.                                                  *)
(***************************************************************************)
USE DomainAssumption, EffectsAssumption

(* Applying an action brings its effects about.                            *)
LEMMA AppliedHolds ==
  ASSUME NEW before, NEW a \in ActionNames, NEW f \in Eff[a]
  PROVE  Holds(f, apply_actuation_action(before, a))
<1>1. f \in Literal /\ Consistent(Eff[a])
  <2>1. Eff[a] \in SUBSET Literal
    OBVIOUS
  <2> QED
    BY <2>1
<1>2. PICK x \in Atoms, sign \in {"+", "-"} : f = <<x, sign>>
  BY <1>1 DEF Literal
<1>3. CASE sign = "+"
  BY <1>2, <1>3 DEF Holds, apply_actuation_action, Positive
<1>4. CASE sign = "-"
  <2>1. <<x, "+">> \notin Eff[a]
    BY <1>1, <1>2, <1>4 DEF Consistent, negated_facts
  <2> QED
    BY <1>2, <1>4, <2>1 DEF Holds, apply_actuation_action
<1> QED
  BY <1>3, <1>4

(* And it leaves alone what none of its effects negates.                   *)
LEMMA AppliedKeeps ==
  ASSUME NEW before, NEW a \in ActionNames, NEW f \in Literal, Holds(f, before),
         \A g \in Eff[a] : ~negated_facts(f, g)
  PROVE  Holds(f, apply_actuation_action(before, a))
<1>1. PICK x \in Atoms, sign \in {"+", "-"} : f = <<x, sign>>
  BY DEF Literal
<1>2. CASE sign = "+"
  <2>1. <<x, "-">> \notin Eff[a]
    BY <1>1, <1>2 DEF negated_facts
  <2> QED
    BY <1>1, <1>2, <2>1 DEF Holds, apply_actuation_action
<1>3. CASE sign = "-"
  <2>1. <<x, "+">> \notin Eff[a] /\ <<x, "+">> \notin before
    BY <1>1, <1>3 DEF negated_facts, Holds
  <2> QED
    BY <1>1, <1>3, <2>1 DEF Holds, apply_actuation_action
<1> QED
  BY <1>2, <1>3

(* A state of the world stays a set of positive facts.                     *)
LEMMA AppliedType ==
  ASSUME NEW before \in SUBSET Positive, NEW a
  PROVE  apply_actuation_action(before, a) \subseteq Positive
  BY DEF apply_actuation_action
------------------------------------------------------------------------------
(* What the layers of a solved segment are: compatible actions of the      *)
(* segment that bring about what the layer above them needs.               *)
LEMMA SolvedFacts ==
  ASSUME GraphInv, ExtractionInv, SegmentInv, phase = "solved"
  PROVE  /\ layers \in Nat \ {0} /\ Len(ret_action_layers) = layers - 1
         /\ ret_action_layers \in Seq(SUBSET ActionNames)
         /\ AllCovered /\ ExtractedCompatible
         /\ \A k \in 1..layers - 1 : \A a \in ret_action_layers[k] :
              Act(a) \in extraction_layers[k] /\ a \in ActionNames /\ a \in Range(actions)
         /\ \A k \in 1..layers - 1 : \A n \in extraction_layers[k] :
              ~IsNoop(n) => n = Act(n[2]) /\ n[2] \in ret_action_layers[k]
<1>1. layers \in Nat \ {0} /\ layers - 1 \in Nat
  BY DEF GraphInv, TypeOK
<1>2. AllCovered /\ ExtractedCompatible
  BY DEF SegmentInv, ExtractionInv, ResultInv
<1>3. ASSUME NEW k \in 1..layers - 1, NEW n \in extraction_layers[k], ~IsNoop(n)
      PROVE  n = Act(n[2]) /\ n[2] \in ActionNames /\ n[2] \in Range(actions)
  <2>1. n \in action_layers[k]
    BY <1>2 DEF ExtractedCompatible
  <2> QED
    BY <1>3, <2>1, NodeFacts
<1>4. PICK returned : returned = [k \in 1..layers - 1 |->
                                    {n[2] : n \in {m \in extraction_layers[k] : ~IsNoop(m)}}]
  OBVIOUS
<1>5. ret_action_layers = returned
  BY <1>4 DEF SegmentInv, ActionLayersOf
<1>6. \A k \in 1..layers - 1 : returned[k] \in SUBSET ActionNames
  BY <1>3, <1>4
<1>7. returned \in [1..layers - 1 -> SUBSET ActionNames]
  BY <1>4, <1>6
<1>8. returned \in Seq(SUBSET ActionNames) /\ Len(returned) = layers - 1
  BY <1>1, <1>7
<1>9. ASSUME NEW k \in 1..layers - 1, NEW a \in returned[k]
      PROVE  Act(a) \in extraction_layers[k] /\ a \in ActionNames /\ a \in Range(actions)
  <2>1. PICK n \in extraction_layers[k] : ~IsNoop(n) /\ a = n[2]
    BY <1>4
  <2> QED
    BY <1>3, <2>1
<1>10. \A k \in 1..layers - 1 : \A n \in extraction_layers[k] :
         ~IsNoop(n) => n = Act(n[2]) /\ n[2] \in returned[k]
  BY <1>3, <1>4
<1> QED
  BY <1>1, <1>2, <1>5, <1>8, <1>9, <1>10

(* What the first layer, or else the goal state, needs is in init_state.   *)
LEMMA FirstNeeds ==
  ASSUME GraphInv, ExtractionInv, SegmentInv, phase = "solved"
  PROVE  Needed(0) \subseteq state_layers[0]
<1>1. layers \in Nat \ {0} /\ actions \in Seq(ActionNames)
  BY DEF GraphInv, TypeOK
<1>2. CASE layers = 1
  <2>1. goals \subseteq state_layers[0]
    BY <1>1, <1>2 DEF SegmentInv
  <2> QED
    BY <1>2, <2>1 DEF Needed
<1>3. CASE layers # 1
  <2>1. 1 \in 1..layers - 1 /\ 0 # layers - 1 /\ 1 - 1 = 0
    BY <1>1, <1>3
  <2>2. \A n \in extraction_layers[1] : n \in action_layers[1]
    BY <2>1, SolvedFacts DEF ExtractedCompatible
  <2>3. \A n \in extraction_layers[1] : precond_facts(n) \subseteq state_layers[0]
    BY <2>1, <2>2, NodeFacts
  <2> QED
    BY <2>1, <2>3 DEF Needed
<1> QED
  BY <1>2, <1>3

(* When a layer has been performed, all that the next one needs holds.     *)
LEMMA LayerDone ==
  ASSUME GraphInv, ExtractionInv, SegmentInv, ExecutionInv, phase = "solved",
         pending = {}, slot < layers
  PROVE  \A f \in Needed(slot) : Holds(f, preds)
<1>1. layers \in Nat \ {0} /\ Len(actions) \in Nat /\ slot \in 0..layers - 1
  BY DEF GraphInv, TypeOK, ExecutionInv
<1>2. CASE slot = 0
  <2>1. preds = state_layers[0] /\ preds \subseteq Positive
    BY <1>2 DEF ExecutionInv
  <2>2. Needed(0) \subseteq preds
    BY <2>1, FirstNeeds
  <2>3. \A f \in preds : Holds(f, preds)
    BY <2>1 DEF Positive, Holds
  <2> QED
    BY <1>2, <2>2, <2>3
<1>3. CASE slot \in 1..layers - 1
  <2>1. Needed(slot) \subseteq Achieved(slot)
    BY <1>3, SolvedFacts DEF AllCovered
  <2>2. \A n \in extraction_layers[slot] : \A f \in effect_facts(n) : Holds(f, preds)
    BY <1>3 DEF ExecutionInv, Upheld
  <2> QED
    BY <2>1, <2>2 DEF Achieved
<1> QED
  BY <1>1, <1>2, <1>3

(* An action of the current layer is applicable whatever others of its     *)
(* layer were performed before it, and leaves to the other nodes of the    *)
(* layer what they stand for.                                              *)
LEMMA PerformKeeps ==
  ASSUME GraphInv, ExtractionInv, SegmentInv, ExecutionInv, NEW a \in pending,
         preds' = apply_actuation_action(preds, a), pending' = pending \ {a},
         UNCHANGED <<segVars, slot>>
  PROVE  /\ phase = "solved" /\ slot \in 1..layers - 1
         /\ a \in Range(actions) /\ Enabled(a, preds) /\ ExecutionInv'
<1>1. /\ layers \in Nat \ {0} /\ slot \in 1..layers - 1 /\ phase = "solved"
  <2>1. layers \in Nat \ {0}
    BY DEF GraphInv, TypeOK
  <2> QED
    BY <2>1 DEF ExecutionInv
<1>2. /\ a \in ret_action_layers[slot] /\ pending \subseteq ret_action_layers[slot]
      /\ \A n \in extraction_layers[slot] : \A f \in Upheld(n) : Holds(f, preds)
  BY <1>1 DEF ExecutionInv
<1>3. /\ Act(a) \in extraction_layers[slot] /\ a \in ActionNames /\ a \in Range(actions)
      /\ \A n \in extraction_layers[slot] : ~IsNoop(n) => n = Act(n[2])
      /\ \A n \in extraction_layers[slot] : n \in action_layers[slot]
      /\ \A m, n \in extraction_layers[slot] : <<m, n>> \notin action_mutex_layers[slot]
  BY <1>1, <1>2, SolvedFacts DEF ExtractedCompatible
<1>4. /\ ~IsNoop(Act(a)) /\ Act(a)[2] = a
      /\ precond_facts(Act(a)) = Pre[a] /\ effect_facts(Act(a)) = Eff[a]
  BY DEF IsNoop, Act, precond_facts, effect_facts
<1>5. Enabled(a, preds)
  BY <1>2, <1>3, <1>4 DEF Enabled, Upheld
<1>6. preds' \subseteq Positive
  <2>1. preds \subseteq Positive
    BY DEF ExecutionInv
  <2> QED
    BY <2>1, AppliedType
<1>7. ASSUME NEW n \in extraction_layers[slot], NEW f \in Upheld(n)'
      PROVE  Holds(f, preds')
  <2>1. CASE n = Act(a)
    <3>1. f \in Eff[a]
      BY <1>4, <2>1 DEF Upheld, IsNoop, precond_facts, effect_facts
    <3> QED
      BY <1>3, <3>1, AppliedHolds
  <2>2. CASE n # Act(a)
    <3>1. n \in action_layers[slot] /\ Act(a) \in action_layers[slot]
          /\ <<n, Act(a)>> \notin action_mutex_layers[slot]
      BY <1>3
    <3>2. /\ ~InconsistentEffects(n, Act(a)) /\ ~Interference(n, Act(a))
          /\ precond_facts(n) \subseteq Literal /\ effect_facts(n) \subseteq Literal
      BY <1>1, <2>2, <3>1, NotMutexFacts, NodeFacts
    <3>3. f \in Upheld(n)
      BY <1>3, <2>2 DEF Upheld, IsNoop, precond_facts, effect_facts
    <3>4. f \in Literal /\ Holds(f, preds) /\ f \in precond_facts(n) \union effect_facts(n)
      BY <1>2, <3>2, <3>3 DEF Upheld
    <3>5. \A g \in Eff[a] : ~negated_facts(f, g)
      BY <1>4, <3>2, <3>4 DEF InconsistentEffects, Interference
    <3> QED
      BY <1>3, <3>4, <3>5, AppliedKeeps
  <2> QED
    BY <2>1, <2>2
<1>8. ExecutionInv'
  <2>1. UNCHANGED <<layers, phase, state_layers, extraction_layers, ret_action_layers, slot>>
    BY DEF segVars, gpVars, graph, extractionVars
  <2> QED
    BY <1>1, <1>2, <1>6, <1>7, <2>1 DEF ExecutionInv
<1> QED
  BY <1>1, <1>3, <1>5, <1>8

(* Starting the next layer, or leaving the last one.                       *)
LEMMA NextLayerKeeps ==
  ASSUME GraphInv, ExtractionInv, SegmentInv, ExecutionInv, NextLayer
  PROVE  ExecutionInv'
<1>1. /\ phase = "solved" /\ ~Finished /\ pending = {} /\ slot' = slot + 1
      /\ pending' = IF slot < Len(ret_action_layers) THEN ret_action_layers[slot + 1] ELSE {}
      /\ UNCHANGED <<segVars, preds>>
  BY DEF NextLayer
<1>2. UNCHANGED <<layers, phase, state_layers, extraction_layers, ret_action_layers, preds>>
  BY <1>1 DEF segVars, gpVars, graph, extractionVars
<1>3. layers \in Nat \ {0} /\ Len(ret_action_layers) = layers - 1 /\ slot \in 0..layers - 1
  <2>1. layers \in Nat \ {0} /\ Len(ret_action_layers) = layers - 1
    BY <1>1, SolvedFacts
  <2> QED
    BY <1>1, <2>1 DEF Finished, ExecutionInv
<1>4. CASE slot = layers - 1
  BY <1>1, <1>2, <1>3, <1>4 DEF ExecutionInv
<1>5. CASE slot # layers - 1
  <2>1. PICK k \in 1..layers - 1 : k = slot + 1 /\ slot = k - 1 /\ slot # layers - 1
    BY <1>3, <1>5
  <2>2. slot' = k /\ pending' = ret_action_layers[k]
    BY <1>1, <1>3, <2>1
  <2>3. \A f \in Needed(slot) : Holds(f, preds)
    BY <1>1, <1>3, LayerDone
  <2>4. ASSUME NEW n \in extraction_layers[k] PROVE precond_facts(n) \subseteq Needed(slot)
    BY <2>1 DEF Needed
  <2>5. ASSUME NEW n \in extraction_layers[k], NEW f \in Upheld(n)'
        PROVE  f \in precond_facts(n)
    <3>1. CASE IsNoop(n)
      BY <3>1 DEF Upheld, precond_facts, effect_facts, IsNoop
    <3>2. CASE ~IsNoop(n)
      <4>1. n[2] \in ret_action_layers[k]
        BY <1>1, <3>2, SolvedFacts
      <4> QED
        BY <2>2, <3>2, <4>1 DEF Upheld, precond_facts, IsNoop
    <3> QED
      BY <3>1, <3>2
  <2>6. \A n \in extraction_layers[k] : \A f \in Upheld(n)' : Holds(f, preds)
    BY <2>3, <2>4, <2>5
  <2>7. preds \subseteq Positive
    BY DEF ExecutionInv
  <2> QED
    BY <1>1, <1>2, <1>3, <2>1, <2>2, <2>6, <2>7 DEF ExecutionInv
<1> QED
  BY <1>4, <1>5
------------------------------------------------------------------------------
(* The inductive invariant of the whole: the graph, the recursion that     *)
(* reads it, and the execution of what it returned.                        *)
Inv == GraphInv /\ ExtractionInv /\ SegmentInv /\ ExecutionInv

(* The call starts, and the execution waits for it.                        *)
LEMMA InitInv ==
  ASSUME Init
  PROVE  Inv
<1>1. GraphInv /\ ExtractionInv /\ SegmentInv
  BY SegmentInitInv DEF Init
<1>2. phase = "contain" /\ layers = 1
  BY <1>1, SeedGraphInv DEF Init, SegmentInit
<1>3. preds \subseteq Positive /\ preds = state_layers[0]
  BY <1>1 DEF Init, GraphInv, GraphShape
<1>4. ExecutionInv
  BY <1>2, <1>3 DEF Init, ExecutionInv
<1> QED
  BY <1>1, <1>4 DEF Inv

(* Planning and executing keep the invariant.                              *)
LEMMA NextInv ==
  ASSUME Inv, [Next]_vars
  PROVE  Inv'
<1>1. GraphInv /\ ExtractionInv /\ SegmentInv /\ ExecutionInv
  BY DEF Inv
<1>2. CASE Plan
  <2>1. GraphInv' /\ ExtractionInv' /\ SegmentInv'
    BY <1>1, <1>2, PlanKeeps DEF Plan
  <2>2. phase # "solved" /\ slot = 0 /\ pending = {} /\ preds = state_layers[0]
    <3>1. phase # "solved"
      BY <1>2 DEF Plan, compute_planning_graph, BuildGraph, create_init_graph, ExpandToContain,
                  LeaveContainLoop, ExpandToNonMutex, LeaveMutexLoop, Extract, ExtractStep, Solved,
                  ExpandAndRetry, GiveUp
    <3> QED
      BY <1>1, <3>1 DEF ExecutionInv
  <2>3. state_layers'[0] = state_layers[0]
    BY <1>1, <1>2, FirstLayerStays DEF Plan
  <2>4. layers' \in Nat \ {0}
    BY <2>1 DEF GraphInv, TypeOK
  <2>5. UNCHANGED <<slot, pending, preds>> /\ preds \subseteq Positive
    BY <1>1, <1>2 DEF Plan, execVars, ExecutionInv
  <2>6. ExecutionInv'
    BY <2>2, <2>3, <2>4, <2>5 DEF ExecutionInv
  <2> QED
    BY <2>1, <2>6 DEF Inv
<1>3. CASE UNCHANGED segVars
  <2>1. GraphInv' /\ ExtractionInv' /\ SegmentInv'
    BY <1>1, <1>3, SameSegment
  <2>2. CASE NextLayer
    BY <1>1, <2>1, <2>2, NextLayerKeeps DEF Inv
  <2>3. CASE PerformAction
    BY <1>1, <2>1, <2>3, PerformKeeps DEF Inv, PerformAction
  <2>4. CASE UNCHANGED vars
    <3>1. UNCHANGED <<layers, phase, state_layers, extraction_layers, ret_action_layers, slot, pending,
                      preds>>
      BY <2>4 DEF vars, segVars, gpVars, graph, extractionVars, execVars
    <3>2. ExecutionInv'
      BY <1>1, <3>1 DEF ExecutionInv, Upheld
    <3> QED
      BY <2>1, <3>2 DEF Inv
  <2>5. CASE Plan
    BY <1>2, <2>5
  <2> QED
    BY <2>2, <2>3, <2>4, <2>5 DEF Next
<1> QED
  BY <1>2, <1>3 DEF Next, NextLayer, PerformAction, vars

(* The variables of the graph, of its layers and of the sequential plan    *)
(* keep their types, whatever the domain.                                  *)
THEOREM PlanTypeCorrect == Spec => []TypeOK
<1>1. Inv => TypeOK
  BY DEF Inv, GraphInv
<1> QED
  BY <1>1, InitInv, NextInv, PTL DEF Spec

(* Whenever extract_backward_from_layer runs, at any depth and after any   *)
(* number of undone choices, its counts, its remaining goals and the       *)
(* actions extracted so far agree.                                         *)
THEOREM ExtractionIsConsistent == Spec => []ExtractionConsistent
<1>1. Inv => ExtractionConsistent
  BY ExtractionInvGives DEF Inv
<1> QED
  BY <1>1, InitInv, NextInv, PTL DEF Spec

(* compute_planning_graph returns no more layers than the segment has      *)
(* actions: "graph layers leq actions size".                               *)
THEOREM NeverLongerThanSequential == Spec => []NoLongerThanSequential
<1>1. Inv => NoLongerThanSequential
  <2> SUFFICES ASSUME Inv, phase = "solved" PROVE Len(ret_action_layers) <= Len(actions)
    BY DEF NoLongerThanSequential
  <2>1. Len(ret_action_layers) = layers - 1 /\ layers \in Nat
    BY SolvedFacts DEF Inv
  <2>2. layers <= Len(actions) + 1 /\ Len(actions) \in Nat
    BY DEF Inv, SegmentInv, GraphInv, TypeOK
  <2> QED
    BY <2>1, <2>2
<1> QED
  BY <1>1, InitInv, NextInv, PTL DEF Spec

(* Planning and performing one action are steps of the executive, or none  *)
(* of its concern.                                                         *)
LEMMA StepRefines ==
  ASSUME Inv, Inv', [Next]_vars
  PROVE  [Executive!Next]_Executive!vars
<1>1. GraphInv /\ ExtractionInv /\ SegmentInv /\ ExecutionInv
  BY DEF Inv
<1>2. CASE Plan
  <2>1. compute_planning_graph /\ UNCHANGED <<preds, slot, pending>>
    BY <1>2 DEF Plan, execVars
  <2>2. CASE Solved
    <3>1. /\ phase = "extracting" /\ phase' = "solved" /\ UNCHANGED <<actions, goals>>
      BY <2>2 DEF Solved
    <3>2. slot' = 0 /\ Len(ret_action_layers') \in Nat
      <4>1. slot = 0
        BY <1>1, <3>1 DEF ExecutionInv
      <4>2. layers - 1 \in Nat
        BY <1>1 DEF GraphInv, TypeOK
      <4>3. PICK S : S = {{n[2] : n \in {m \in extraction_layers[k] : ~IsNoop(m)}} : k \in 1..layers - 1}
        OBVIOUS
      <4>4. ret_action_layers' \in [1..layers - 1 -> S]
        BY <2>2, <4>3 DEF Solved, ActionLayersOf
      <4> QED
        BY <2>1, <4>1, <4>2, <4>4
    <3>3. Outcome = "idle" /\ Outcome' = "acting"
      BY <3>1, <3>2 DEF Outcome, Finished
    <3> QED
      BY <2>1, <3>1, <3>3 DEF Executive!Next, Executive!Commit
  <2>3. CASE GiveUp
    <3>1. phase = "extracting" /\ phase' = "unsolved" /\ UNCHANGED <<actions, goals>>
      BY <2>3 DEF GiveUp
    <3>2. Outcome = "idle" /\ Outcome' = "abandoned"
      BY <3>1 DEF Outcome, Finished
    <3> QED
      BY <2>1, <3>1, <3>2 DEF Executive!Next, Executive!Abandon
  <2>4. CASE BuildGraph \/ Extract \/ ExtractStep \/ ExpandAndRetry
    <3>1. /\ phase \notin {"solved", "unsolved"} /\ phase' \notin {"solved", "unsolved"}
          /\ UNCHANGED <<actions, goals>>
      BY <2>4 DEF BuildGraph, create_init_graph, ExpandToContain, LeaveContainLoop, ExpandToNonMutex,
                  LeaveMutexLoop, Extract, ExtractStep, ExpandAndRetry, gpVars
    <3>2. Outcome = "idle" /\ Outcome' = "idle"
      BY <3>1 DEF Outcome, Finished
    <3> QED
      BY <2>1, <3>1, <3>2 DEF Executive!vars
  <2> QED
    BY <2>1, <2>2, <2>3, <2>4 DEF compute_planning_graph
<1>3. CASE NextLayer
  <2>1. /\ phase = "solved" /\ ~Finished /\ pending = {} /\ slot' = slot + 1
        /\ UNCHANGED <<phase, actions, goals, ret_action_layers, preds>>
    BY <1>3 DEF NextLayer, segVars, gpVars
  <2>2. layers \in Nat \ {0} /\ Len(ret_action_layers) = layers - 1 /\ slot \in 0..layers - 1
    <3>1. layers \in Nat \ {0} /\ Len(ret_action_layers) = layers - 1
      BY <1>1, <2>1, SolvedFacts
    <3> QED
      BY <1>1, <2>1, <3>1 DEF Finished, ExecutionInv
  <2>3. Outcome = "acting"
    BY <2>1 DEF Outcome
  <2>4. CASE slot = layers - 1
    <3>1. Outcome' = "reached"
      BY <2>1, <2>2, <2>4 DEF Outcome, Finished
    <3>2. \A f \in goals : Holds(f, preds)
      BY <1>1, <2>1, <2>2, <2>4, LayerDone DEF Needed
    <3>3. goals \subseteq preds
      <4>1. goals \subseteq Positive
        BY <1>1 DEF GraphInv, TypeOK
      <4> QED
        BY <3>2, <4>1 DEF Holds, Positive
    <3> QED
      BY <2>1, <2>3, <3>1, <3>3 DEF Executive!Next, Executive!Succeed
  <2>5. CASE slot # layers - 1
    <3>1. Outcome' = "acting"
      BY <2>1, <2>2, <2>5 DEF Outcome, Finished
    <3> QED
      BY <2>1, <2>3, <3>1 DEF Executive!vars
  <2> QED
    BY <2>4, <2>5
<1>4. CASE PerformAction
  <2>1. PICK a \in pending : /\ preds' = apply_actuation_action(preds, a)
                             /\ pending' = pending \ {a}
                             /\ UNCHANGED <<segVars, slot>>
    BY <1>4 DEF PerformAction
  <2>2. /\ phase = "solved" /\ slot \in 1..layers - 1
        /\ a \in Range(actions) /\ Enabled(a, preds)
    BY <1>1, <2>1, PerformKeeps
  <2>3. UNCHANGED <<phase, actions, goals, ret_action_layers, slot>>
    BY <2>1 DEF segVars, gpVars
  <2>4. Len(ret_action_layers) = layers - 1 /\ layers \in Nat
    BY <1>1, <2>2, SolvedFacts
  <2>5. Outcome = "acting" /\ Outcome' = "acting"
    BY <2>2, <2>3, <2>4 DEF Outcome, Finished
  <2>6. Executive!Perform(a)
    BY <2>1, <2>2, <2>3, <2>5
       DEF Executive!Perform, Executive!Enabled, Executive!Holds, Executive!apply_actuation_action,
           Executive!Positive, Enabled, Holds, apply_actuation_action, Positive
  <2>7. Executive!Range(actions) = Range(actions)
    BY DEF Executive!Range, Range
  <2> QED
    BY <2>2, <2>6, <2>7 DEF Executive!Next
<1>5. CASE UNCHANGED vars
  <2>1. UNCHANGED <<phase, actions, goals, ret_action_layers, slot, preds>>
    BY <1>5 DEF vars, segVars, gpVars, execVars
  <2> QED
    BY <2>1 DEF Executive!vars, Outcome, Finished
<1> QED
  BY <1>2, <1>3, <1>4, <1>5 DEF Next

(* The layers refine the executive: however the actions of a layer are     *)
(* ordered, each is applicable when it is performed, and when the last     *)
(* layer is done every predicate of the goal state holds.                  *)
THEOREM LayersRefineExecutive == Spec => RefinesExecutive
<1>1. Init => Executive!Init
  <2> SUFFICES ASSUME Init PROVE Outcome = "idle"
    BY DEF Executive!Init
  <2>1. phase = "contain"
    BY SeedGraphInv DEF Init, SegmentInit
  <2> QED
    BY <2>1 DEF Outcome, Finished
<1>2. Inv /\ Inv' /\ [Next]_vars => [Executive!Next]_Executive!vars
  BY StepRefines
<1> QED
  BY <1>1, <1>2, InitInv, NextInv, PTL DEF Spec, RefinesExecutive, Executive!Spec
------------------------------------------------------------------------------
(* A layer of pairwise non-mutex nodes whose needs hold is one the         *)
(* contract allows, and performing it brings about what its nodes do.      *)
LEMMA LayerPerformed ==
  ASSUME GraphInv, ExtractionInv, SegmentInv, phase = "solved",
         NEW k \in 1..layers - 1, NEW before \in SUBSET Positive,
         \A f \in Needed(k - 1) : Holds(f, before)
  PROVE  /\ ret_action_layers[k] \in Startable(ActionNames, before)
         /\ PerformLayer(before, ret_action_layers[k]) \subseteq Positive
         /\ \A f \in Needed(k) : Holds(f, PerformLayer(before, ret_action_layers[k]))
<1>1. PICK layer, nodes : layer = ret_action_layers[k] /\ nodes = extraction_layers[k]
  OBVIOUS
<1>2. /\ \A a \in layer : Act(a) \in nodes /\ a \in ActionNames
      /\ \A n \in nodes : ~IsNoop(n) => n = Act(n[2]) /\ n[2] \in layer
      /\ Needed(k) \subseteq Achieved(k)
      /\ \A n \in nodes : n \in action_layers[k]
      /\ \A m, n \in nodes : <<m, n>> \notin action_mutex_layers[k]
  BY <1>1, SolvedFacts DEF ExtractedCompatible, AllCovered
<1>3. \A a : /\ ~IsNoop(Act(a)) /\ Act(a)[2] = a
             /\ precond_facts(Act(a)) = Pre[a] /\ effect_facts(Act(a)) = Eff[a]
  BY DEF IsNoop, Act, precond_facts, effect_facts
<1>4. ASSUME NEW n \in nodes
      PROVE  /\ \A f \in precond_facts(n) : Holds(f, before)
             /\ precond_facts(n) \subseteq Literal /\ effect_facts(n) \subseteq Literal
  <2>1. k - 1 # layers - 1 /\ (k - 1) + 1 = k
    BY DEF GraphInv, TypeOK
  <2>2. precond_facts(n) \subseteq Needed(k - 1)
    BY <1>1, <2>1 DEF Needed
  <2> QED
    BY <1>2, <2>2, NodeFacts
<1>5. ASSUME NEW n \in nodes, NEW a \in layer, n # Act(a)
      PROVE  /\ \A f \in effect_facts(n), g \in Eff[a] : ~negated_facts(f, g)
             /\ \A f \in precond_facts(n), g \in Eff[a] : ~negated_facts(f, g)
  <2>1. ~InconsistentEffects(n, Act(a)) /\ ~Interference(n, Act(a))
    BY <1>2, <1>5, NotMutexFacts
  <2> QED
    BY <1>3, <2>1 DEF InconsistentEffects, Interference
<1>6. layer \in Startable(ActionNames, before)
  <2>1. layer \in SUBSET ActionNames
    BY <1>2
  <2>2. \A a \in layer : Enabled(a, before)
    BY <1>2, <1>3, <1>4 DEF Enabled
  <2>3. ASSUME NEW a \in layer, NEW b \in layer, a # b, NEW f \in Eff[a], NEW g \in Pre[b] \union Eff[b]
        PROVE  ~negated_facts(f, g)
    <3>1. Act(b) # Act(a) /\ Act(b) \in nodes
      BY <1>2, <1>3, <2>3
    <3>2. ~negated_facts(g, f)
      BY <1>3, <1>5, <2>3, <3>1
    <3> QED
      BY <3>2 DEF negated_facts
  <2> QED
    BY <2>1, <2>2, <2>3 DEF Startable, Compatible
<1>7. PerformLayer(before, layer) \subseteq Positive
  BY PerformedIs
<1>8. ASSUME NEW n \in nodes, NEW f \in effect_facts(n)
      PROVE  Holds(f, PerformLayer(before, layer))
  <2>1. PICK x \in Atoms, sign \in {"+", "-"} : f = <<x, sign>>
    BY <1>4 DEF Literal
  <2>2. ASSUME NEW a \in layer PROVE \A g \in Eff[a] : ~negated_facts(f, g)
    <3>1. CASE n = Act(a)
      BY <1>2, <1>3, <3>1 DEF Consistent
    <3>2. CASE n # Act(a)
      BY <1>5, <3>2
    <3> QED
      BY <3>1, <3>2
  <2>3. Holds(f, before) \/ \E a \in layer : f \in Eff[a]
    <3>1. CASE IsNoop(n)
      <4>1. effect_facts(n) = precond_facts(n)
        BY <3>1 DEF effect_facts, precond_facts
      <4> QED
        BY <1>4, <4>1
    <3>2. CASE ~IsNoop(n)
      BY <1>2, <1>3, <3>2
    <3> QED
      BY <3>1, <3>2
  <2>4. CASE sign = "+"
    <3>1. \A a \in layer : <<x, "-">> \notin Eff[a]
      BY <2>1, <2>2, <2>4 DEF negated_facts
    <3> QED
      BY <2>1, <2>3, <2>4, <3>1, PerformedIs DEF Holds, Positive
  <2>5. CASE sign = "-"
    <3>1. \A a \in layer : <<x, "+">> \notin Eff[a]
      BY <2>1, <2>2, <2>5 DEF negated_facts
    <3> QED
      BY <2>1, <2>3, <2>5, <3>1, PerformedIs DEF Holds
  <2> QED
    BY <2>4, <2>5
<1>9. \A f \in Needed(k) : Holds(f, PerformLayer(before, layer))
  BY <1>1, <1>2, <1>8 DEF Achieved
<1> QED
  BY <1>1, <1>6, <1>7, <1>9

(* What compute_planning_graph returns is a valid layered plan: each layer *)
(* may start where the layers before it lead, its actions do not           *)
(* interfere, and the goal state is reached.  The argument is an induction *)
(* over the layers returned.                                               *)
THEOREM ContractIsKept == Spec => []ContractKept
<1>1. Inv => ContractKept
  <2> SUFFICES ASSUME Inv, phase = "solved"
               PROVE  ValidLayers(state_layers[0], goals, ret_action_layers)
    BY DEF ContractKept
  <2>1. GraphInv /\ ExtractionInv /\ SegmentInv
    BY DEF Inv
  <2>2. layers \in Nat \ {0} /\ Len(ret_action_layers) = layers - 1 /\ layers - 1 \in Nat
    BY <2>1, SolvedFacts
  <2>3. PICK after : after = StatesAlong(state_layers[0], ret_action_layers)
    OBVIOUS
  <2>4. /\ after[0] = state_layers[0]
        /\ \A k \in 1..layers - 1 : after[k] = PerformLayer(after[k - 1], ret_action_layers[k])
    BY <2>2, <2>3, StatesAlongIs
  <2> DEFINE T == {k \in Nat : k < layers => /\ after[k] \subseteq Positive
                                             /\ \A f \in Needed(k) : Holds(f, after[k])}
  <2>5. 0 \in T
    <3>1. state_layers[0] \subseteq Positive
      BY <2>1 DEF GraphInv, GraphShape
    <3>2. Needed(0) \subseteq state_layers[0]
      BY <2>1, FirstNeeds
    <3> QED
      BY <2>4, <3>1, <3>2 DEF Holds, Positive
  <2>6. ASSUME NEW k \in Nat, k \in T
        PROVE  k + 1 \in T
    <3> SUFFICES ASSUME k + 1 < layers
                 PROVE  /\ after[k + 1] \subseteq Positive
                        /\ \A f \in Needed(k + 1) : Holds(f, after[k + 1])
      OBVIOUS
    <3>1. PICK l \in 1..layers - 1 : l = k + 1 /\ l - 1 = k
      BY <2>2
    <3>2. after[k] \in SUBSET Positive /\ \A f \in Needed(l - 1) : Holds(f, after[k])
      BY <2>2, <2>6, <3>1
    <3>3. after[l] = PerformLayer(after[k], ret_action_layers[l])
      BY <2>4, <3>1
    <3> QED
      BY <2>1, <3>1, <3>2, <3>3, LayerPerformed
  <2> HIDE DEF T
  <2>7. Nat \subseteq T
    BY <2>5, <2>6, NatSetInduction
  <2>8. \A k \in 0..layers - 1 : /\ after[k] \subseteq Positive
                                /\ \A f \in Needed(k) : Holds(f, after[k])
    BY <2>2, <2>7 DEF T
  <2>9. ASSUME NEW k \in 1..layers - 1
        PROVE  ret_action_layers[k] \in Startable(ActionNames, after[k - 1])
    <3>1. PICK before \in SUBSET Positive : before = after[k - 1] /\ \A f \in Needed(k - 1) : Holds(f, before)
      BY <2>2, <2>8
    <3> QED
      BY <2>1, <3>1, LayerPerformed
  <2>10. goals \subseteq after[layers - 1]
    <3>1. Needed(layers - 1) = goals /\ goals \subseteq Positive
      BY <2>1 DEF Needed, GraphInv, TypeOK
    <3>2. layers - 1 \in 0..layers - 1
      BY <2>2
    <3> QED
      BY <2>8, <3>1, <3>2 DEF Holds, Positive
  <2> QED
    BY <2>2, <2>3, <2>9, <2>10 DEF ValidLayers
<1> QED
  BY <1>1, InitInv, NextInv, PTL DEF Spec

(* What compute_planning_graph returns is one of the results by which      *)
(* build_cocg_subgraph uses it in CoCGTree.                                *)
ReturnsSegmentLayers ==
  phase = "solved" => ret_action_layers \in SegmentLayers(state_layers[0], actions, goals)

(* CoCGTree leaves out no result of compute_planning_graph: its operator   *)
(* SegmentLayers allows whatever the graph, the extraction and the retries *)
(* of compute_planning_graph return for the segment.                       *)
THEOREM ResultsAreSegmentLayers == Spec => []ReturnsSegmentLayers
<1>1. Inv /\ ContractKept /\ NoLongerThanSequential => ReturnsSegmentLayers
  <2> SUFFICES ASSUME Inv, ContractKept, NoLongerThanSequential, phase = "solved"
               PROVE  ret_action_layers \in SegmentLayers(state_layers[0], actions, goals)
    BY DEF ReturnsSegmentLayers
  <2>1. GraphInv /\ ExtractionInv /\ SegmentInv
    BY DEF Inv
  <2>2. PICK ls, init, acts, goal :
          /\ ls = ret_action_layers /\ init = state_layers[0] /\ acts = actions /\ goal = goals
    OBVIOUS
  <2>3. /\ layers \in Nat \ {0} /\ Len(ls) = layers - 1
        /\ ls \in Seq(SUBSET ActionNames)
        /\ \A k \in 1..layers - 1 : \A a \in ls[k] : a \in Range(acts)
    BY <2>1, <2>2, SolvedFacts
  <2>4. /\ \A k \in 1..Len(ls) : ls[k] \in Startable(ActionNames, StatesAlong(init, ls)[k - 1])
        /\ goal \subseteq StatesAlong(init, ls)[Len(ls)]
    BY <2>2 DEF ContractKept, ValidLayers
  <2>5. Len(ls) <= Len(acts) /\ Len(acts) \in Nat
    BY <2>1, <2>2 DEF NoLongerThanSequential, GraphInv, TypeOK
  <2>6. \A k \in 1..Len(ls) : ls[k] \in SUBSET Range(acts)
    BY <2>3
  <2>7. ls \in Seq(SUBSET Range(acts))
    BY <2>3, <2>6
  <2>8. Performable(ls, init, acts)
    BY <2>4, <2>6, <2>7 DEF Performable, Startable
  <2>9. ls \in SegmentLayers(init, acts, goal)
    BY <2>4, <2>5, <2>8, SegmentLayersExact
  <2> QED
    BY <2>2, <2>9
<1> QED
  BY <1>1, InitInv, NextInv, ContractIsKept, NeverLongerThanSequential, PTL DEF Spec
==============================================================================
