----------------------------- MODULE PlanSegment -----------------------------
(***************************************************************************)
(* compute_planning_graph: build the planning graph for one segment of the *)
(* plan tree, extract a layered plan from it, and on failure grow the      *)
(* graph by one layer and extract again, as long as the graph has no more  *)
(* layers than the segment has actions.                                    *)
(***************************************************************************)
EXTENDS GraphExtraction

VARIABLE ret_action_layers  \* the returned layers of grounded actions

segVars == <<gpVars, extractionVars, ret_action_layers>>

SegmentInit ==
  /\ GraphInit
  /\ stack = <<>> /\ ret = NoReturn
  /\ extraction_layers = [k \in {0} |-> {}]
  /\ ret_action_layers = <<>>

BuildGraph ==
  /\ create_init_graph
  /\ UNCHANGED <<extractionVars, ret_action_layers>>

Extract ==
  /\ phase = "built"
  /\ StartExtraction
  /\ phase' = "extracting"
  /\ UNCHANGED <<actions, goals, graph, ret_action_layers>>

ExtractStep ==
  /\ phase = "extracting"
  /\ extract_backward_from_layer
  /\ UNCHANGED <<gpVars, ret_action_layers>>

(* Layer 0, always empty, is erased; noops are dropped.                    *)
ActionLayersOf(layersOfNodes) ==
  [k \in 1..layers - 1 |-> {n[2] : n \in {m \in layersOfNodes[k] : ~IsNoop(m)}}]

Solved ==
  /\ phase = "extracting" /\ Returned /\ OverallExtracted
  /\ ret_action_layers' = ActionLayersOf(extraction_layers)
  /\ phase' = "solved"
  /\ UNCHANGED <<actions, goals, graph, extractionVars>>

ExpandAndRetry ==
  /\ phase = "extracting" /\ Returned /\ ~OverallExtracted
  /\ ExpandAfterFailure
  /\ phase' = "built"
  /\ UNCHANGED <<actions, goals, extractionVars, ret_action_layers>>

\* Mutant: the bound is not looked at, so that the loop neither grows the
\* graph nor leaves.
GiveUpNever ==
  /\ phase = "extracting" /\ Returned /\ ~OverallExtracted
  /\ LayersExceeded
  /\ UNCHANGED segVars

(* The caller gets no layers at all.                                       *)
GiveUp ==
  /\ phase = "extracting" /\ Returned /\ ~OverallExtracted
  /\ LayersExceeded
  /\ phase' = "unsolved"
  /\ UNCHANGED <<actions, goals, graph, extractionVars, ret_action_layers>>

compute_planning_graph ==
  \/ BuildGraph
  \/ Extract
  \/ ExtractStep
  \/ Solved
  \/ ExpandAndRetry
  \/ GiveUp
------------------------------------------------------------------------------
(* What the steps of compute_planning_graph keep besides ExtractionInv: an *)
(* answer is read in the call that waits for it, and layers are returned   *)
(* only for a graph that contained the goals or was grown to its bound.    *)
SegmentInv ==
  /\ layers <= Len(actions) + 1
  /\ actions = <<>> => goals \subseteq state_layers[0]
  /\ phase # "contain" => layers > Len(actions) \/ goals \subseteq state_layers[layers - 1]
  /\ phase \notin {"extracting", "solved"} => ret = NoReturn \/ ~OverallExtracted
  /\ phase = "solved" => /\ ret # NoReturn /\ OverallExtracted
                         /\ ret_action_layers = ActionLayersOf(extraction_layers)
==============================================================================
