----------------------------- MODULE LayeredPlan -----------------------------
(***************************************************************************)
(* The contract of compute_planning_graph: what its result, a sequence of  *)
(* layers of grounded actions, is for.  The actions of a layer may run in  *)
(* any order or at the same time, each is applicable when its layer        *)
(* starts, and the last layer leaves every goal predicate true.            *)
(***************************************************************************)
EXTENDS Domain

PerformLayer(preds, layer) ==
  {f \in preds : \A a \in layer : <<f[1], "-">> \notin Eff[a]}
    \union ((UNION {Eff[a] : a \in layer}) \intersect Positive)

(* The states that the layers lead through, after[0] the first one.        *)
StatesAlong(init, acts) ==
  LET after[k \in 0..Len(acts)] ==
        IF k = 0 THEN init ELSE PerformLayer(after[k - 1], acts[k])
  IN  after

\* Mutant: interfering actions share a layer.
StartableTogether(acts, preds) ==
  {layer \in SUBSET acts : \A a \in layer : Enabled(a, preds)}

(* Layers that may start in a state.                                       *)
Startable(acts, preds) ==
  {layer \in SUBSET acts : Compatible(layer) /\ \A a \in layer : Enabled(a, preds)}

ValidLayers(init, goals, acts) ==
  LET after == StatesAlong(init, acts)
  IN  /\ \A k \in 1..Len(acts) : acts[k] \in Startable(ActionNames, after[k - 1])
      /\ goals \subseteq after[Len(acts)]

NoLayers == <<>>

\* Mutant: the bound is one layer too generous.
SegmentLayersOneMore(init, acts, goals) ==
  LET runs[n \in 0..Len(acts) + 1] ==  \* layers, and the state they leave
        IF n = 0 THEN {<<<<>>, init>>}
        ELSE LET shorter == runs[n - 1]
             IN  shorter \union
                 UNION {{<<Append(r[1], layer), PerformLayer(r[2], layer)>> :
                           layer \in Startable(Range(acts), r[2])} :
                        r \in {q \in shorter : Len(q[1]) = n - 1}}
  IN  {NoLayers} \union {r[1] : r \in {q \in runs[Len(acts) + 1] : goals \subseteq q[2]}}

(* Every result compute_planning_graph may return for a segment: nothing   *)
(* when it gives up, or valid layers, no more of them than actions.        *)
SegmentLayers(init, acts, goals) ==
  LET runs[n \in 0..Len(acts)] ==  \* layers, and the state they leave
        IF n = 0 THEN {<<<<>>, init>>}
        ELSE LET shorter == runs[n - 1]
             IN  shorter \union
                 UNION {{<<Append(r[1], layer), PerformLayer(r[2], layer)>> :
                           layer \in Startable(Range(acts), r[2])} :
                        r \in {q \in shorter : Len(q[1]) = n - 1}}
  IN  {NoLayers} \union {r[1] : r \in {q \in runs[Len(acts)] : goals \subseteq q[2]}}
==============================================================================
