----------------------------- MODULE MCCoCGTree ------------------------------
(***************************************************************************)
(* A search domain in the manner of the coffee and BoxPushing tests: a key *)
(* is in one of three places, lamp and open are independent of each other. *)
(***************************************************************************)
EXTENDS CoCGTree

P(s) == {<<x, "+">> : x \in s}
N(s) == {<<x, "-">> : x \in s}

MCAtoms == {"at1", "at2", "lit", "opened", "key1", "key2", "key3", "held"}
MCActionNames == {"lamp", "open", "go", "back", "take1", "take2"}

MCPre == [x \in MCActionNames |->
  CASE x = "lamp"  -> {}
    [] x = "open"  -> P({"at1"})
    [] x = "go"    -> P({"at1", "opened"})
    [] x = "back"  -> P({"at2", "opened"})
    [] x = "take1" -> P({"at1", "key1"})
    [] x = "take2" -> P({"at2", "key2", "lit"})]

MCEff == [x \in MCActionNames |->
  CASE x = "lamp"  -> P({"lit"})
    [] x = "open"  -> P({"opened"})
    [] x = "go"    -> P({"at2"}) \union N({"at1"})
    [] x = "back"  -> P({"at1"}) \union N({"at2"})
    [] x = "take1" -> P({"held"}) \union N({"key1"})
    [] x = "take2" -> P({"held"}) \union N({"key2"})]

Keys(s) == [predicates |-> P({"at1"}), unknowns |-> P(s), oneofs |-> {P(s)}]

Do(a, next)  == ContPlanNode(<<"act", a>>, next, next)
Ask(x, t, f) == ContPlanNode(<<"sense", <<x, "+">>>>, t, f)

\* No observation; the observation last, with one empty branch; actions
\* before, between and after two observations; two observations in a row.
MCPlans ==
  {[expert |-> Keys({"key1", "key2"}),
    nodes  |-> <<Do("lamp", 2), Do("open", 3), Do("go", 0)>>],
   [expert |-> Keys({"key1", "key2"}),
    nodes  |-> <<Do("lamp", 2), Ask("key1", 3, 0), Do("take1", 0)>>],
   [expert |-> Keys({"key1", "key2"}),
    nodes  |-> <<Do("open", 2), Do("lamp", 3), Ask("key1", 4, 6), Do("take1", 5), Do("go", 0),
                 Do("go", 7), Do("take2", 0)>>],
   [expert |-> Keys({"key1", "key2", "key3"}),
    nodes  |-> <<Ask("key1", 2, 3), Do("take1", 0), Do("lamp", 4), Do("open", 5), Do("go", 6),
                 Ask("key2", 7, 8), Do("take2", 8), Do("back", 0)>>],
   [expert |-> Keys({"key1", "key2", "key3"}),
    nodes  |-> <<Ask("key3", 4, 2), Ask("key1", 3, 5), Do("take1", 0), Do("lamp", 0),
                 Do("open", 6), Do("lamp", 7), Do("go", 8), Do("take2", 0)>>]}

(* No action of a plan changes a fact that is still to be observed when it *)
(* is reached, whatever has been observed before, and what is observed is  *)
(* open then: ActsOnKnown and ObservesOpen.                                *)
RECURSIVE LeavesUnknown(_, _, _)
LeavesUnknown(nodes, n, e) ==
  LET mid   == MidNodes(nodes, n)
      acts  == [i \in 1..Len(mid) |-> nodes[mid[i]].item[2]]
      stop  == StopNode(nodes, n)
      later == [e EXCEPT !.predicates = TraversedState(@, acts)]
  IN  /\ \A a \in Range(acts) : \A f \in Eff[a] : <<f[1], "+">> \notin UNION e.oneofs
      /\ stop # nullptr =>
           /\ observe(nodes, stop) \in UNION e.oneofs
           /\ LeavesUnknown(nodes, nodes[stop].true_node, AfterSensing(later, observe(nodes, stop), TRUE))
           /\ LeavesUnknown(nodes, nodes[stop].false_node, AfterSensing(later, observe(nodes, stop), FALSE))

ASSUME PlansActOnKnown == \A p \in MCPlans : LeavesUnknown(p.nodes, Root, p.expert)
ASSUME PreconditionsPositive == \A a \in MCActionNames : MCPre[a] \subseteq Positive
==============================================================================
