------------------------------ MODULE MCDomain -------------------------------
(***************************************************************************)
(* A small logistics domain in the manner of the BoxPushing tests of the   *)
(* repository: a robot carries a box from room 1 to room 2.  drop reaches  *)
(* two facts at once, moves undo each other, toss deletes without adding.  *)
(***************************************************************************)
EXTENDS SequencesExt, Naturals, FiniteSets

MCAtoms == {"at1", "at2", "free", "hold", "box1", "box2"}

MCActionNames == {"move12", "move21", "pick", "drop", "toss"}

P(s) == {<<x, "+">> : x \in s}
N(s) == {<<x, "-">> : x \in s}

MCPre == [a \in MCActionNames |->
  CASE a = "move12" -> P({"at1"})
    [] a = "move21" -> P({"at2"})
    [] a = "pick"   -> P({"at1", "box1", "free"})
    [] a = "drop"   -> P({"at2", "hold"})
    [] a = "toss"   -> P({"hold"})]

MCEff == [a \in MCActionNames |->
  CASE a = "move12" -> P({"at2"}) \union N({"at1"})
    [] a = "move21" -> P({"at1"}) \union N({"at2"})
    [] a = "pick"   -> P({"hold"}) \union N({"box1", "free"})
    [] a = "drop"   -> P({"box2", "free"}) \union N({"hold"})
    [] a = "toss"   -> P({"free"}) \union N({"hold"})]

MCInits == {P({"at1", "box1", "free"}), P({"at2", "box1", "free"}), P({"at1", "hold"})}
==============================================================================
