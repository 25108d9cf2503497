-------------------------- MODULE LayeredPlanProofs --------------------------
(***************************************************************************)
(* Facts about layered plans: the states they lead through, and what the   *)
(* contract of compute_planning_graph says about them.                     *)
(***************************************************************************)
EXTENDS LayeredPlan, TLAPS, WellFoundedInduction

(* Induction over the naturals, about a set.                               *)
LEMMA NatSetInduction ==
  ASSUME NEW T, 0 \in T, \A n \in Nat : n \in T => n + 1 \in T
  PROVE  Nat \subseteq T
<1> DEFINE Out == Nat \ T
           R == OpToRel(<, Nat)
<1> SUFFICES ASSUME Out # {} PROVE FALSE
  OBVIOUS
<1>1. PICK x \in Out : \A y \in Out : <<y, x>> \notin R
  BY NatLessThanWellFounded, WFMin
<1>2. x - 1 \in Nat /\ x = (x - 1) + 1
  OBVIOUS
<1>3. x - 1 \in T
  <2>1. <<x - 1, x>> \in R
    BY <1>2 DEF OpToRel
  <2> QED
    BY <1>1, <1>2, <2>1
<1> QED
  BY <1>2, <1>3

(* What a loop reaches from x before it leaves at E.                       *)
Reached(A, E, step, x) ==
  {y \in A : \A C \in SUBSET A : x \in C /\ (\A z \in C : z \in E \/ step[z] \in C) => y \in C}

IsLoop(f, A, E, step, out) == f = [x \in A |-> IF x \in E THEN out[x] ELSE f[step[x]]]

(* A loop that steps through A and leaves at the elements of E is a        *)
(* function: what it returns exists, whether or not it comes to its end.   *)
LEMMA LoopExists ==
  ASSUME NEW A, NEW E, NEW step, NEW out, \A x \in A : x \in E \/ step[x] \in A
  PROVE  \E f : IsLoop(f, A, E, step, out)
<1>1. PICK R : R = [x \in A |-> Reached(A, E, step, x)]
  OBVIOUS
<1>2. ASSUME NEW x \in A
      PROVE  R[x] \in SUBSET A /\ x \in R[x]
  BY <1>1 DEF Reached
<1>3. ASSUME NEW x \in A, NEW z \in R[x], z \notin E
      PROVE  step[z] \in R[x]
  BY <1>1, <1>3 DEF Reached
<1>4. ASSUME NEW x \in A, x \in E
      PROVE  R[x] = {x}
  <2>1. PICK C : C = {x}
    OBVIOUS
  <2>2. C \in SUBSET A /\ x \in C /\ \A z \in C : z \in E \/ step[z] \in C
    BY <1>4, <2>1
  <2>3. R[x] \subseteq C
    BY <1>1, <2>2 DEF Reached
  <2> QED
    BY <1>2, <2>1, <2>3
<1>5. ASSUME NEW x \in A, x \notin E
      PROVE  R[x] = {x} \union R[step[x]]
  <2>1. step[x] \in A
    BY <1>5
  <2>2. ASSUME NEW y \in R[step[x]]
        PROVE  y \in R[x]
    BY <1>1, <1>5, <2>1 DEF Reached
  <2>3. PICK C : C = {x} \union R[step[x]]
    OBVIOUS
  <2>4. C \in SUBSET A /\ x \in C /\ \A z \in C : z \in E \/ step[z] \in C
    BY <1>2, <1>3, <2>1, <2>3
  <2>5. R[x] \subseteq C
    BY <1>1, <2>4 DEF Reached
  <2> QED
    BY <1>2, <2>2, <2>3, <2>5
<1>6. PICK f : f = [x \in A |-> out[CHOOSE y : y \in R[x] \intersect E]]
  OBVIOUS
<1>7. ASSUME NEW x \in A
      PROVE  f[x] = IF x \in E THEN out[x] ELSE f[step[x]]
  <2>1. CASE x \in E
    <3>1. R[x] \intersect E = {x}
      BY <1>4, <2>1
    <3>2. (CHOOSE y : y \in R[x] \intersect E) = x
      BY <3>1
    <3> QED
      BY <1>6, <2>1, <3>2
  <2>2. CASE x \notin E
    <3>1. R[x] \intersect E = R[step[x]] \intersect E
      BY <1>5, <2>2
    <3>2. step[x] \in A
      BY <2>2
    <3>3. f[x] = out[CHOOSE y : y \in R[x] \intersect E]
      BY <1>6
    <3>4. f[step[x]] = out[CHOOSE y : y \in R[step[x]] \intersect E]
      BY <1>6, <3>2
    <3> QED
      BY <2>2, <3>1, <3>3, <3>4
  <2> QED
    BY <2>1, <2>2
<1>8. IsLoop(f, A, E, step, out)
  <2>1. f = [x \in A |-> f[x]]
    BY <1>6
  <2> QED
    BY <1>7, <2>1 DEF IsLoop
<1> QED
  BY <1>8

(* after is the sequence of states that n layers of acts lead through.     *)
IsRun(after, n, init, acts) ==
  after = [k \in 0..n |-> IF k = 0 THEN init ELSE PerformLayer(after[k - 1], acts[k])]

(* Every sequence of layers can be performed, by induction on its length. *)
LEMMA RunExists ==
  ASSUME NEW init, NEW acts, NEW n \in Nat
  PROVE  \E after : IsRun(after, n, init, acts)
<1> DEFINE T == {m \in Nat : \E after : IsRun(after, m, init, acts)}
<1>1. 0 \in T
  <2>1. IsRun([k \in 0..0 |-> init], 0, init, acts)
    BY DEF IsRun
  <2> QED
    BY <2>1
<1>2. ASSUME NEW m \in Nat, m \in T
      PROVE  m + 1 \in T
  <2>1. PICK f : IsRun(f, m, init, acts)
    BY <1>2
  <2>2. PICK g : g = [k \in 0..m + 1 |-> IF k <= m THEN f[k] ELSE PerformLayer(f[m], acts[m + 1])]
    OBVIOUS
  <2>3. ASSUME NEW k \in 0..m + 1
        PROVE  g[k] = IF k = 0 THEN init ELSE PerformLayer(g[k - 1], acts[k])
    <3>1. CASE k = m + 1
      BY <2>2, <3>1
    <3>2. CASE k \in 0..m
      <4>1. f[k] = IF k = 0 THEN init ELSE PerformLayer(f[k - 1], acts[k])
        BY <2>1, <3>2 DEF IsRun
      <4> QED
        BY <2>2, <3>2, <4>1
    <3> QED
      BY <3>1, <3>2
  <2>4. IsRun(g, m + 1, init, acts)
    BY <2>2, <2>3 DEF IsRun
  <2> QED
    BY <2>4
<1> HIDE DEF T
<1>3. Nat \subseteq T
  BY <1>1, <1>2, NatSetInduction
<1> QED
  BY <1>3 DEF T

(* StatesAlong is what its equation says.                                  *)
LEMMA StatesAlongIs ==
  ASSUME NEW init, NEW acts, Len(acts) \in Nat
  PROVE  /\ StatesAlong(init, acts)[0] = init
         /\ \A k \in 1..Len(acts) :
              StatesAlong(init, acts)[k] = PerformLayer(StatesAlong(init, acts)[k - 1], acts[k])
<1>1. \E after : IsRun(after, Len(acts), init, acts)
  BY RunExists
<1>2. StatesAlong(init, acts) = CHOOSE after : IsRun(after, Len(acts), init, acts)
  BY DEF StatesAlong, IsRun
<1>3. PICK after : after = StatesAlong(init, acts) /\ IsRun(after, Len(acts), init, acts)
  BY <1>1, <1>2
<1> QED
  BY <1>3 DEF IsRun

(* What a layer performed at once leaves true.                             *)
LEMMA PerformedIs ==
  ASSUME NEW before, NEW layer, NEW f
  PROVE  f \in PerformLayer(before, layer) <=>
           \/ f \in before /\ \A a \in layer : <<f[1], "-">> \notin Eff[a]
           \/ f \in Positive /\ \E a \in layer : f \in Eff[a]
<1>1. PICK added : added = UNION {Eff[a] : a \in layer}
  OBVIOUS
<1>2. f \in added <=> \E a \in layer : f \in Eff[a]
  BY <1>1
<1>3. PerformLayer(before, layer)
        = {g \in before : \A a \in layer : <<g[1], "-">> \notin Eff[a]} \union (added \intersect Positive)
  BY <1>1 DEF PerformLayer
<1> QED
  BY <1>2, <1>3
------------------------------------------------------------------------------
(* after is the sequence of states that the actions acts lead through.     *)
Leads(after, init, acts) ==
  /\ after[0] = init
  /\ \A k \in 1..Len(acts) : after[k] = apply_actuation_action(after[k - 1], acts[k])
  /\ TraversedState(init, acts) = after[Len(acts)]

(* TraversedState is the last of the states that the actions lead through, *)
(* one after the other: an action is a layer of its own.                   *)
LEMMA TraversedIs ==
  ASSUME NEW init, NEW acts, Len(acts) \in Nat
  PROVE  \E after : Leads(after, init, acts)
<1>1. PICK n \in Nat : n = Len(acts)
  OBVIOUS
<1>2. PICK layers : layers = [i \in 1..n |-> {acts[i]}]
  OBVIOUS
<1>3. PICK run : IsRun(run, n, init, layers)
  BY RunExists
<1>4. ASSUME NEW before, NEW a
      PROVE  PerformLayer(before, {a}) = apply_actuation_action(before, a)
  BY PerformedIs DEF apply_actuation_action
<1>5. ASSUME NEW k \in 0..n
      PROVE  run[k] = IF k = 0 THEN init ELSE apply_actuation_action(run[k - 1], acts[k])
  <2>1. run[k] = IF k = 0 THEN init ELSE PerformLayer(run[k - 1], layers[k])
    BY <1>3 DEF IsRun
  <2>2. k # 0 => layers[k] = {acts[k]}
    BY <1>2
  <2> QED
    BY <1>4, <2>1, <2>2
<1> DEFINE IsAfter(after) ==
      after = [i \in 0..Len(acts) |->
                 IF i = 0 THEN init ELSE apply_actuation_action(after[i - 1], acts[i])]
<1>6. IsAfter(run)
  <2>1. run = [k \in 0..n |-> run[k]]
    BY <1>3 DEF IsRun
  <2> QED
    BY <1>1, <1>5, <2>1
<1>7. PICK after : after = CHOOSE r : IsAfter(r)
  OBVIOUS
<1>8. IsAfter(after)
  BY <1>6, <1>7
<1>9. TraversedState(init, acts) = after[n]
  BY <1>1, <1>7, Zenon DEF TraversedState
<1>10. \A k \in 0..n : after[k] = IF k = 0 THEN init ELSE apply_actuation_action(after[k - 1], acts[k])
  BY <1>1, <1>8, Zenon
<1>11. after[0] = init
  <2>1. 0 \in 0..n
    OBVIOUS
  <2> QED
    BY <1>10, <2>1, Zenon
<1>12. ASSUME NEW k \in 1..n
       PROVE  after[k] = apply_actuation_action(after[k - 1], acts[k])
  <2>1. k \in 0..n /\ k # 0
    OBVIOUS
  <2> QED
    BY <1>10, <2>1, Zenon
<1> QED
  BY <1>1, <1>9, <1>11, <1>12 DEF Leads

(* Without actions the state is the one before.                            *)
LEMMA TraversedNone ==
  ASSUME NEW init
  PROVE  TraversedState(init, <<>>) = init
<1>1. Len(<<>>) = 0
  OBVIOUS
<1> QED
  BY <1>1, TraversedIs DEF Leads

(* The first action can be taken apart from the ones after it.             *)
LEMMA TraversedFirst ==
  ASSUME NEW S, NEW a \in S, NEW later \in Seq(S), NEW init
  PROVE  TraversedState(init, <<a>> \o later)
           = TraversedState(apply_actuation_action(init, a), later)
<1>1. PICK n \in Nat : n = Len(later)
  OBVIOUS
<1>2. PICK acts : acts = <<a>> \o later
  OBVIOUS
<1>3. /\ Len(acts) = n + 1 /\ acts[1] = a
      /\ \A k \in 1..n : acts[k + 1] = later[k]
  BY <1>1, <1>2
<1>4. PICK after : Leads(after, init, acts)
  <2>1. Len(acts) \in Nat
    BY <1>3
  <2> QED
    BY <2>1, TraversedIs
<1>5. PICK rest : Leads(rest, apply_actuation_action(init, a), later)
  BY <1>1, TraversedIs
<1> DEFINE T == {k \in Nat : k <= n => after[k + 1] = rest[k]}
<1>6. 0 \in T
  <2>1. 1 \in 1..n + 1 /\ 1 - 1 = 0
    OBVIOUS
  <2>2. after[1] = apply_actuation_action(after[0], acts[1])
    BY <1>3, <1>4, <2>1 DEF Leads
  <2> QED
    BY <1>3, <1>4, <1>5, <2>2 DEF Leads
<1>7. ASSUME NEW k \in Nat, k \in T
      PROVE  k + 1 \in T
  <2> SUFFICES ASSUME k + 1 <= n PROVE after[(k + 1) + 1] = rest[k + 1]
    OBVIOUS
  <2>1. /\ k + 1 \in 1..n /\ (k + 1) - 1 = k
        /\ (k + 1) + 1 \in 1..n + 1 /\ ((k + 1) + 1) - 1 = k + 1
    OBVIOUS
  <2>2. after[(k + 1) + 1] = apply_actuation_action(after[k + 1], acts[(k + 1) + 1])
    BY <1>3, <1>4, <2>1 DEF Leads
  <2>3. rest[k + 1] = apply_actuation_action(rest[k], later[k + 1])
    BY <1>1, <1>5, <2>1 DEF Leads
  <2>4. acts[(k + 1) + 1] = later[k + 1] /\ after[k + 1] = rest[k]
    BY <1>3, <1>7, <2>1
  <2> QED
    BY <2>2, <2>3, <2>4
<1> HIDE DEF T
<1>8. Nat \subseteq T
  BY <1>6, <1>7, NatSetInduction
<1>9. after[n + 1] = rest[n]
  BY <1>8 DEF T
<1> QED
  BY <1>1, <1>2, <1>3, <1>4, <1>5, <1>9 DEF Leads

(* A sequence of actions leads from a set of positive facts to another.    *)
LEMMA TraversedPositive ==
  ASSUME NEW init \in SUBSET Positive, NEW acts, Len(acts) \in Nat
  PROVE  TraversedState(init, acts) \in SUBSET Positive
<1>1. PICK n \in Nat : n = Len(acts)
  OBVIOUS
<1>2. PICK after : Leads(after, init, acts)
  BY TraversedIs
<1> DEFINE T == {k \in Nat : k <= n => after[k] \in SUBSET Positive}
<1>3. 0 \in T
  BY <1>2 DEF Leads
<1>4. ASSUME NEW k \in Nat, k \in T
      PROVE  k + 1 \in T
  <2> SUFFICES ASSUME k + 1 <= n PROVE after[k + 1] \in SUBSET Positive
    OBVIOUS
  <2>1. k + 1 \in 1..n /\ (k + 1) - 1 = k
    OBVIOUS
  <2>2. after[k + 1] = apply_actuation_action(after[k], acts[k + 1])
    BY <1>1, <1>2, <2>1 DEF Leads
  <2>3. after[k] \in SUBSET Positive
    BY <1>4
  <2> QED
    BY <2>2, <2>3 DEF apply_actuation_action
<1> HIDE DEF T
<1>5. Nat \subseteq T
  BY <1>3, <1>4, NatSetInduction
<1>6. after[n] \in SUBSET Positive
  BY <1>5 DEF T
<1> QED
  BY <1>1, <1>2, <1>6 DEF Leads

(* A fact that no action adds or deletes stays as it is.                   *)
LEMMA TraversedLeaves ==
  ASSUME NEW init, NEW acts, Len(acts) \in Nat, NEW f \in Positive,
         \A i \in 1..Len(acts) : \A g \in Eff[acts[i]] : g[1] # f[1]
  PROVE  f \in TraversedState(init, acts) <=> f \in init
<1>1. PICK n \in Nat : n = Len(acts)
  OBVIOUS
<1>2. PICK after : Leads(after, init, acts)
  BY TraversedIs
<1> DEFINE T == {k \in Nat : k <= n => (f \in after[k] <=> f \in init)}
<1>3. 0 \in T
  BY <1>2 DEF Leads
<1>4. ASSUME NEW k \in Nat, k \in T
      PROVE  k + 1 \in T
  <2> SUFFICES ASSUME k + 1 <= n PROVE f \in after[k + 1] <=> f \in init
    OBVIOUS
  <2>1. k + 1 \in 1..n /\ (k + 1) - 1 = k
    OBVIOUS
  <2>2. after[k + 1] = apply_actuation_action(after[k], acts[k + 1])
    BY <1>1, <1>2, <2>1 DEF Leads
  <2>3. f \notin Eff[acts[k + 1]] /\ <<f[1], "-">> \notin Eff[acts[k + 1]]
    BY <1>1, <2>1
  <2>4. f \in after[k + 1] <=> f \in after[k]
    BY <2>2, <2>3 DEF apply_actuation_action
  <2> QED
    BY <1>4, <2>4
<1> HIDE DEF T
<1>5. Nat \subseteq T
  BY <1>3, <1>4, NatSetInduction
<1>6. f \in after[n] <=> f \in init
  BY <1>5 DEF T
<1> QED
  BY <1>1, <1>2, <1>6 DEF Leads

(* What the same actions make true from one state and not from another is  *)
(* true in the one from the start, and none of them deletes it.            *)
LEMMA TraversedFromTwo ==
  ASSUME NEW init, NEW other, NEW acts, Len(acts) \in Nat,
         NEW f \in TraversedState(other, acts)
  PROVE  \/ f \in TraversedState(init, acts)
         \/ f \in other /\ \A i \in 1..Len(acts) : <<f[1], "-">> \notin Eff[acts[i]]
<1>1. PICK n \in Nat : n = Len(acts)
  OBVIOUS
<1>2. PICK after : Leads(after, init, acts)
  BY TraversedIs
<1>3. PICK beside : Leads(beside, other, acts)
  BY TraversedIs
<1> DEFINE Kept(k) == f \in other /\ \A i \in 1..k : <<f[1], "-">> \notin Eff[acts[i]]
           T == {k \in Nat : k <= n /\ f \in beside[k] => f \in after[k] \/ Kept(k)}
<1>4. 0 \in T
  BY <1>3 DEF Leads
<1>5. ASSUME NEW k \in Nat, k \in T
      PROVE  k + 1 \in T
  <2> SUFFICES ASSUME k + 1 <= n, f \in beside[k + 1], f \notin after[k + 1]
               PROVE  Kept(k + 1)
    OBVIOUS
  <2>1. k + 1 \in 1..n /\ (k + 1) - 1 = k
    OBVIOUS
  <2>2. after[k + 1] = apply_actuation_action(after[k], acts[k + 1])
    BY <1>1, <1>2, <2>1 DEF Leads
  <2>3. beside[k + 1] = apply_actuation_action(beside[k], acts[k + 1])
    BY <1>1, <1>3, <2>1 DEF Leads
  <2>4. f \in beside[k] /\ f \notin after[k] /\ <<f[1], "-">> \notin Eff[acts[k + 1]]
    BY <2>2, <2>3 DEF apply_actuation_action
  <2>5. Kept(k)
    BY <1>5, <2>4
  <2>6. \A i \in 1..k + 1 : i \in 1..k \/ i = k + 1
    OBVIOUS
  <2> QED
    BY <2>4, <2>5, <2>6
<1>6. ASSUME f \in beside[n]
      PROVE  f \in after[n] \/ Kept(n)
  <2> HIDE DEF T
  <2>1. Nat \subseteq T
    BY <1>4, <1>5, NatSetInduction
  <2> QED
    BY <1>6, <2>1 DEF T
<1> QED
  BY <1>1, <1>2, <1>3, <1>6 DEF Leads
------------------------------------------------------------------------------
(* Another layer leads one step further and changes nothing before it.     *)
LEMMA OneLayerMore ==
  ASSUME NEW init, NEW S, NEW ls \in Seq(S), NEW layer \in S
  PROVE  /\ \A k \in 0..Len(ls) :
              StatesAlong(init, Append(ls, layer))[k] = StatesAlong(init, ls)[k]
         /\ StatesAlong(init, Append(ls, layer))[Len(ls) + 1] =
              PerformLayer(StatesAlong(init, ls)[Len(ls)], layer)
<1>1. PICK n \in Nat : n = Len(ls)
  OBVIOUS
<1>2. PICK more : more = Append(ls, layer)
  OBVIOUS
<1>3. /\ Len(more) = n + 1
      /\ \A k \in 1..n : more[k] = ls[k]
      /\ more[n + 1] = layer
  BY <1>1, <1>2
<1>4. PICK a, b : a = StatesAlong(init, more) /\ b = StatesAlong(init, ls)
  OBVIOUS
<1>5. /\ a[0] = init /\ \A k \in 1..n + 1 : a[k] = PerformLayer(a[k - 1], more[k])
      /\ b[0] = init /\ \A k \in 1..n : b[k] = PerformLayer(b[k - 1], ls[k])
  <2>1. a[0] = init /\ \A k \in 1..Len(more) : a[k] = PerformLayer(a[k - 1], more[k])
    <3>1. Len(more) \in Nat
      BY <1>3
    <3> QED
      BY <1>4, <3>1, StatesAlongIs
  <2>2. b[0] = init /\ \A k \in 1..Len(ls) : b[k] = PerformLayer(b[k - 1], ls[k])
    <3>1. Len(ls) \in Nat
      BY <1>1
    <3> QED
      BY <1>4, <3>1, StatesAlongIs
  <2> QED
    BY <1>1, <1>3, <2>1, <2>2
<1> DEFINE T == {k \in Nat : k <= n => a[k] = b[k]}
<1>6. 0 \in T
  BY <1>5
<1>7. ASSUME NEW k \in Nat, k \in T
      PROVE  k + 1 \in T
  <2> SUFFICES ASSUME k + 1 <= n PROVE a[k + 1] = b[k + 1]
    OBVIOUS
  <2>1. k + 1 \in 1..n /\ k + 1 \in 1..n + 1 /\ (k + 1) - 1 = k /\ a[k] = b[k]
    BY <1>7
  <2> QED
    BY <1>3, <1>5, <2>1
<1> HIDE DEF T
<1>8. Nat \subseteq T
  BY <1>6, <1>7, NatSetInduction
<1>9. \A k \in 0..n : a[k] = b[k]
  BY <1>8 DEF T
<1>10. a[n + 1] = PerformLayer(b[n], layer)
  BY <1>3, <1>5, <1>9
<1> QED
  BY <1>1, <1>2, <1>4, <1>9, <1>10

(* The results with n layers, by those with fewer.                         *)
Longer(shorter, n, acts) ==
  shorter \union
    UNION {{<<Append(r[1], layer), PerformLayer(r[2], layer)>> :
              layer \in Startable(Range(acts), r[2])} :
           r \in {q \in shorter : Len(q[1]) = n - 1}}

(* A run of the layers before, followed by a layer that may start.         *)
LEMMA LongerHas ==
  ASSUME NEW shorter, NEW n, NEW acts, NEW r \in shorter, Len(r[1]) = n - 1,
         NEW layer \in Startable(Range(acts), r[2])
  PROVE  <<Append(r[1], layer), PerformLayer(r[2], layer)>> \in Longer(shorter, n, acts)
<1> DEFINE After(q) == {<<Append(q[1], next), PerformLayer(q[2], next)>> :
                          next \in Startable(Range(acts), q[2])}
           Ends == {q \in shorter : Len(q[1]) = n - 1}
<1>1. <<Append(r[1], layer), PerformLayer(r[2], layer)>> \in After(r)
  OBVIOUS
<1>2. r \in Ends
  OBVIOUS
<1>3. After(r) \in {After(q) : q \in Ends}
  BY <1>2, Zenon
<1>4. <<Append(r[1], layer), PerformLayer(r[2], layer)>> \in UNION {After(q) : q \in Ends}
  BY <1>1, <1>3, Zenon
<1> QED
  BY <1>4, Zenon DEF Longer

AreRuns(runs, n, init, acts) ==
  runs = [m \in 0..n |-> IF m = 0 THEN {<<<<>>, init>>} ELSE Longer(runs[m - 1], m, acts)]

(* SegmentLayers has the results it builds up, by induction on the number  *)
(* of layers.                                                              *)
LEMMA RunsExist ==
  ASSUME NEW init, NEW acts, NEW n \in Nat
  PROVE  \E runs : AreRuns(runs, n, init, acts)
<1> DEFINE T == {m \in Nat : \E runs : AreRuns(runs, m, init, acts)}
<1>1. 0 \in T
  <2>1. AreRuns([k \in 0..0 |-> {<<<<>>, init>>}], 0, init, acts)
    BY DEF AreRuns
  <2> QED
    BY <2>1
<1>2. ASSUME NEW m \in Nat, m \in T
      PROVE  m + 1 \in T
  <2>1. PICK f : AreRuns(f, m, init, acts)
    BY <1>2
  <2>2. PICK g : g = [k \in 0..m + 1 |-> IF k <= m THEN f[k] ELSE Longer(f[m], m + 1, acts)]
    OBVIOUS
  <2>3. ASSUME NEW k \in 0..m + 1
        PROVE  g[k] = IF k = 0 THEN {<<<<>>, init>>} ELSE Longer(g[k - 1], k, acts)
    <3>1. CASE k = m + 1
      BY <2>2, <3>1
    <3>2. CASE k \in 0..m
      <4>1. f[k] = IF k = 0 THEN {<<<<>>, init>>} ELSE Longer(f[k - 1], k, acts)
        BY <2>1, <3>2 DEF AreRuns
      <4> QED
        BY <2>2, <3>2, <4>1
    <3> QED
      BY <3>1, <3>2
  <2>4. AreRuns(g, m + 1, init, acts)
    BY <2>2, <2>3 DEF AreRuns
  <2> QED
    BY <2>4
<1> HIDE DEF T
<1>3. Nat \subseteq T
  BY <1>1, <1>2, NatSetInduction
<1> QED
  BY <1>3 DEF T

(* runs holds the results of each length of which SegmentLayers is made.    *)
SegmentRuns(runs, init, acts, goals) ==
  /\ runs[0] = {<<<<>>, init>>}
  /\ \A m \in 1..Len(acts) : runs[m] = Longer(runs[m - 1], m, acts)
  /\ SegmentLayers(init, acts, goals) =
       {NoLayers} \union {r[1] : r \in {q \in runs[Len(acts)] : goals \subseteq q[2]}}

(* SegmentLayers, by the results of each length.                           *)
LEMMA SegmentLayersIs ==
  ASSUME NEW init, NEW acts, NEW goals, Len(acts) \in Nat
  PROVE  \E runs : SegmentRuns(runs, init, acts, goals)
<1>1. PICK n \in Nat : n = Len(acts)
  OBVIOUS
<1>2. \E runs : AreRuns(runs, n, init, acts)
  BY RunsExist
<1>3. PICK runs : runs = CHOOSE rs : AreRuns(rs, n, init, acts)
  OBVIOUS
<1>4. AreRuns(runs, n, init, acts)
  BY <1>2, <1>3
<1>5. SegmentLayers(init, acts, goals) =
        {NoLayers} \union {r[1] : r \in {q \in runs[Len(acts)] : goals \subseteq q[2]}}
  BY <1>1, <1>3 DEF SegmentLayers, AreRuns, Longer
<1>6. \A m \in 0..n : runs[m] = IF m = 0 THEN {<<<<>>, init>>} ELSE Longer(runs[m - 1], m, acts)
  BY <1>4, Zenon DEF AreRuns
<1>7. runs[0] = {<<<<>>, init>>}
  <2>1. 0 \in 0..n
    BY <1>1
  <2> QED
    BY <1>6, <2>1, Zenon
<1>8. ASSUME NEW m \in 1..n
      PROVE  runs[m] = Longer(runs[m - 1], m, acts)
  <2>1. m \in 0..n /\ m # 0
    BY <1>1
  <2> QED
    BY <1>6, <2>1, Zenon
<1> QED
  BY <1>1, <1>5, <1>7, <1>8 DEF SegmentRuns

(* Each layer of ls may start where the layers before it lead.             *)
Performable(ls, init, acts) ==
  /\ ls \in Seq(SUBSET Range(acts))
  /\ \A k \in 1..Len(ls) : ls[k] \in Startable(Range(acts), StatesAlong(init, ls)[k - 1])

(* One layer more, when it may start at the end, keeps layers performable. *)
LEMMA PerformableLonger ==
  ASSUME NEW init, NEW acts, NEW ls, Performable(ls, init, acts),
         NEW layer \in Startable(Range(acts), StatesAlong(init, ls)[Len(ls)])
  PROVE  Performable(Append(ls, layer), init, acts)
<1>1. layer \in SUBSET Range(acts) /\ ls \in Seq(SUBSET Range(acts))
  BY DEF Startable, Performable
<1>2. PICK n \in Nat : n = Len(ls)
  BY <1>1
<1>3. PICK more : more = Append(ls, layer)
  OBVIOUS
<1>4. /\ more \in Seq(SUBSET Range(acts)) /\ Len(more) = n + 1
      /\ \A k \in 1..n : more[k] = ls[k]
      /\ more[n + 1] = layer
  BY <1>1, <1>2, <1>3
<1>5. \A k \in 0..n : StatesAlong(init, more)[k] = StatesAlong(init, ls)[k]
  BY <1>1, <1>2, <1>3, OneLayerMore
<1>6. ASSUME NEW k \in 1..n + 1
      PROVE  more[k] \in Startable(Range(acts), StatesAlong(init, more)[k - 1])
  <2>1. k - 1 \in 0..n
    BY <1>2
  <2>2. StatesAlong(init, more)[k - 1] = StatesAlong(init, ls)[k - 1]
    BY <1>5, <2>1
  <2>3. CASE k = n + 1
    <3>1. k - 1 = n
      BY <1>2, <2>3
    <3> QED
      BY <1>2, <1>4, <2>2, <2>3, <3>1
  <2>4. CASE k \in 1..n
    BY <1>2, <1>4, <2>2, <2>4 DEF Performable
  <2> QED
    BY <1>2, <2>3, <2>4
<1> QED
  BY <1>3, <1>4, <1>6 DEF Performable

GrownTo(runs, n, init, acts) ==
  /\ runs[0] = {<<<<>>, init>>}
  /\ \A m \in 1..n : runs[m] = Longer(runs[m - 1], m, acts)

PerformedRun(r, n, init, acts) ==
  /\ Performable(r[1], init, acts) /\ Len(r[1]) <= n
  /\ r[2] = StatesAlong(init, r[1])[Len(r[1])]

(* What SegmentLayers builds up in n layers: performable layers, and the   *)
(* state they lead to.                                                     *)
LEMMA RunsPerformable ==
  ASSUME NEW init, NEW acts, NEW n \in Nat, NEW runs, GrownTo(runs, n, init, acts)
  PROVE  \A r \in runs[n] : PerformedRun(r, n, init, acts)
<1>0. GrownTo(runs, n, init, acts)
  OBVIOUS
<1> DEFINE Fine(r, m) == PerformedRun(r, m, init, acts)
           T == {m \in Nat : m <= n => \A r \in runs[m] : Fine(r, m)}
<1>1. 0 \in T
  <2>1. Performable(<<>>, init, acts)
    BY DEF Performable
  <2>2. StatesAlong(init, <<>>)[0] = init
    BY StatesAlongIs
  <2> QED
    BY <1>0, <2>1, <2>2 DEF GrownTo, PerformedRun
<1>2. ASSUME NEW m \in Nat, m \in T
      PROVE  m + 1 \in T
  <2> SUFFICES ASSUME m + 1 <= n, NEW r \in runs[m + 1] PROVE Fine(r, m + 1)
    OBVIOUS
  <2>1. m + 1 \in 1..n /\ (m + 1) - 1 = m
    OBVIOUS
  <2>2. runs[m + 1] = Longer(runs[m], m + 1, acts)
    BY <1>0, <2>1 DEF GrownTo
  <2>3. \A q \in runs[m] : Fine(q, m)
    BY <1>2
  <2>4. CASE r \in runs[m]
    <3>1. Fine(r, m)
      BY <2>3, <2>4
    <3>2. Len(r[1]) \in Nat
      BY <3>1 DEF PerformedRun, Performable
    <3> QED
      BY <3>1, <3>2 DEF PerformedRun
  <2>5. CASE r \notin runs[m]
    <3>0. PICK q \in runs[m] : /\ Len(q[1]) = m
                              /\ \E layer \in Startable(Range(acts), q[2]) :
                                   r = <<Append(q[1], layer), PerformLayer(q[2], layer)>>
      BY <2>1, <2>2, <2>5 DEF Longer
    <3>1. PICK layer \in Startable(Range(acts), q[2]) :
                  Len(q[1]) = m /\ r = <<Append(q[1], layer), PerformLayer(q[2], layer)>>
      BY <3>0
    <3>2. /\ Performable(q[1], init, acts)
          /\ q[2] = StatesAlong(init, q[1])[Len(q[1])]
      BY <2>3 DEF PerformedRun
    <3>3. layer \in SUBSET Range(acts) /\ q[1] \in Seq(SUBSET Range(acts))
      BY <3>2 DEF Startable, Performable
    <3>4. Len(r[1]) = m + 1
      BY <3>1, <3>3
    <3>5. Performable(r[1], init, acts)
      BY <3>1, <3>2, PerformableLonger
    <3>6. StatesAlong(init, r[1])[m + 1] = PerformLayer(q[2], layer)
      <4>1. PICK l \in Seq(SUBSET Range(acts)) : l = q[1]
        BY <3>3
      <4>2. StatesAlong(init, Append(l, layer))[Len(l) + 1] = PerformLayer(StatesAlong(init, l)[Len(l)], layer)
        BY <3>3, OneLayerMore
      <4> QED
        BY <3>1, <3>2, <4>1, <4>2
    <3> QED
      BY <3>1, <3>4, <3>5, <3>6 DEF PerformedRun
  <2> QED
    BY <2>4, <2>5
<1> HIDE DEF T
<1>3. Nat \subseteq T
  BY <1>1, <1>2, NatSetInduction
<1> QED
  BY <1>3 DEF T

(* SegmentLayers misses nothing: performable layers are built up, layer by *)
(* layer.                                                                  *)
LEMMA PerformableInRuns ==
  ASSUME NEW init, NEW acts, NEW n \in Nat, NEW runs,
         runs[0] = {<<<<>>, init>>},
         \A m \in 1..n : runs[m] = Longer(runs[m - 1], m, acts),
         NEW ls, Performable(ls, init, acts), Len(ls) <= n
  PROVE  <<ls, StatesAlong(init, ls)[Len(ls)]>> \in runs[n]
<1>1. PICK len \in Nat : len = Len(ls)
  BY DEF Performable
<1>2. ls \in Seq(SUBSET Range(acts))
  BY DEF Performable
<1>3. PICK after : after = StatesAlong(init, ls)
  OBVIOUS
<1>4. /\ after[0] = init
      /\ \A k \in 1..len : after[k] = PerformLayer(after[k - 1], ls[k])
  <2>1. Len(ls) \in Nat
    BY <1>1
  <2>2. /\ StatesAlong(init, ls)[0] = init
        /\ \A k \in 1..Len(ls) : StatesAlong(init, ls)[k] = PerformLayer(StatesAlong(init, ls)[k - 1], ls[k])
    BY <2>1, StatesAlongIs
  <2> QED
    BY <1>1, <1>3, <2>2
<1> DEFINE Least(m) == IF m <= len THEN m ELSE len
           T == {m \in Nat : m <= n => <<SubSeq(ls, 1, Least(m)), after[Least(m)]>> \in runs[m]}
<1>5. 0 \in T
  <2>1. SubSeq(ls, 1, 0) = <<>>
    BY <1>2
  <2> QED
    BY <1>1, <1>4, <2>1
<1>6. ASSUME NEW m \in Nat, m \in T
      PROVE  m + 1 \in T
  <2> SUFFICES ASSUME m + 1 <= n
               PROVE  <<SubSeq(ls, 1, Least(m + 1)), after[Least(m + 1)]>> \in runs[m + 1]
    OBVIOUS
  <2>1. m + 1 \in 1..n /\ (m + 1) - 1 = m
    OBVIOUS
  <2>2. runs[m + 1] = Longer(runs[m], m + 1, acts)
    BY <2>1
  <2>3. <<SubSeq(ls, 1, Least(m)), after[Least(m)]>> \in runs[m]
    BY <1>6
  <2>4. CASE m >= len
    <3>1. Least(m) = Least(m + 1)
      BY <1>1, <2>4
    <3> QED
      BY <2>2, <2>3, <3>1 DEF Longer
  <2>5. CASE m < len
    <3>1. PICK q : q = <<SubSeq(ls, 1, m), after[m]>>
      OBVIOUS
    <3>2. /\ q \in runs[m] /\ Len(q[1]) = m /\ q[2] = after[m]
          /\ SubSeq(ls, 1, m + 1) = Append(q[1], ls[m + 1])
      <4>0. Least(m) = m
        BY <1>1, <2>5
      <4>1. q \in runs[m]
        BY <2>3, <3>1, <4>0, Zenon
      <4>2. m + 1 \in 1..Len(ls) /\ m \in 0..Len(ls)
        BY <1>1, <2>5
      <4>3. Len(SubSeq(ls, 1, m)) = m
        BY <1>2, <4>2
      <4>4. SubSeq(ls, 1, m + 1) = Append(SubSeq(ls, 1, m), ls[m + 1])
        BY <1>2, <4>2
      <4> QED
        BY <3>1, <4>1, <4>3, <4>4
    <3>3. ls[m + 1] \in Startable(Range(acts), q[2])
      BY <1>1, <1>3, <2>1, <2>5, <3>2 DEF Performable
    <3>4. after[m + 1] = PerformLayer(q[2], ls[m + 1])
      <4>1. m + 1 \in 1..len
        BY <1>1, <2>5
      <4>2. after[m + 1] = PerformLayer(after[(m + 1) - 1], ls[m + 1])
        BY <1>4, <4>1
      <4> QED
        BY <2>1, <3>2, <4>2
    <3>5. <<Append(q[1], ls[m + 1]), PerformLayer(q[2], ls[m + 1])>> \in Longer(runs[m], m + 1, acts)
      <4>1. PICK layer : layer = ls[m + 1]
        OBVIOUS
      <4>2. layer \in Startable(Range(acts), q[2]) /\ Len(q[1]) = (m + 1) - 1
        BY <2>1, <3>2, <3>3, <4>1
      <4>3. <<Append(q[1], layer), PerformLayer(q[2], layer)>> \in Longer(runs[m], m + 1, acts)
        BY <3>2, <4>2, LongerHas, Zenon
      <4> QED
        BY <4>1, <4>3, Zenon
    <3>6. Least(m + 1) = m + 1
      BY <1>1, <2>5
    <3> QED
      BY <2>2, <3>2, <3>4, <3>5, <3>6
  <2> QED
    BY <1>1, <2>4, <2>5
<1> HIDE DEF T
<1>7. Nat \subseteq T
  BY <1>5, <1>6, NatSetInduction
<1>8. <<SubSeq(ls, 1, Least(n)), after[Least(n)]>> \in runs[n]
  BY <1>7 DEF T
<1>9. Least(n) = len /\ SubSeq(ls, 1, len) = ls
  BY <1>1, <1>2
<1> QED
  BY <1>1, <1>3, <1>8, <1>9

(* SegmentLayers, which CoCGTree uses for compute_planning_graph, is no    *)
(* more and no less than its contract: the empty answer of a segment given *)
(* up, or layers of the segment's actions that can be performed one after  *)
(* the other, lead to the goals, and are no more than the actions.         *)
THEOREM SegmentLayersExact ==
  ASSUME NEW init, NEW acts, NEW goals, Len(acts) \in Nat, NEW ls
  PROVE  ls \in SegmentLayers(init, acts, goals) <=>
           \/ ls = NoLayers
           \/ /\ Performable(ls, init, acts) /\ Len(ls) <= Len(acts)
              /\ goals \subseteq StatesAlong(init, ls)[Len(ls)]
<1>1. PICK runs : SegmentRuns(runs, init, acts, goals)
  BY SegmentLayersIs
<1>2. ASSUME ls \in SegmentLayers(init, acts, goals), ls # NoLayers
      PROVE  /\ Performable(ls, init, acts) /\ Len(ls) <= Len(acts)
             /\ goals \subseteq StatesAlong(init, ls)[Len(ls)]
  <2>1. PICK r \in runs[Len(acts)] : r[1] = ls /\ goals \subseteq r[2]
    BY <1>1, <1>2 DEF SegmentRuns
  <2>2. PICK n \in Nat : n = Len(acts)
    OBVIOUS
  <2>3. \A q \in runs[n] : PerformedRun(q, n, init, acts)
    <3>1. GrownTo(runs, n, init, acts)
      BY <1>1, <2>2 DEF GrownTo, SegmentRuns
    <3> QED
      BY <3>1, RunsPerformable
  <2> QED
    BY <2>1, <2>2, <2>3 DEF PerformedRun
<1>3. ASSUME Performable(ls, init, acts), Len(ls) <= Len(acts),
             goals \subseteq StatesAlong(init, ls)[Len(ls)]
      PROVE  ls \in SegmentLayers(init, acts, goals)
  <2>1. PICK r : r = <<ls, StatesAlong(init, ls)[Len(ls)]>>
    OBVIOUS
  <2>2. r \in runs[Len(acts)] /\ r[1] = ls /\ goals \subseteq r[2]
    BY <1>1, <1>3, <2>1, PerformableInRuns DEF SegmentRuns
  <2> QED
    BY <1>1, <2>2 DEF SegmentRuns
<1>4. NoLayers \in SegmentLayers(init, acts, goals)
  BY <1>1 DEF SegmentRuns
<1> QED
  BY <1>2, <1>3, <1>4
==============================================================================
