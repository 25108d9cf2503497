---------------------------- MODULE KnowledgeProofs ----------------------------
(***************************************************************************)
(* Proofs about removeConditionalUnknown and apply_sensing_action: for     *)
(* every set of facts, every backed problem and every plan, whatever order *)
(* the recursion settles the facts in, the expert ends up standing for     *)
(* exactly the worlds that agree with the observations.                    *)
(***************************************************************************)
EXTENDS Knowledge, FiniteSetTheorems, SequenceTheorems, TLAPS

(* The two cardinalities the code asks for.                                *)
LEMMA OneAndMany ==
  ASSUME NEW S \in SUBSET Facts
  PROVE  /\ Cardinality(S) = 1 <=> \E x : S = {x}
         /\ Cardinality(S) > 1 <=> \E x, y \in S : x # y
<1>1. IsFiniteSet(S) /\ Cardinality(S) \in Nat
  BY FS_Subset, FS_CardinalityType, KnowledgeAssumption
<1>2. Cardinality(S) = 0 <=> S = {}
  BY <1>1, FS_EmptySet
<1>3. Cardinality(S) = 1 <=> \E x : S = {x}
  BY <1>1, FS_Singleton
<1>4. Cardinality(S) > 1 <=> Cardinality(S) # 0 /\ Cardinality(S) # 1
  BY <1>1
<1>5. (\E x, y \in S : x # y) <=> S # {} /\ ~\E x : S = {x}
  <2>1. ASSUME NEW x, S = {x} PROVE ~\E y, z \in S : y # z
    BY <2>1
  <2>2. ASSUME S # {}, \A x, y \in S : x = y PROVE \E x : S = {x}
    <3>1. PICK x : x \in S
      BY <2>2
    <3>2. S = {x}
      BY <2>2, <3>1
    <3> QED
      BY <3>2
  <2> QED
    BY <2>1, <2>2
<1> QED
  BY <1>2, <1>3, <1>4, <1>5

(* A world that an expert with these contents allows.                      *)
Fits(w, predicates, unknowns, oneofs) ==
  /\ w \in SUBSET Facts
  /\ predicates \subseteq w
  /\ w \ predicates \subseteq unknowns
  /\ \A o \in oneofs : \E x : w \intersect o = {x}

(* Worlds, without counting.                                               *)
LEMMA WorldsFit ==
  ASSUME NEW e \in Expert, NEW w
  PROVE  w \in Worlds(e) <=> Fits(w, e.predicates, e.unknowns, e.oneofs)
<1>1. \A o \in e.oneofs : o \in SUBSET Facts
  BY DEF Expert
<1>2. ASSUME w \in SUBSET Facts, NEW o \in e.oneofs
      PROVE  Cardinality(w \intersect o) = 1 <=> \E x : w \intersect o = {x}
  <2>1. w \intersect o \in SUBSET Facts
    BY <1>2
  <2> QED
    BY <2>1, OneAndMany
<1> QED
  BY <1>2 DEF Worlds, Fits

(* What settled facts say of a world, the true and the false ones apart.   *)
TrueIn(settled)  == {q \in Facts : <<q, TRUE>> \in settled}
FalseIn(settled) == {q \in Facts : <<q, FALSE>> \in settled}

(* A world agrees with what is settled if it has the facts settled true    *)
(* and none of those settled false.                                        *)
LEMMA SettledIs ==
  ASSUME NEW settled \in SUBSET (Facts \X BOOLEAN), NEW w
  PROVE  (\A k \in settled : k[2] = (k[1] \in w)) <=>
           TrueIn(settled) \subseteq w /\ FalseIn(settled) \intersect w = {}
<1>1. ASSUME \A k \in settled : k[2] = (k[1] \in w), NEW q \in Facts
      PROVE  /\ <<q, TRUE>> \in settled => q \in w
             /\ <<q, FALSE>> \in settled => q \notin w
  <2>1. ASSUME <<q, TRUE>> \in settled PROVE q \in w
    <3>1. <<q, TRUE>>[2] = (<<q, TRUE>>[1] \in w)
      BY <1>1, <2>1
    <3> QED
      BY <3>1
  <2>2. ASSUME <<q, FALSE>> \in settled PROVE q \notin w
    <3>1. <<q, FALSE>>[2] = (<<q, FALSE>>[1] \in w)
      BY <1>1, <2>2
    <3> QED
      BY <3>1
  <2> QED
    BY <2>1, <2>2
<1>2. ASSUME \A q \in Facts : /\ <<q, TRUE>> \in settled => q \in w
                              /\ <<q, FALSE>> \in settled => q \notin w,
             NEW k \in settled
      PROVE  k[2] = (k[1] \in w)
  <2>1. PICK q \in Facts, v \in BOOLEAN : k = <<q, v>>
    OBVIOUS
  <2>2. CASE v = TRUE
    <3>1. k[1] \in w
      BY <1>2, <2>1, <2>2
    <3>2. k[2] = TRUE
      BY <2>1, <2>2
    <3> QED
      BY <3>1, <3>2, Zenon
  <2>3. CASE v = FALSE
    <3>1. ~(k[1] \in w)
      BY <1>2, <2>1, <2>3
    <3>2. k[2] = FALSE
      BY <2>1, <2>3
    <3>3. (k[1] \in w) = FALSE
      BY <3>1
    <3> QED
      BY <3>2, <3>3, Zenon
  <2> QED
    BY <2>1, <2>2, <2>3
<1>3. /\ TrueIn(settled) \subseteq w <=> \A q \in Facts : <<q, TRUE>> \in settled => q \in w
      /\ FalseIn(settled) \intersect w = {} <=>
           \A q \in Facts : <<q, FALSE>> \in settled => q \notin w
  BY Zenon DEF TrueIn, FalseIn
<1> QED
  BY <1>1, <1>2, <1>3, Zenon

(* The same for the worlds that remain of a set of worlds.                 *)
LEMMA AgreeingIs ==
  ASSUME NEW worlds, NEW settled \in SUBSET (Facts \X BOOLEAN), NEW w
  PROVE  w \in Agreeing(worlds, settled) <=>
           w \in worlds /\ TrueIn(settled) \subseteq w /\ FalseIn(settled) \intersect w = {}
BY SettledIs DEF Agreeing

(* The oneofs that list a fact, what is left of them once it is known, the *)
(* facts left alone when it is false, and the oneofs that only lose it.    *)
Listing(O, p)    == {o \in O : p \in o}
Remains(O, p, v) == {Rebuilt(o, p, v) : o \in Listing(O, p)} \ {{}}
Alone(U, O, p)   == {q \in U : {p, q} \in O /\ q # p}
Excluded(U, O, p) == {q \in U : \E o \in O : p \in o /\ q \in o /\ q # p}
Single(S)        == UNION {o \in S : Cardinality(o) = 1}
Several(S)       == {o \in S : Cardinality(o) # 1}
Deduced(O, p, v) == UNION {WillKnow(o, p, v) : o \in Listing(O, p)}
IfTrue(O, p)     == Deduced(O, p, TRUE)
IfFalse(O, p)    == Deduced(O, p, FALSE)
Cut(O, p)        == {o \ {p} : o \in {s \in O : p \in s /\ \A q : s # {p, q}}}

(* A world such an expert allows, with these facts settled true and false. *)
Allowed(w, P, U, O, T, F) == Fits(w, P, U, O) /\ T \subseteq w /\ F \intersect w = {}

(* A fact found true leaves the unknowns and its oneofs with it; the other *)
(* candidates of those oneofs are settled false.                           *)
LEMMA FoundTrue ==
  ASSUME NEW P, NEW U, NEW O, NEW T, NEW F, NEW T2, NEW F2, NEW p,
         UNION O \subseteq U, p \in U, p \in T,
         T \subseteq T2 \union {p}, T2 \subseteq T,
         F2 = F \union Excluded(U, O, p),
         NEW w
  PROVE  Allowed(w, P, U, O, T, F) <=>
           Allowed(w, P \union {p}, U \ {p}, O \ Listing(O, p), T2, F2)
<1> USE DEF Listing, Excluded
<1>1. ASSUME Fits(w, P, U, O), T \subseteq w, F \intersect w = {}
      PROVE  /\ Fits(w, P \union {p}, U \ {p}, O \ Listing(O, p))
             /\ T2 \subseteq w /\ F2 \intersect w = {}
  <2>1. Fits(w, P \union {p}, U \ {p}, O \ Listing(O, p))
    BY <1>1 DEF Fits
  <2>2. ASSUME NEW q \in w, NEW o \in O, p \in o, q \in o PROVE q = p
    <3>1. PICK x : w \intersect o = {x}
      BY <1>1 DEF Fits
    <3> QED
      BY <1>1, <2>2, <3>1
  <2> QED
    BY <1>1, <2>1, <2>2
<1>2. ASSUME Fits(w, P \union {p}, U \ {p}, O \ Listing(O, p)),
             T2 \subseteq w, F2 \intersect w = {}
      PROVE  Fits(w, P, U, O) /\ T \subseteq w /\ F \intersect w = {}
  <2>1. p \in w
    BY <1>2 DEF Fits
  <2>2. ASSUME NEW o \in O PROVE \E x : w \intersect o = {x}
    <3>1. CASE p \notin o
      BY <1>2, <3>1 DEF Fits
    <3>2. CASE p \in o
      <4>1. \A q \in w \intersect o : q = p
        BY <1>2, <3>2
      <4> QED
        BY <2>1, <3>2, <4>1
    <3> QED
      BY <3>1, <3>2
  <2> QED
    BY <1>2, <2>1, <2>2 DEF Fits
<1> QED
  BY <1>1, <1>2 DEF Allowed

(* A fact found false leaves the unknowns and its oneofs; where one other  *)
(* candidate remains, that one is settled true.                            *)
LEMMA FoundFalse ==
  ASSUME NEW P, NEW U, NEW O, NEW T, NEW F, NEW T2, NEW F2, NEW p,
         UNION O \subseteq U, p \in U, p \in F, p \notin P,
         F \subseteq F2 \union {p}, F2 \subseteq F,
         T2 = T \union Alone(U, O, p),
         \A o \in O : \E x \in o : x # p,
         NEW w
  PROVE  Allowed(w, P, U, O, T, F) <=>
           Allowed(w, P \union Alone(U, O, p), U \ {p},
                   (O \ Listing(O, p)) \union Cut(O, p), T2, F2)
<1> DEFINE kept == O \ Listing(O, p)
           cut  == Cut(O, p)
           Q    == Alone(U, O, p)
<1> USE DEF Listing, Alone, Cut
<1>1. ASSUME Fits(w, P, U, O), T \subseteq w, F \intersect w = {}
      PROVE  Fits(w, P \union Q, U \ {p}, kept \union cut) /\ T2 \subseteq w /\ F2 \intersect w = {}
  <2>1. p \notin w
    BY <1>1
  <2>2. Q \subseteq w
    <3> SUFFICES ASSUME NEW q \in Q PROVE q \in w
      OBVIOUS
    <3>1. PICK x : w \intersect {p, q} = {x}
      BY <1>1 DEF Fits
    <3> QED
      BY <2>1, <3>1
  <2>3. ASSUME NEW o \in kept \union cut PROVE \E x : w \intersect o = {x}
    <3>1. CASE o \in kept
      BY <1>1, <3>1 DEF Fits
    <3>2. CASE o \in cut
      <4>1. PICK s \in O : o = s \ {p}
        BY <3>2
      <4>2. w \intersect o = w \intersect s
        BY <2>1, <4>1
      <4> QED
        BY <1>1, <4>2 DEF Fits
    <3> QED
      BY <3>1, <3>2
  <2>4. Fits(w, P \union Q, U \ {p}, kept \union cut)
    <3>1. /\ w \in SUBSET Facts /\ P \union Q \subseteq w
          /\ w \ (P \union Q) \subseteq U \ {p}
      BY <1>1, <2>1, <2>2 DEF Fits
    <3> HIDE DEF kept, cut
    <3> QED
      BY <2>3, <3>1 DEF Fits
  <2> QED
    BY <1>1, <2>2, <2>4
<1>2. ASSUME Fits(w, P \union Q, U \ {p}, kept \union cut), T2 \subseteq w, F2 \intersect w = {}
      PROVE  Fits(w, P, U, O) /\ T \subseteq w /\ F \intersect w = {}
  <2>1. p \notin w
    BY <1>2 DEF Fits
  <2>2. ASSUME NEW o \in O PROVE \E x : w \intersect o = {x}
    <3>1. CASE p \notin o
      BY <1>2, <3>1 DEF Fits
    <3>2. CASE p \in o /\ \A q : o # {p, q}
      <4>1. o \ {p} \in cut
        BY <3>2
      <4>2. PICK x : w \intersect (o \ {p}) = {x}
        BY <1>2, <4>1 DEF Fits
      <4>3. w \intersect o = w \intersect (o \ {p})
        BY <2>1
      <4> QED
        BY <4>2, <4>3
    <3>3. CASE \E q : o = {p, q}
      <4>1. PICK q : o = {p, q}
        BY <3>3
      <4>2. q # p /\ q \in U
        BY <4>1
      <4>3. q \in w
        BY <1>2, <4>1, <4>2
      <4>4. w \intersect o = {q}
        BY <2>1, <4>1, <4>3
      <4> QED
        BY <4>4
    <3> QED
      BY <3>1, <3>2, <3>3
  <2>3. w \in SUBSET Facts /\ P \subseteq w /\ w \ P \subseteq U
    BY <1>2 DEF Fits
  <2>4. Fits(w, P, U, O)
    BY <2>2, <2>3 DEF Fits
  <2> HIDE DEF kept, cut
  <2>5. T \subseteq w /\ F \intersect w = {}
    BY <1>2, <2>1
  <2> QED
    BY <2>4, <2>5
<1> QED
  BY <1>1, <1>2 DEF Allowed
------------------------------------------------------------------------------
(* What the activations below the top one still owe.                       *)
Owed == UNION {PendingOf(calls[i]) : i \in 1..Len(calls) - 1}

(* The call on top, and what is pending apart from it.                     *)
LEMMA TopCall ==
  ASSUME CallsInv, ~Idle
  PROVE  /\ Len(calls) \in Nat \ {0} /\ top \in CallType
         /\ Pending = Owed \union PendingOf(top)
         /\ \A i \in 1..Len(calls) - 1 : calls[i].entered
         /\ ~top.entered => top.will_know = {}
<1>1. Len(calls) \in Nat \ {0} /\ top \in CallType
  BY DEF CallsInv, Idle, top
<1>2. 1..Len(calls) = (1..Len(calls) - 1) \union {Len(calls)}
  BY <1>1
<1>3. Pending = Owed \union PendingOf(top)
  BY <1>2 DEF Pending, Owed, top
<1> QED
  BY <1>1, <1>3 DEF CallsInv, top

(* Pending are facts with a truth value.                                   *)
LEMMA PendingType ==
  ASSUME CallsInv
  PROVE  Pending \in SUBSET (Facts \X BOOLEAN)
<1>1. \A i \in 1..Len(calls) : calls[i] \in CallType
  BY DEF CallsInv
<1> QED
  BY <1>1 DEF Pending, PendingOf, CallType

(* A call returns.                                                         *)
LEMMA Return ==
  ASSUME CallsInv, PropagatesTruth, ~Idle, calls' = Pop, world' = world
  PROVE  CallsInv' /\ PropagatesTruth' /\ Pending' = Owed
<1>1. PICK n \in Nat \ {0} : n = Len(calls)
  BY TopCall
<1>2. calls \in Seq(CallType) /\ \A i \in 1..n - 1 : calls[i].entered
  BY <1>1, TopCall DEF CallsInv
<1>3. /\ calls' \in Seq(CallType) /\ Len(calls') = n - 1
      /\ \A i \in 1..n - 1 : calls'[i] = calls[i]
  <2>1. \A i \in 1..n - 1 : calls[i] \in CallType
    BY <1>1, <1>2
  <2> QED
    BY <1>1, <1>2, <2>1, SubSeqProperties DEF Pop
<1>4. CallsInv'
  BY <1>2, <1>3 DEF CallsInv
<1>5. PropagatesTruth'
  BY <1>1, <1>3 DEF PropagatesTruth
<1>6. Pending' = Owed
  BY <1>1, <1>3 DEF Pending, Owed, PendingOf
<1> QED
  BY <1>4, <1>5, <1>6

(* The locals of the call on top change; perhaps it makes another call.    *)
LEMMA TopChanges ==
  ASSUME CallsInv, ~Idle, NEW call \in CallType, call.entered,
         calls' = [calls EXCEPT ![Len(calls)] = call], PropagatesTruth, world' = world,
         call.known_to_true = (call.fact \in world),
         \A k \in call.will_know : k[2] = (k[1] \in world)
  PROVE  CallsInv' /\ PropagatesTruth' /\ Pending' = Owed \union PendingOf(call)
<1>1. PICK n \in Nat \ {0} : n = Len(calls)
  BY TopCall
<1>2. /\ calls' \in Seq(CallType) /\ Len(calls') = n /\ calls'[n] = call
      /\ \A i \in 1..n - 1 : calls'[i] = calls[i]
  BY <1>1 DEF CallsInv
<1>3. \A i \in 1..n - 1 : calls[i].entered
  BY <1>1, TopCall
<1>4. ASSUME NEW i \in 1..n PROVE i = n \/ i \in 1..n - 1
  OBVIOUS
<1>5. CallsInv'
  BY <1>2, <1>3, <1>4 DEF CallsInv
<1>6. PropagatesTruth'
  BY <1>1, <1>2, <1>4 DEF PropagatesTruth
<1>7. Pending' = Owed \union PendingOf(call)
  <2>1. 1..n = (1..n - 1) \union {n}
    OBVIOUS
  <2>2. Pending' = UNION {PendingOf(calls'[i]) : i \in 1..n}
    BY <1>2 DEF Pending, PendingOf
  <2>3. Owed = UNION {PendingOf(calls'[i]) : i \in 1..n - 1}
    BY <1>1, <1>2 DEF Owed
  <2> QED
    BY <1>2, <2>1, <2>2, <2>3
<1> QED
  BY <1>5, <1>6, <1>7

(* What the activations on a stack owe.                                    *)
Owes(stack) == UNION {PendingOf(stack[i]) : i \in 1..Len(stack)}

(* A recursive call is made.                                               *)
LEMMA Calls ==
  ASSUME NEW stack, stack \in Seq(CallType), \A i \in 1..Len(stack) : stack[i].entered,
         NEW p \in Facts, NEW v \in BOOLEAN, v = (p \in world), world' = world,
         \A i \in 1..Len(stack) : /\ stack[i].known_to_true = (stack[i].fact \in world)
                                  /\ \A k \in stack[i].will_know : k[2] = (k[1] \in world),
         calls' = Append(stack, Call(p, v))
  PROVE  /\ CallsInv' /\ PropagatesTruth'
         /\ Pending' = Owes(stack) \union {<<p, v>>}
<1>1. PICK n \in Nat : n = Len(stack)
  OBVIOUS
<1>2. Call(p, v) \in CallType
  BY DEF Call, CallType
<1>3. /\ calls' \in Seq(CallType) /\ Len(calls') = n + 1 /\ calls'[n + 1] = Call(p, v)
      /\ \A i \in 1..n : calls'[i] = stack[i]
  BY <1>1, <1>2
<1>4. ASSUME NEW i \in 1..n + 1 PROVE i = n + 1 \/ i \in 1..n
  OBVIOUS
<1>5. CallsInv'
  BY <1>1, <1>3, <1>4 DEF CallsInv, Call
<1>6. PropagatesTruth'
  BY <1>1, <1>3, <1>4 DEF PropagatesTruth, Call
<1>7. Pending' = Owes(stack) \union {<<p, v>>}
  <2>1. 1..n + 1 = (1..n) \union {n + 1}
    OBVIOUS
  <2>2. PendingOf(Call(p, v)) = {<<p, v>>}
    BY DEF PendingOf, Call
  <2>3. PICK longer : longer = calls'
    OBVIOUS
  <2>4. Pending' = UNION {PendingOf(longer[i]) : i \in 1..n + 1}
    BY <1>3, <2>3 DEF Pending, PendingOf
  <2>5. /\ PendingOf(longer[n + 1]) = {<<p, v>>}
        /\ \A i \in 1..n : PendingOf(longer[i]) = PendingOf(stack[i])
    BY <1>3, <2>2, <2>3
  <2>6. UNION {PendingOf(longer[i]) : i \in 1..n + 1} =
          (UNION {PendingOf(longer[i]) : i \in 1..n}) \union PendingOf(longer[n + 1])
    BY <2>1
  <2>7. UNION {PendingOf(longer[i]) : i \in 1..n} = UNION {PendingOf(stack[i]) : i \in 1..n}
    BY <2>5
  <2> QED
    BY <1>1, <2>4, <2>5, <2>6, <2>7 DEF Owes
<1> QED
  BY <1>5, <1>6, <1>7
------------------------------------------------------------------------------
(* While the invariant holds, the world is one the expert allows, and what *)
(* is pending is true in it.                                               *)
LEMMA WorldAllowed ==
  ASSUME KnowledgeInv
  PROVE  /\ expert \in Expert
         /\ Fits(world, expert.predicates, expert.unknowns, expert.oneofs)
         /\ \A q \in Facts : /\ <<q, TRUE>> \in Pending => q \in world
                             /\ <<q, FALSE>> \in Pending => q \notin world
<1>1. expert \in Expert /\ world \in Agreeing(Worlds(expert), Pending)
  BY DEF KnowledgeInv, UnknownsInv
<1>2. Pending \in SUBSET (Facts \X BOOLEAN)
  BY PendingType DEF KnowledgeInv
<1>3. world \in Worlds(expert)
  BY <1>1 DEF Agreeing
<1>4. \A q \in Facts : /\ <<q, TRUE>> \in Pending => q \in world
                       /\ <<q, FALSE>> \in Pending => q \notin world
  <2>1. TrueIn(Pending) \subseteq world /\ FalseIn(Pending) \intersect world = {}
    BY <1>1, <1>2, AgreeingIs
  <2> QED
    BY <2>1, Zenon DEF TrueIn, FalseIn
<1>5. Fits(world, expert.predicates, expert.unknowns, expert.oneofs)
  BY <1>1, <1>3, WorldsFit
<1> QED
  BY <1>1, <1>4, <1>5

(* "Conditional not found": the fact was known, and known as it is.        *)
LEMMA UnknownNotFoundKeeps ==
  ASSUME KnowledgeInv, UnknownNotFound
  PROVE  KnowledgeInv'
<1>1. /\ ~Idle /\ ~top.entered /\ top.fact \notin expert.unknowns /\ calls' = Pop
      /\ UNCHANGED <<expert, world, belief>>
  BY DEF UnknownNotFound
<1>2. PICK p, v : p = top.fact /\ v = top.known_to_true
  OBVIOUS
<1>3. /\ top \in CallType /\ Pending = Owed \union {<<p, v>>}
      /\ p \in Facts /\ v \in BOOLEAN /\ v = (p \in world) /\ p \notin expert.unknowns
  <2>1. top \in CallType /\ Pending = Owed \union {<<p, v>>} /\ Len(calls) \in Nat \ {0}
    BY <1>1, <1>2, TopCall DEF KnowledgeInv, PendingOf
  <2>2. v = (p \in world)
    BY <1>2, <2>1 DEF KnowledgeInv, PropagatesTruth, top
  <2> QED
    BY <1>1, <1>2, <2>1, <2>2 DEF CallType
<1>4. CallsInv' /\ PropagatesTruth' /\ Pending' = Owed
  BY <1>1, Return DEF KnowledgeInv
<1>5. Pending \in SUBSET (Facts \X BOOLEAN) /\ Owed \in SUBSET (Facts \X BOOLEAN)
  BY <1>3, PendingType DEF KnowledgeInv
<1>6. UnknownsInv'
  <2>1. ASSUME NEW q \in expert.unknowns, NEW b, <<q, b>> \in Pending
        PROVE  <<q, b>> \in Pending'
    BY <1>3, <1>4, <2>1
  <2>2. UnknownsInv
    BY DEF KnowledgeInv
  <2> QED
    BY <1>1, <2>1, <2>2 DEF UnknownsInv
<1>7. ASSUME NEW w \in Worlds(expert)
      PROVE  p \in w <=> p \in world
  <2>1. Fits(w, expert.predicates, expert.unknowns, expert.oneofs)
    BY <1>7, WorldAllowed, WorldsFit
  <2> QED
    BY <1>3, <2>1, WorldAllowed DEF Fits
<1>8. Agreeing(Worlds(expert), Owed) = Agreeing(Worlds(expert), Pending)
  <2>1. ASSUME NEW w \in Worlds(expert)
        PROVE  (\A k \in Owed : k[2] = (k[1] \in w)) <=> (\A k \in Pending : k[2] = (k[1] \in w))
    <3>1. <<p, v>>[2] = (<<p, v>>[1] \in w)
      BY <1>3, <1>7, <2>1
    <3> QED
      BY <1>3, <3>1
  <2> QED
    BY <2>1 DEF Agreeing
<1>9. belief' = Agreeing(Worlds(expert), Pending)'
  BY <1>1, <1>4, <1>8 DEF KnowledgeInv, Agreeing, Worlds
<1> QED
  BY <1>1, <1>4, <1>6, <1>9 DEF KnowledgeInv

(* A call whose results are all propagated returns.                        *)
LEMMA ReturnFromCallKeeps ==
  ASSUME KnowledgeInv, ReturnFromCall
  PROVE  KnowledgeInv'
<1>1. /\ ~Idle /\ top.entered /\ top.will_know = {} /\ calls' = Pop
      /\ UNCHANGED <<expert, world, belief>>
  BY DEF ReturnFromCall
<1>2. CallsInv' /\ PropagatesTruth' /\ Pending' = Owed
  BY <1>1, Return DEF KnowledgeInv
<1>3. Pending' = Pending
  BY <1>1, <1>2, TopCall DEF KnowledgeInv, PendingOf
<1> QED
  BY <1>1, <1>2, <1>3 DEF KnowledgeInv, UnknownsInv, Agreeing, Worlds

(* One more recursive call: what the loop owes, the call owes now.         *)
LEMMA PropagateNextKeeps ==
  ASSUME KnowledgeInv, PropagateNext
  PROVE  KnowledgeInv'
<1>1. ~Idle /\ top.entered /\ UNCHANGED <<expert, world, belief>>
  BY DEF PropagateNext
<1>2. PICK k \in top.will_know :
        calls' = Append([calls EXCEPT ![Len(calls)].will_know = @ \ {k}], Call(k[1], k[2]))
  BY DEF PropagateNext
<1>3. PICK n \in Nat \ {0} : n = Len(calls)
  BY <1>1, TopCall DEF KnowledgeInv
<1>4. PICK call : call = [top EXCEPT !.will_know = @ \ {k}]
  OBVIOUS
<1>5. PICK stack : stack = [calls EXCEPT ![n] = call]
  OBVIOUS
<1>6. calls' = Append(stack, Call(k[1], k[2]))
  BY <1>2, <1>3, <1>4, <1>5 DEF top
<1>7. /\ top \in CallType /\ calls \in Seq(CallType) /\ Pending = Owed \union top.will_know
      /\ \A i \in 1..n - 1 : calls[i].entered
  BY <1>1, <1>3, TopCall DEF KnowledgeInv, CallsInv, PendingOf
<1>8. /\ call \in CallType /\ call.entered /\ call.will_know = top.will_know \ {k}
      /\ call.fact = top.fact /\ call.known_to_true = top.known_to_true
  BY <1>1, <1>4, <1>7 DEF CallType
<1>9. /\ stack \in Seq(CallType) /\ Len(stack) = n /\ stack[n] = call
      /\ \A i \in 1..n - 1 : stack[i] = calls[i]
  BY <1>3, <1>5, <1>7, <1>8
<1>10. ASSUME NEW i \in 1..n PROVE i = n \/ i \in 1..n - 1
  OBVIOUS
<1>11. \A i \in 1..n : /\ stack[i].known_to_true = (stack[i].fact \in world)
                       /\ \A h \in stack[i].will_know : h[2] = (h[1] \in world)
  <2>1. \A i \in 1..n : /\ calls[i].known_to_true = (calls[i].fact \in world)
                        /\ \A h \in calls[i].will_know : h[2] = (h[1] \in world)
    BY <1>3 DEF KnowledgeInv, PropagatesTruth
  <2> QED
    BY <1>3, <1>8, <1>9, <1>10, <2>1 DEF top
<1>12. PICK p \in Facts, v \in BOOLEAN : k = <<p, v>> /\ v = (p \in world)
  <2>1. k \in Facts \X BOOLEAN
    BY <1>2, <1>7 DEF CallType
  <2>2. k[2] = (k[1] \in world)
    BY <1>2, <1>3 DEF KnowledgeInv, PropagatesTruth, top
  <2> QED
    BY <2>1, <2>2
<1>13. \A i \in 1..n : stack[i].entered
  BY <1>7, <1>8, <1>9, <1>10
<1>14. /\ CallsInv' /\ PropagatesTruth'
       /\ Pending' = (UNION {PendingOf(stack[i]) : i \in 1..n}) \union {k}
  <2>1. calls' = Append(stack, Call(p, v)) /\ world' = world
    BY <1>1, <1>6, <1>12
  <2>2. /\ stack \in Seq(CallType) /\ Len(stack) = n
        /\ \A i \in 1..Len(stack) : stack[i].entered
        /\ \A i \in 1..Len(stack) : /\ stack[i].known_to_true = (stack[i].fact \in world)
                                    /\ \A h \in stack[i].will_know : h[2] = (h[1] \in world)
    BY <1>9, <1>11, <1>13
  <2>3. /\ CallsInv' /\ PropagatesTruth'
        /\ Pending' = Owes(stack) \union {<<p, v>>}
    BY <1>12, <2>1, <2>2, Calls, Zenon
  <2> QED
    BY <1>12, <2>2, <2>3 DEF Owes
<1>15. Pending' = Pending
  <2>1. 1..n = (1..n - 1) \union {n}
    OBVIOUS
  <2>2. Owed = UNION {PendingOf(stack[i]) : i \in 1..n - 1}
    BY <1>3, <1>9 DEF Owed
  <2>3. PendingOf(stack[n]) = top.will_know \ {k}
    BY <1>8, <1>9 DEF PendingOf
  <2>4. UNION {PendingOf(stack[i]) : i \in 1..n} =
          (UNION {PendingOf(stack[i]) : i \in 1..n - 1}) \union PendingOf(stack[n])
    BY <2>1
  <2> QED
    BY <1>2, <1>7, <1>14, <2>2, <2>3, <2>4
<1> QED
  BY <1>1, <1>14, <1>15 DEF KnowledgeInv, UnknownsInv, Agreeing, Worlds
------------------------------------------------------------------------------
(* UnknownsInv, of contents that may not be those of the expert, with the  *)
(* facts T pending as true and F pending as false.                         *)
Accounted(P, U, O, T, F) ==
  /\ UNION O \subseteq U
  /\ \A o \in O : Cardinality(o) > 1
  /\ U \intersect P \subseteq T
  /\ U \ UNION O \subseteq (T \intersect P) \union F

(* After a fact is found true: the other candidates of its oneofs are      *)
(* pending as false.                                                       *)
LEMMA AccountedTrue ==
  ASSUME NEW P, NEW U, NEW O, NEW p, NEW T, NEW F, NEW T2, NEW F2,
         Accounted(P, U, O, T, F), T = T2 \union {p}, F2 = F \union Excluded(U, O, p)
  PROVE  Accounted(P \union {p}, U \ {p}, O \ Listing(O, p), T2, F2)
<1>1. (U \ {p}) \intersect (P \union {p}) \subseteq T2
  BY DEF Accounted
<1>2. ASSUME NEW q \in (U \ {p}) \ UNION (O \ Listing(O, p))
      PROVE  q \in (T2 \intersect (P \union {p})) \union F2
  <2>1. CASE q \in UNION O
    <3>1. PICK o \in O : q \in o
      BY <2>1
    <3>2. p \in o /\ q \in U /\ q # p
      BY <1>2, <3>1 DEF Listing
    <3> QED
      BY <3>1, <3>2 DEF Excluded
  <2>2. CASE q \notin UNION O
    <3>1. q \in (T \intersect P) \union F
      BY <1>2, <2>2 DEF Accounted
    <3> QED
      BY <1>2, <3>1
  <2> QED
    BY <2>1, <2>2
<1>3. UNION (O \ Listing(O, p)) \subseteq U \ {p}
  BY DEF Accounted, Listing
<1>4. \A o \in O \ Listing(O, p) : Cardinality(o) > 1
  BY DEF Accounted
<1> QED
  BY <1>1, <1>2, <1>3, <1>4, Zenon DEF Accounted

(* After a fact is found false: a candidate left alone is a predicate and  *)
(* pending as true.                                                        *)
LEMMA AccountedFalse ==
  ASSUME NEW P, NEW U, NEW O \in SUBSET SUBSET Facts, NEW p, NEW T, NEW F, NEW T2, NEW F2,
         Accounted(P, U, O, T, F), F = F2 \union {p}, T2 = T \union Alone(U, O, p),
         \A o \in O : \E x \in o : x # p
  PROVE  Accounted(P \union Alone(U, O, p), U \ {p}, (O \ Listing(O, p)) \union Cut(O, p), T2, F2)
<1>1. (U \ {p}) \intersect (P \union Alone(U, O, p)) \subseteq T2
  BY DEF Accounted
<1>2. ASSUME NEW q \in (U \ {p}) \ UNION ((O \ Listing(O, p)) \union Cut(O, p))
      PROVE  q \in (T2 \intersect (P \union Alone(U, O, p))) \union F2
  <2>1. CASE q \in UNION O
    <3>1. PICK o \in O : q \in o
      BY <2>1
    <3>2. p \in o /\ q \in U /\ q # p
      BY <1>2, <3>1 DEF Listing
    <3>3. PICK r : o = {p, r}
      <4>1. ASSUME \A r : o # {p, r} PROVE FALSE
        <5>1. o \ {p} \in Cut(O, p)
          BY <3>2, <4>1 DEF Cut
        <5> QED
          BY <1>2, <3>1, <3>2, <5>1
      <4> QED
        BY <4>1
    <3>4. q \in Alone(U, O, p)
      BY <3>1, <3>2, <3>3 DEF Alone
    <3> QED
      BY <3>4
  <2>2. CASE q \notin UNION O
    <3>1. q \in (T \intersect P) \union F
      BY <1>2, <2>2 DEF Accounted
    <3> QED
      BY <1>2, <3>1
  <2> QED
    BY <2>1, <2>2
<1>3. UNION ((O \ Listing(O, p)) \union Cut(O, p)) \subseteq U \ {p}
  BY DEF Accounted, Listing, Cut
<1>4. ASSUME NEW o \in (O \ Listing(O, p)) \union Cut(O, p) PROVE Cardinality(o) > 1
  <2>1. CASE o \in O
    BY <2>1 DEF Accounted
  <2>2. CASE o \in Cut(O, p)
    <3>1. PICK s \in O : p \in s /\ o = s \ {p} /\ \A q : s # {p, q}
      BY <2>2 DEF Cut
    <3>2. PICK x \in s : x # p
      BY <3>1
    <3>3. PICK y \in s : y # p /\ y # x
      <4>1. s # {p, x} /\ p \in s /\ x \in s
        BY <3>1, <3>2
      <4>2. ASSUME \A y \in s : y = p \/ y = x PROVE s = {p, x}
        BY <4>1, <4>2
      <4> QED
        BY <4>1, <4>2
    <3>4. o \in SUBSET Facts /\ x \in o /\ y \in o
      BY <3>1, <3>2, <3>3
    <3>5. o \in SUBSET Facts /\ \E a, b \in o : a # b
      BY <3>3, <3>4
    <3> QED
      BY <3>5, OneAndMany, Zenon
  <2> QED
    BY <1>4, <2>1, <2>2
<1> QED
  BY <1>1, <1>2, <1>3, <1>4, Zenon DEF Accounted

(* What the scan leaves of the oneofs that list a true fact.               *)
LEMMA RemainsTrue ==
  ASSUME NEW O, NEW p \in Facts
  PROVE  /\ Single(Remains(O, p, TRUE)) = IF Listing(O, p) = {} THEN {} ELSE {p}
         /\ Several(Remains(O, p, TRUE)) = {}
<1>1. \A o \in Remains(O, p, TRUE) : o = {p}
  BY DEF Remains, Rebuilt
<1>2. Listing(O, p) # {} => {p} \in Remains(O, p, TRUE)
  BY DEF Remains, Rebuilt
<1>3. Cardinality({p}) = 1
  BY OneAndMany
<1>4. \A o \in Remains(O, p, TRUE) : Cardinality(o) = 1
  BY <1>1, <1>3
<1>5. /\ {o \in Remains(O, p, TRUE) : Cardinality(o) # 1} = {}
      /\ {o \in Remains(O, p, TRUE) : Cardinality(o) = 1} = Remains(O, p, TRUE)
  BY <1>4, Zenon
<1>6. UNION Remains(O, p, TRUE) = IF Listing(O, p) = {} THEN {} ELSE {p}
  <2>1. CASE Listing(O, p) = {}
    <3>1. Remains(O, p, TRUE) = {}
      BY <2>1 DEF Remains
    <3> QED
      BY <2>1, <3>1
  <2>2. CASE Listing(O, p) # {}
    <3>1. UNION Remains(O, p, TRUE) = {p}
      BY <1>1, <1>2, <2>2
    <3> QED
      BY <2>2, <3>1
  <2> QED
    BY <2>1, <2>2
<1> QED
  BY <1>5, <1>6 DEF Single, Several

(* What it leaves of the oneofs that list a false one.                     *)
LEMMA RemainsFalse ==
  ASSUME NEW U, NEW O \in SUBSET SUBSET Facts, NEW p,
         UNION O \subseteq U, \A o \in O : \E x \in o : x # p
  PROVE  /\ Single(Remains(O, p, FALSE)) = Alone(U, O, p)
         /\ Several(Remains(O, p, FALSE)) = Cut(O, p)
<1>1. Remains(O, p, FALSE) = {o \ {p} : o \in Listing(O, p)}
  <2>1. \A o \in Listing(O, p) : o \ {p} # {}
    BY DEF Listing
  <2> QED
    BY <2>1 DEF Remains, Rebuilt
<1>2. ASSUME NEW o \in Listing(O, p)
      PROVE  Cardinality(o \ {p}) = 1 <=> \E q : o = {p, q}
  <2>1. o \ {p} \in SUBSET Facts
    BY DEF Listing
  <2>2. Cardinality(o \ {p}) = 1 <=> \E q : o \ {p} = {q}
    BY <2>1, OneAndMany
  <2>3. ASSUME NEW q, o \ {p} = {q} PROVE o = {p, q}
    BY <2>3 DEF Listing
  <2>4. ASSUME NEW q, o = {p, q} PROVE o \ {p} = {q}
    <3>1. q # p
      BY <2>4 DEF Listing
    <3> QED
      BY <2>4, <3>1
  <2> QED
    BY <2>2, <2>3, <2>4
<1>3. UNION {o \in Remains(O, p, FALSE) : Cardinality(o) = 1} = Alone(U, O, p)
  <2>1. ASSUME NEW q \in UNION {o \in Remains(O, p, FALSE) : Cardinality(o) = 1}
        PROVE  q \in Alone(U, O, p)
    <3>1. PICK s \in Listing(O, p) : q \in s \ {p} /\ Cardinality(s \ {p}) = 1
      BY <1>1, <2>1
    <3>2. PICK r : s = {p, r}
      BY <1>2, <3>1
    <3> QED
      BY <3>1, <3>2 DEF Alone, Listing
  <2>2. ASSUME NEW q \in Alone(U, O, p)
        PROVE  q \in UNION {o \in Remains(O, p, FALSE) : Cardinality(o) = 1}
    <3>1. {p, q} \in Listing(O, p) /\ q \in {p, q} \ {p}
      BY <2>2 DEF Alone, Listing
    <3>2. {p, q} \ {p} \in Remains(O, p, FALSE) /\ Cardinality({p, q} \ {p}) = 1
      BY <1>1, <1>2, <3>1
    <3> QED
      BY <3>1, <3>2
  <2> QED
    BY <2>1, <2>2
<1>4. {o \in Remains(O, p, FALSE) : Cardinality(o) # 1} = Cut(O, p)
  <2>1. {s \in O : p \in s /\ \A q : s # {p, q}} =
          {s \in Listing(O, p) : Cardinality(s \ {p}) # 1}
    BY <1>2 DEF Listing
  <2>2. {o \in {s \ {p} : s \in Listing(O, p)} : Cardinality(o) # 1} =
          {s \ {p} : s \in {r \in Listing(O, p) : Cardinality(r \ {p}) # 1}}
    OBVIOUS
  <2> QED
    BY <1>1, <2>1, <2>2 DEF Cut
<1> QED
  BY <1>3, <1>4 DEF Single, Several

(* An expert with these contents, and the worlds it leaves possible.       *)
ExpertOf(P, U, O) == [predicates |-> P, unknowns |-> U, oneofs |-> O]
BelievedOf(P, U, O, pending) == Agreeing(Worlds(ExpertOf(P, U, O)), pending)

(* What becomes known through the oneofs of a fact.                        *)
LEMMA DeducedIs ==
  ASSUME NEW U \in SUBSET Facts, NEW O, NEW p, UNION O \subseteq U, \A o \in O : \E x \in o : x # p
  PROVE  /\ IfTrue(O, p) \in SUBSET (Facts \X BOOLEAN)
         /\ TrueIn(IfTrue(O, p)) = {} /\ FalseIn(IfTrue(O, p)) = Excluded(U, O, p)
         /\ IfFalse(O, p) \in SUBSET (Facts \X BOOLEAN)
         /\ TrueIn(IfFalse(O, p)) = Alone(U, O, p) /\ FalseIn(IfFalse(O, p)) = {}
<1>1. ASSUME NEW k
      PROVE  k \in Deduced(O, p, TRUE) <=>
               \E q \in U : k = <<q, FALSE>> /\ \E o \in O : p \in o /\ q \in o /\ q # p
  <2>1. k \in Deduced(O, p, TRUE) <=> \E o \in Listing(O, p) : k \in WillKnow(o, p, TRUE)
    BY DEF Deduced
  <2>2. \A o : k \in WillKnow(o, p, TRUE) <=> \E q \in o \ {p} : k = <<q, FALSE>>
    BY DEF WillKnow
  <2>3. ASSUME NEW q \in U, k = <<q, FALSE>>, NEW o \in O, p \in o, q \in o, q # p
        PROVE  k \in Deduced(O, p, TRUE)
    <3>1. o \in Listing(O, p) /\ q \in o \ {p}
      BY <2>3 DEF Listing
    <3> QED
      BY <2>1, <2>2, <2>3, <3>1
  <2>4. ASSUME k \in Deduced(O, p, TRUE)
        PROVE  \E q \in U : k = <<q, FALSE>> /\ \E o \in O : p \in o /\ q \in o /\ q # p
    <3>1. PICK o \in Listing(O, p) : k \in WillKnow(o, p, TRUE)
      BY <2>1, <2>4
    <3>2. PICK q \in o \ {p} : k = <<q, FALSE>>
      BY <2>2, <3>1
    <3>3. o \in O /\ p \in o /\ q \in U
      BY <3>1 DEF Listing
    <3> QED
      BY <3>2, <3>3
  <2> QED
    BY <2>3, <2>4
<1>2. ASSUME NEW k
      PROVE  k \in Deduced(O, p, FALSE) <=> \E q \in Alone(U, O, p) : k = <<q, TRUE>>
  <2>1. k \in Deduced(O, p, FALSE) <=> \E o \in Listing(O, p) : k \in WillKnow(o, p, FALSE)
    BY DEF Deduced
  <2>2. \A o : k \in WillKnow(o, p, FALSE) <=>
                 \E q \in o : o = {p, q} /\ q # p /\ k = <<q, TRUE>>
    BY DEF WillKnow
  <2>3. ASSUME NEW q
        PROVE  q \in Alone(U, O, p) <=>
                 \E o \in Listing(O, p) : q \in o /\ o = {p, q} /\ q # p
    <3>1. ASSUME q \in Alone(U, O, p)
          PROVE  {p, q} \in Listing(O, p) /\ q \in {p, q} /\ q # p
      BY <3>1 DEF Alone, Listing
    <3>2. ASSUME NEW o \in Listing(O, p), q \in o, o = {p, q}, q # p
          PROVE  q \in Alone(U, O, p)
      BY <3>2 DEF Alone, Listing
    <3> QED
      BY <3>1, <3>2
  <2>4. ASSUME k \in Deduced(O, p, FALSE) PROVE \E q \in Alone(U, O, p) : k = <<q, TRUE>>
    <3>1. PICK o \in Listing(O, p) : k \in WillKnow(o, p, FALSE)
      BY <2>1, <2>4
    <3>2. PICK q \in o : o = {p, q} /\ q # p /\ k = <<q, TRUE>>
      BY <2>2, <3>1
    <3> QED
      BY <2>3, <3>1, <3>2
  <2>5. ASSUME NEW q \in Alone(U, O, p), k = <<q, TRUE>> PROVE k \in Deduced(O, p, FALSE)
    <3>1. PICK o \in Listing(O, p) : q \in o /\ o = {p, q} /\ q # p
      BY <2>3, <2>5
    <3> QED
      BY <2>1, <2>2, <2>5, <3>1
  <2> QED
    BY <2>4, <2>5
<1>3. IfTrue(O, p) \in SUBSET (Facts \X BOOLEAN)
  <2> SUFFICES ASSUME NEW k \in IfTrue(O, p) PROVE k \in Facts \X BOOLEAN
    OBVIOUS
  <2>1. PICK q \in U : k = <<q, FALSE>>
    BY <1>1, Zenon DEF IfTrue
  <2>2. q \in Facts /\ FALSE \in BOOLEAN
    OBVIOUS
  <2> QED
    BY <2>1, <2>2, Zenon
<1>4. IfFalse(O, p) \in SUBSET (Facts \X BOOLEAN)
  <2> SUFFICES ASSUME NEW k \in IfFalse(O, p) PROVE k \in Facts \X BOOLEAN
    OBVIOUS
  <2>1. PICK q \in Alone(U, O, p) : k = <<q, TRUE>>
    BY <1>2, Zenon DEF IfFalse
  <2>2. q \in Facts /\ TRUE \in BOOLEAN
    BY DEF Alone
  <2> QED
    BY <2>1, <2>2, Zenon
<1>5. ASSUME NEW q \in Facts
      PROVE  /\ <<q, TRUE>> \notin IfTrue(O, p)
             /\ <<q, FALSE>> \in IfTrue(O, p) <=> q \in Excluded(U, O, p)
  <2>2. <<q, TRUE>> \notin IfTrue(O, p)
    <3>1. \A r : <<q, TRUE>> # <<r, FALSE>>
      OBVIOUS
    <3> QED
      BY <1>1, <3>1, Zenon DEF IfTrue
  <2>3. ASSUME <<q, FALSE>> \in IfTrue(O, p) PROVE q \in Excluded(U, O, p)
    <3>1. PICK r \in U : <<q, FALSE>> = <<r, FALSE>> /\ \E o \in O : p \in o /\ r \in o /\ r # p
      BY <1>1, <2>3, Zenon DEF IfTrue
    <3> QED
      BY <3>1 DEF Excluded
  <2>4. ASSUME q \in Excluded(U, O, p) PROVE <<q, FALSE>> \in IfTrue(O, p)
    <3>1. q \in U /\ \E o \in O : p \in o /\ q \in o /\ q # p
      BY <2>4 DEF Excluded
    <3> QED
      BY <1>1, <3>1, Zenon DEF IfTrue
  <2> QED
    BY <2>2, <2>3, <2>4
<1>6. ASSUME NEW q \in Facts
      PROVE  /\ <<q, FALSE>> \notin IfFalse(O, p)
             /\ <<q, TRUE>> \in IfFalse(O, p) <=> q \in Alone(U, O, p)
  <2>1. <<q, FALSE>> \notin IfFalse(O, p)
    <3>1. \A r : <<q, FALSE>> # <<r, TRUE>>
      OBVIOUS
    <3> QED
      BY <1>2, <3>1, Zenon DEF IfFalse
  <2>2. ASSUME <<q, TRUE>> \in IfFalse(O, p) PROVE q \in Alone(U, O, p)
    <3>1. PICK r \in Alone(U, O, p) : <<q, TRUE>> = <<r, TRUE>>
      BY <1>2, <2>2, Zenon DEF IfFalse
    <3> QED
      BY <3>1
  <2>3. ASSUME q \in Alone(U, O, p) PROVE <<q, TRUE>> \in IfFalse(O, p)
    BY <1>2, <2>3, Zenon DEF IfFalse
  <2> QED
    BY <2>1, <2>2, <2>3
<1>7. Excluded(U, O, p) \subseteq Facts /\ Alone(U, O, p) \subseteq Facts
  BY DEF Excluded, Alone
<1>8. TrueIn(IfTrue(O, p)) = {} /\ FalseIn(IfTrue(O, p)) = Excluded(U, O, p)
  BY <1>5, <1>7 DEF TrueIn, FalseIn
<1>9. TrueIn(IfFalse(O, p)) = Alone(U, O, p) /\ FalseIn(IfFalse(O, p)) = {}
  BY <1>6, <1>7 DEF TrueIn, FalseIn
<1> QED
  BY <1>3, <1>4, <1>8, <1>9

(* A world agrees with the settled facts of an expert with these contents. *)
LEMMA BelievedIs ==
  ASSUME NEW e \in Expert, NEW pending \in SUBSET (Facts \X BOOLEAN), NEW w
  PROVE  w \in Agreeing(Worlds(e), pending) <=>
           /\ Fits(w, e.predicates, e.unknowns, e.oneofs)
           /\ TrueIn(pending) \subseteq w /\ FalseIn(pending) \intersect w = {}
BY AgreeingIs, WorldsFit

(* Facts settled true and false, of a union and of a single observation.   *)
LEMMA InUnion ==
  ASSUME NEW S, NEW T
  PROVE  /\ TrueIn(S \union T) = TrueIn(S) \union TrueIn(T)
         /\ FalseIn(S \union T) = FalseIn(S) \union FalseIn(T)
BY DEF TrueIn, FalseIn

(* What a set of one literal says.                                         *)
LEMMA InSingle ==
  ASSUME NEW p \in Facts, NEW t, t = {<<p, TRUE>>}, NEW f, f = {<<p, FALSE>>}
  PROVE  /\ TrueIn(t) = {p} /\ FalseIn(t) = {}
         /\ TrueIn(f) = {} /\ FalseIn(f) = {p}
<1>1. \A q \in Facts : <<q, TRUE>> # <<p, FALSE>> /\ <<q, FALSE>> # <<p, TRUE>>
  OBVIOUS
<1>2. \A q \in Facts : /\ <<q, TRUE>> = <<p, TRUE>> <=> q = p
                       /\ <<q, FALSE>> = <<p, FALSE>> <=> q = p
  OBVIOUS
<1>3. \A q \in Facts : /\ <<q, TRUE>> \in t <=> q = p
                       /\ <<q, FALSE>> \notin t
                       /\ <<q, FALSE>> \in f <=> q = p
                       /\ <<q, TRUE>> \notin f
  BY <1>1, <1>2, Zenon
<1> QED
  BY <1>3 DEF TrueIn, FalseIn

(* What is deduced from a fact that is as it is found holds in the world.  *)
LEMMA DeducedHolds ==
  ASSUME NEW w, NEW U, NEW O, NEW p, \A o \in O : \E x : w \intersect o = {x}
  PROVE  /\ p \in w => Excluded(U, O, p) \intersect w = {}
         /\ p \notin w => Alone(U, O, p) \subseteq w
<1>1. ASSUME p \in w, NEW q \in Excluded(U, O, p) PROVE q \notin w
  <2>1. PICK o \in O : p \in o /\ q \in o /\ q # p
    BY <1>1 DEF Excluded
  <2>2. PICK x : w \intersect o = {x}
    BY <2>1
  <2> QED
    BY <1>1, <2>1, <2>2
<1>2. ASSUME p \notin w, NEW q \in Alone(U, O, p) PROVE q \in w
  <2>1. {p, q} \in O
    BY <1>2 DEF Alone
  <2>2. PICK x : w \intersect {p, q} = {x}
    BY <2>1
  <2> QED
    BY <1>2, <2>2
<1> QED
  BY <1>1, <1>2

(* The unknown p of an expert with contents P, U and O, and what is settled *)
(* before and after it is found; the contents P2, U2 and O2 of an expert    *)
(* that, with what is settled later, allows the same worlds.                *)
Finding(P, U, O, p, pending, later) ==
  /\ P \in SUBSET Facts /\ U \in SUBSET Facts /\ O \in SUBSET SUBSET Facts
  /\ p \in U /\ UNION O \subseteq U
  /\ pending \in SUBSET (Facts \X BOOLEAN) /\ later \in SUBSET (Facts \X BOOLEAN)

SameBelief(P, U, O, pending, P2, U2, O2, later) ==
  /\ ExpertOf(P2, U2, O2) \in Expert
  /\ BelievedOf(P2, U2, O2, later) = BelievedOf(P, U, O, pending)

(* The worlds an expert allows, before and after a fact is found true.     *)
LEMMA SettleTrue ==
  ASSUME NEW P, NEW U, NEW O, NEW p, NEW pending, NEW later,
         Finding(P, U, O, p, pending, later),
         TrueIn(pending) = TrueIn(later) \union {p},
         FalseIn(later) = FalseIn(pending) \union Excluded(U, O, p)
  PROVE  SameBelief(P, U, O, pending, P \union {p}, U \ {p}, O \ Listing(O, p), later)
<1>0. /\ P \in SUBSET Facts /\ U \in SUBSET Facts /\ O \in SUBSET SUBSET Facts
      /\ p \in U /\ UNION O \subseteq U
      /\ pending \in SUBSET (Facts \X BOOLEAN) /\ later \in SUBSET (Facts \X BOOLEAN)
  BY DEF Finding
<1>1. PICK e, after : /\ e = ExpertOf(P, U, O)
                      /\ after = ExpertOf(P \union {p}, U \ {p}, O \ Listing(O, p))
  OBVIOUS
<1>2. e \in Expert /\ after \in Expert
  BY <1>0, <1>1 DEF Expert, ExpertOf
<1>3. /\ e.predicates = P /\ e.unknowns = U /\ e.oneofs = O
      /\ after.predicates = P \union {p} /\ after.unknowns = U \ {p}
      /\ after.oneofs = O \ Listing(O, p)
  BY <1>1 DEF ExpertOf
<1>4. ASSUME NEW w
      PROVE  w \in Agreeing(Worlds(after), later) <=> w \in Agreeing(Worlds(e), pending)
  <2>1. w \in Agreeing(Worlds(e), pending) <=>
          Fits(w, P, U, O) /\ TrueIn(pending) \subseteq w /\ FalseIn(pending) \intersect w = {}
    BY <1>0, <1>2, <1>3, BelievedIs
  <2>2. w \in Agreeing(Worlds(after), later) <=>
          /\ Fits(w, P \union {p}, U \ {p}, O \ Listing(O, p))
          /\ TrueIn(later) \subseteq w /\ FalseIn(later) \intersect w = {}
    <3>1. w \in Agreeing(Worlds(after), later) <=>
            /\ Fits(w, after.predicates, after.unknowns, after.oneofs)
            /\ TrueIn(later) \subseteq w /\ FalseIn(later) \intersect w = {}
      BY <1>0, <1>2, BelievedIs
    <3> QED
      BY <1>3, <3>1, Zenon
  <2>3. FalseIn(later) = FalseIn(pending) \union Excluded(U, O, p)
    OBVIOUS
  <2>4. /\ p \in TrueIn(pending) /\ TrueIn(pending) \subseteq TrueIn(later) \union {p}
        /\ TrueIn(later) \subseteq TrueIn(pending)
    OBVIOUS
  <2> QED
    <3>1. PICK T, F, T2, F2 : /\ T = TrueIn(pending) /\ F = FalseIn(pending)
                              /\ T2 = TrueIn(later) /\ F2 = FalseIn(later)
      OBVIOUS
    <3>2. /\ p \in T /\ T \subseteq T2 \union {p} /\ T2 \subseteq T
          /\ F2 = F \union Excluded(U, O, p)
      BY <2>3, <2>4, <3>1
    <3>3. Allowed(w, P, U, O, T, F) <=>
            Allowed(w, P \union {p}, U \ {p}, O \ Listing(O, p), T2, F2)
      BY <1>0, <3>2, FoundTrue
    <3> QED
      BY <2>1, <2>2, <3>1, <3>3, Zenon DEF Allowed
<1> QED
  BY <1>1, <1>2, <1>4 DEF SameBelief, BelievedOf, Agreeing

(* The worlds an expert allows, before and after a fact is found false.    *)
LEMMA SettleFalse ==
  ASSUME NEW P, NEW U, NEW O, NEW p, NEW pending, NEW later,
         Finding(P, U, O, p, pending, later),
         p \notin P, \A o \in O : \E x \in o : x # p,
         FalseIn(pending) = FalseIn(later) \union {p},
         TrueIn(later) = TrueIn(pending) \union Alone(U, O, p)
  PROVE  SameBelief(P, U, O, pending, P \union Alone(U, O, p), U \ {p},
                    (O \ Listing(O, p)) \union Cut(O, p), later)
<1>0. /\ P \in SUBSET Facts /\ U \in SUBSET Facts /\ O \in SUBSET SUBSET Facts
      /\ p \in U /\ UNION O \subseteq U
      /\ pending \in SUBSET (Facts \X BOOLEAN) /\ later \in SUBSET (Facts \X BOOLEAN)
  BY DEF Finding
<1>1. PICK e, after : /\ e = ExpertOf(P, U, O)
                      /\ after = ExpertOf(P \union Alone(U, O, p), U \ {p},
                                          (O \ Listing(O, p)) \union Cut(O, p))
  OBVIOUS
<1>2. e \in Expert /\ after \in Expert
  <2>1. Alone(U, O, p) \subseteq Facts /\ Cut(O, p) \in SUBSET SUBSET Facts
    BY <1>0 DEF Alone, Cut
  <2> QED
    BY <1>0, <1>1, <2>1 DEF Expert, ExpertOf
<1>3. /\ e.predicates = P /\ e.unknowns = U /\ e.oneofs = O
      /\ after.predicates = P \union Alone(U, O, p) /\ after.unknowns = U \ {p}
      /\ after.oneofs = (O \ Listing(O, p)) \union Cut(O, p)
  BY <1>1 DEF ExpertOf
<1>4. ASSUME NEW w
      PROVE  w \in Agreeing(Worlds(after), later) <=> w \in Agreeing(Worlds(e), pending)
  <2>1. w \in Agreeing(Worlds(e), pending) <=>
          Fits(w, P, U, O) /\ TrueIn(pending) \subseteq w /\ FalseIn(pending) \intersect w = {}
    BY <1>0, <1>2, <1>3, BelievedIs
  <2>2. w \in Agreeing(Worlds(after), later) <=>
          /\ Fits(w, P \union Alone(U, O, p), U \ {p}, (O \ Listing(O, p)) \union Cut(O, p))
          /\ TrueIn(later) \subseteq w /\ FalseIn(later) \intersect w = {}
    <3>1. w \in Agreeing(Worlds(after), later) <=>
            /\ Fits(w, after.predicates, after.unknowns, after.oneofs)
            /\ TrueIn(later) \subseteq w /\ FalseIn(later) \intersect w = {}
      BY <1>0, <1>2, BelievedIs
    <3> QED
      BY <1>3, <3>1, Zenon
  <2>3. /\ p \in FalseIn(pending) /\ FalseIn(pending) \subseteq FalseIn(later) \union {p}
        /\ FalseIn(later) \subseteq FalseIn(pending)
    OBVIOUS
  <2> QED
    <3>1. PICK T, F, T2, F2 : /\ T = TrueIn(pending) /\ F = FalseIn(pending)
                              /\ T2 = TrueIn(later) /\ F2 = FalseIn(later)
      OBVIOUS
    <3>2. /\ p \in F /\ F \subseteq F2 \union {p} /\ F2 \subseteq F
          /\ T2 = T \union Alone(U, O, p)
      BY <2>3, <3>1
    <3>3. Allowed(w, P, U, O, T, F) <=>
            Allowed(w, P \union Alone(U, O, p), U \ {p},
                    (O \ Listing(O, p)) \union Cut(O, p), T2, F2)
      BY <1>0, <3>2, FoundFalse
    <3> QED
      BY <2>1, <2>2, <3>1, <3>3, Zenon DEF Allowed
<1> QED
  BY <1>1, <1>2, <1>4 DEF SameBelief, BelievedOf, Agreeing

(* UnknownsInv, with what is settled split into true and false facts.      *)
LEMMA UnknownsInvIs ==
  UnknownsInv <=>
    /\ expert \in Expert
    /\ Accounted(expert.predicates, expert.unknowns, expert.oneofs,
                 TrueIn(Pending), FalseIn(Pending))
<1>1. ASSUME expert \in Expert, NEW q \in expert.unknowns
      PROVE  /\ <<q, TRUE>> \in Pending <=> q \in TrueIn(Pending)
             /\ <<q, FALSE>> \in Pending <=> q \in FalseIn(Pending)
  <2>1. q \in Facts
    BY <1>1 DEF Expert
  <2> QED
    BY <2>1, Zenon DEF TrueIn, FalseIn
<1>2. ASSUME expert \in Expert
      PROVE  /\ (\A p \in expert.unknowns \intersect expert.predicates : <<p, TRUE>> \in Pending)
                <=> expert.unknowns \intersect expert.predicates \subseteq TrueIn(Pending)
             /\ (\A p \in expert.unknowns \ UNION expert.oneofs :
                   \/ <<p, TRUE>> \in Pending /\ p \in expert.predicates
                   \/ <<p, FALSE>> \in Pending)
                <=> expert.unknowns \ UNION expert.oneofs \subseteq
                      (TrueIn(Pending) \intersect expert.predicates) \union FalseIn(Pending)
  BY <1>1, <1>2, Zenon
<1> QED
  BY <1>2, Zenon DEF UnknownsInv, Accounted

(* What a call that finds its fact among the unknowns deduces and settles. *)
LEMMA RemoveUnknownKeeps ==
  ASSUME KnowledgeInv, RemoveUnknown
  PROVE  KnowledgeInv'
<1>1. ~Idle /\ ~top.entered /\ UNCHANGED <<world, belief>>
  BY DEF RemoveUnknown
<1>2. PICK p, v : p = top.fact /\ v = top.known_to_true
  OBVIOUS
<1>3. PICK P, U, O : P = expert.predicates /\ U = expert.unknowns /\ O = expert.oneofs
  OBVIOUS
<1>4. PICK known : known = Deduced(O, p, v)
  OBVIOUS
<1>5. PICK owed, pending, later : owed = Owed /\ pending = Pending /\ later = owed \union known
  OBVIOUS
<1>6. /\ p \in Facts /\ p \in U /\ v \in BOOLEAN /\ v = (p \in world)
      /\ P \in SUBSET Facts /\ U \in SUBSET Facts
      /\ O \in SUBSET SUBSET Facts /\ UNION O \subseteq U
      /\ \A o \in O : \E x \in o : x # p
  <2>1. top \in CallType /\ Len(calls) \in 1..Len(calls)
    BY <1>1, TopCall DEF KnowledgeInv
  <2>2. p \in Facts /\ p \in U /\ v \in BOOLEAN
    BY <1>2, <1>3, <2>1 DEF RemoveUnknown, CallType
  <2>3. v = (p \in world)
    BY <1>2, <2>1 DEF KnowledgeInv, PropagatesTruth, top
  <2>4. /\ P \in SUBSET Facts /\ U \in SUBSET Facts
        /\ O \in SUBSET SUBSET Facts /\ UNION O \subseteq U
        /\ \A o \in O : Cardinality(o) > 1
    BY <1>3 DEF KnowledgeInv, UnknownsInv, Expert
  <2>5. ASSUME NEW o \in O PROVE \E x \in o : x # p
    <3>1. Cardinality(o) > 1 /\ o \in SUBSET Facts
      BY <2>4
    <3> QED
      BY <3>1, OneAndMany
  <2> QED
    BY <2>2, <2>3, <2>4, <2>5
<1>7. PICK e : e = expert
  OBVIOUS
<1>8. e = ExpertOf(P, U, O)
  BY <1>3, <1>7 DEF KnowledgeInv, UnknownsInv, Expert, ExpertOf
<1>9. /\ top \in CallType
      /\ pending = owed \union {<<p, v>>} /\ pending \in SUBSET (Facts \X BOOLEAN)
  BY <1>1, <1>2, <1>5, TopCall, PendingType DEF KnowledgeInv, PendingOf
<1>10. Accounted(P, U, O, TrueIn(pending), FalseIn(pending))
  BY <1>3, <1>5, <1>6, UnknownsInvIs DEF KnowledgeInv
<1>11. \A o \in O : \E x : world \intersect o = {x}
  BY <1>3, WorldAllowed DEF Fits
<1>12. PICK after, remains : after = expert' /\ remains = Remains(O, p, v)
  OBVIOUS
<1>13. after = ExpertOf(P \union Single(remains), U \ {p},
                        (O \ Listing(O, p)) \union Several(remains))
  <2>1. expert' = [predicates |-> P \union Single(remains), unknowns |-> U \ {p},
                   oneofs |-> (O \ Listing(O, p)) \union Several(remains)]
    BY <1>2, <1>3, <1>12 DEF RemoveUnknown, OneofsWith, Remains, Listing, Single, Several
  <2> QED
    BY <1>12, <2>1 DEF ExpertOf
<1>14. ASSUME v
       PROVE  /\ known \in SUBSET (Facts \X BOOLEAN)
              /\ \A k \in known : k[2] = (k[1] \in world)
              /\ after \in Expert /\ Accounted(after.predicates, after.unknowns, after.oneofs,
                           TrueIn(later), FalseIn(later))
              /\ Agreeing(Worlds(after), later) = Agreeing(Worlds(e), pending)
  <2>1. v = TRUE /\ p \in world
    BY <1>6, <1>14
  <2>2. known = IfTrue(O, p)
    BY <1>4, <2>1, Zenon DEF IfTrue
  <2>3. /\ known \in SUBSET (Facts \X BOOLEAN)
        /\ TrueIn(known) = {} /\ FalseIn(known) = Excluded(U, O, p)
    BY <1>6, <2>2, DeducedIs
  <2>4. after = ExpertOf(P \union {p}, U \ {p}, O \ Listing(O, p))
    <3>1. remains = Remains(O, p, TRUE)
      BY <1>12, <2>1, Zenon
    <3>2. Listing(O, p) = {} => p \in P
      <4>1. p \notin UNION O => p \in P \/ <<p, FALSE>> \in Pending
        BY <1>3, <1>6, Zenon DEF KnowledgeInv, UnknownsInv
      <4>2. <<p, FALSE>> \notin Pending
        BY <1>6, <2>1, WorldAllowed
      <4> QED
        BY <4>1, <4>2 DEF Listing
    <3>3. /\ Single(remains) = IF Listing(O, p) = {} THEN {} ELSE {p}
          /\ Several(remains) = {}
      BY <1>6, <3>1, RemainsTrue, Zenon
    <3>4. /\ P \union Single(remains) = P \union {p}
          /\ (O \ Listing(O, p)) \union Several(remains) = O \ Listing(O, p)
      BY <3>2, <3>3
    <3> QED
      BY <1>13, <3>4
  <2>5. /\ TrueIn(pending) = TrueIn(later) \union {p}
        /\ FalseIn(later) = FalseIn(pending) \union Excluded(U, O, p)
    <3>1. PICK t : t = {<<p, TRUE>>}
      OBVIOUS
    <3>2. pending = owed \union t
      BY <1>9, <2>1, <3>1, Zenon
    <3>3. TrueIn(t) = {p} /\ FalseIn(t) = {}
      BY <1>6, <3>1, InSingle
    <3>4. /\ TrueIn(pending) = TrueIn(owed) \union TrueIn(t)
          /\ FalseIn(pending) = FalseIn(owed) \union FalseIn(t)
      BY <3>2, InUnion
    <3>5. /\ TrueIn(later) = TrueIn(owed) \union TrueIn(known)
          /\ FalseIn(later) = FalseIn(owed) \union FalseIn(known)
      BY <1>5, InUnion
    <3> QED
      BY <2>3, <3>3, <3>4, <3>5
  <2>6. later \in SUBSET (Facts \X BOOLEAN)
    BY <1>5, <1>9, <2>3
  <2>7. after \in Expert /\ Agreeing(Worlds(after), later) = Agreeing(Worlds(e), pending)
    <3>1. SameBelief(P, U, O, pending, P \union {p}, U \ {p}, O \ Listing(O, p), later)
      <4>1. Finding(P, U, O, p, pending, later)
        BY <1>6, <1>9, <2>6 DEF Finding
      <4> QED
        BY <2>5, <4>1, SettleTrue
    <3>2. Agreeing(Worlds(after), later) = BelievedOf(P \union {p}, U \ {p}, O \ Listing(O, p), later)
      BY <2>4, Zenon DEF BelievedOf
    <3>3. Agreeing(Worlds(e), pending) = BelievedOf(P, U, O, pending)
      BY <1>8, Zenon DEF BelievedOf
    <3> QED
      BY <2>4, <3>1, <3>2, <3>3 DEF SameBelief
  <2>8. Accounted(after.predicates, after.unknowns, after.oneofs,
                           TrueIn(later), FalseIn(later))
    <3>1. Accounted(P \union {p}, U \ {p}, O \ Listing(O, p), TrueIn(later), FalseIn(later))
      BY <1>10, <2>5, AccountedTrue
    <3> QED
      BY <2>4, <3>1 DEF ExpertOf
  <2>9. \A k \in known : k[2] = (k[1] \in world)
    <3>1. Excluded(U, O, p) \intersect world = {}
      BY <1>11, <2>1, DeducedHolds
    <3>2. TrueIn(known) \subseteq world /\ FalseIn(known) \intersect world = {}
      BY <2>3, <3>1
    <3> QED
      BY <2>3, <3>2, SettledIs, Zenon
  <2> QED
    BY <2>3, <2>7, <2>8, <2>9
<1>15. ASSUME ~v
       PROVE  /\ known \in SUBSET (Facts \X BOOLEAN)
              /\ \A k \in known : k[2] = (k[1] \in world)
              /\ after \in Expert /\ Accounted(after.predicates, after.unknowns, after.oneofs,
                           TrueIn(later), FalseIn(later))
              /\ Agreeing(Worlds(after), later) = Agreeing(Worlds(e), pending)
  <2>1. v = FALSE /\ p \notin world
    BY <1>6, <1>15
  <2>2. known = IfFalse(O, p)
    BY <1>4, <2>1, Zenon DEF IfFalse
  <2>3. /\ known \in SUBSET (Facts \X BOOLEAN)
        /\ TrueIn(known) = Alone(U, O, p) /\ FalseIn(known) = {}
    BY <1>6, <2>2, DeducedIs
  <2>4. after = ExpertOf(P \union Alone(U, O, p), U \ {p},
                         (O \ Listing(O, p)) \union Cut(O, p))
    <3>1. remains = Remains(O, p, FALSE)
      BY <1>12, <2>1, Zenon
    <3>2. Single(remains) = Alone(U, O, p) /\ Several(remains) = Cut(O, p)
      BY <1>6, <3>1, RemainsFalse
    <3> QED
      BY <1>13, <3>2
  <2>5. /\ FalseIn(pending) = FalseIn(later) \union {p}
        /\ TrueIn(later) = TrueIn(pending) \union Alone(U, O, p)
    <3>1. PICK f : f = {<<p, FALSE>>}
      OBVIOUS
    <3>2. pending = owed \union f
      BY <1>9, <2>1, <3>1, Zenon
    <3>3. TrueIn(f) = {} /\ FalseIn(f) = {p}
      BY <1>6, <3>1, InSingle
    <3>4. /\ TrueIn(pending) = TrueIn(owed) \union TrueIn(f)
          /\ FalseIn(pending) = FalseIn(owed) \union FalseIn(f)
      BY <3>2, InUnion
    <3>5. /\ TrueIn(later) = TrueIn(owed) \union TrueIn(known)
          /\ FalseIn(later) = FalseIn(owed) \union FalseIn(known)
      BY <1>5, InUnion
    <3> QED
      BY <2>3, <3>3, <3>4, <3>5
  <2>6. later \in SUBSET (Facts \X BOOLEAN)
    BY <1>5, <1>9, <2>3
  <2>7. p \notin P
    BY <1>3, <2>1, WorldAllowed DEF Fits
  <2>8. after \in Expert /\ Agreeing(Worlds(after), later) = Agreeing(Worlds(e), pending)
    <3>1. SameBelief(P, U, O, pending, P \union Alone(U, O, p), U \ {p},
                     (O \ Listing(O, p)) \union Cut(O, p), later)
      <4>1. Finding(P, U, O, p, pending, later)
        BY <1>6, <1>9, <2>6 DEF Finding
      <4>2. \A o \in O : \E x \in o : x # p
        BY <1>6
      <4> QED
        BY <2>5, <2>7, <4>1, <4>2, SettleFalse
    <3>2. Agreeing(Worlds(after), later) = BelievedOf(P \union Alone(U, O, p), U \ {p},
                                                   (O \ Listing(O, p)) \union Cut(O, p), later)
      BY <2>4, Zenon DEF BelievedOf
    <3>3. Agreeing(Worlds(e), pending) = BelievedOf(P, U, O, pending)
      BY <1>8, Zenon DEF BelievedOf
    <3> QED
      BY <2>4, <3>1, <3>2, <3>3 DEF SameBelief
  <2>9. Accounted(after.predicates, after.unknowns, after.oneofs,
                           TrueIn(later), FalseIn(later))
    <3>1. Accounted(P \union Alone(U, O, p), U \ {p}, (O \ Listing(O, p)) \union Cut(O, p),
                    TrueIn(later), FalseIn(later))
      BY <1>6, <1>10, <2>5, AccountedFalse
    <3> QED
      BY <2>4, <3>1 DEF ExpertOf
  <2>10. \A k \in known : k[2] = (k[1] \in world)
    <3>1. Alone(U, O, p) \subseteq world
      BY <1>11, <2>1, DeducedHolds
    <3>2. TrueIn(known) \subseteq world /\ FalseIn(known) \intersect world = {}
      BY <2>3, <3>1
    <3> QED
      BY <2>3, <3>2, SettledIs, Zenon
  <2> QED
    BY <2>3, <2>8, <2>9, <2>10
<1>16. PICK call : call = [top EXCEPT !.entered = TRUE, !.will_know = known]
  OBVIOUS
<1>17. calls' = [calls EXCEPT ![Len(calls)] = call]
  BY <1>2, <1>3, <1>4, <1>16 DEF RemoveUnknown, top, Deduced, OneofsWith, Listing
<1>18. /\ call \in CallType /\ call.entered /\ call.will_know = known
       /\ call.fact = p /\ call.known_to_true = v
  BY <1>2, <1>6, <1>9, <1>14, <1>15, <1>16 DEF CallType
<1>19. CallsInv' /\ PropagatesTruth' /\ Pending' = Owed \union PendingOf(call)
  BY <1>1, <1>6, <1>14, <1>15, <1>17, <1>18, TopChanges DEF KnowledgeInv
<1>20. Pending' = later
  BY <1>5, <1>18, <1>19 DEF PendingOf
<1>21. UnknownsInv'
  <2>1. /\ after \in Expert
        /\ Accounted(after.predicates, after.unknowns, after.oneofs,
                     TrueIn(later), FalseIn(later))
    BY <1>6, <1>14, <1>15
  <2> QED
    BY <1>12, <1>20, <2>1, Zenon DEF UnknownsInv, Accounted, TrueIn, FalseIn, Expert
<1>22. belief = Agreeing(Worlds(e), pending) /\ world \in belief
  BY <1>5, <1>7 DEF KnowledgeInv
<1>23. belief' = Agreeing(Worlds(expert), Pending)' /\ world' \in belief'
  <2>1. Agreeing(Worlds(expert), Pending)' = Agreeing(Worlds(after), later)
    BY <1>12, <1>20 DEF Agreeing, Worlds
  <2>2. Agreeing(Worlds(after), later) = Agreeing(Worlds(e), pending)
    BY <1>6, <1>14, <1>15
  <2> QED
    BY <1>1, <1>22, <2>1, <2>2
<1> QED
  BY <1>19, <1>21, <1>23 DEF KnowledgeInv
------------------------------------------------------------------------------
(* Between two actions nothing is pending.                                 *)
LEMMA NothingPending ==
  ASSUME Idle
  PROVE  Pending = {} /\ \A worlds : Agreeing(worlds, Pending) = worlds
<1>1. Len(calls) = 0
  BY DEF Idle
<1>2. Pending = {}
  BY <1>1 DEF Pending
<1> QED
  BY <1>2 DEF Agreeing

(* An expert that owes nothing lists every unknown in a oneof.             *)
LEMMA IdleUnknowns ==
  ASSUME Idle, KnowledgeInv
  PROVE  /\ belief = Worlds(expert) /\ world \in belief
         /\ expert \in Expert /\ Backed(expert)
<1>1. Pending = {} /\ belief = Worlds(expert) /\ world \in belief
  BY NothingPending DEF KnowledgeInv
<1>2. expert \in Expert /\ \A o \in expert.oneofs : Cardinality(o) > 1
  BY DEF KnowledgeInv, UnknownsInv
<1>3. /\ expert.predicates \intersect expert.unknowns = {}
      /\ expert.unknowns = UNION expert.oneofs
  BY <1>1 DEF KnowledgeInv, UnknownsInv
<1> QED
  BY <1>1, <1>2, <1>3 DEF Backed

(* apply_sensing_action enters the first call.                             *)
LEMMA ApplySensingKeeps ==
  ASSUME KnowledgeInv, NEW p \in Facts, ApplySensing(p)
  PROVE  KnowledgeInv'
<1>1. PICK v \in BOOLEAN : v = (p \in world)
  <2>1. ASSUME p \in world PROVE TRUE \in BOOLEAN /\ TRUE = (p \in world)
    BY <2>1
  <2>2. ASSUME p \notin world PROVE FALSE \in BOOLEAN /\ FALSE = (p \in world)
    BY <2>2
  <2> QED
    BY <2>1, <2>2, Zenon
<1>2. /\ Idle /\ calls' = <<Call(p, v)>> /\ UNCHANGED <<expert, world>>
      /\ belief' = {w \in belief : (p \in w) = v}
  BY <1>1 DEF ApplySensing, Observed
<1>3. /\ belief = Worlds(expert) /\ world \in belief
      /\ expert \in Expert /\ Backed(expert)
  BY <1>2, IdleUnknowns
<1>4. CallsInv' /\ PropagatesTruth' /\ Pending' = {<<p, v>>}
  <2>1. PICK stack : stack = <<>>
    OBVIOUS
  <2>2. stack \in Seq(CallType) /\ 1..Len(stack) = {} /\ Owes(stack) = {}
    BY <2>1 DEF Owes
  <2>3. calls' = Append(stack, Call(p, v))
    BY <1>2, <2>1
  <2>4. CallsInv' /\ PropagatesTruth' /\ Pending' = Owes(stack) \union {<<p, v>>}
    BY <1>1, <1>2, <2>2, <2>3, Calls
  <2> QED
    BY <2>2, <2>4
<1>5. UnknownsInv'
  BY <1>2, <1>3 DEF UnknownsInv, Backed
<1>6. belief' = Agreeing(Worlds(expert), Pending)'
  <2>1. \A w : (\A k \in {<<p, v>>} : k[2] = (k[1] \in w)) <=> (p \in w) = v
    <3>1. \A w : (\A k \in {<<p, v>>} : k[2] = (k[1] \in w)) <=> v = (p \in w)
      OBVIOUS
    <3> QED
      BY <3>1
  <2>2. Agreeing(Worlds(expert), {<<p, v>>}) = {w \in Worlds(expert) : (p \in w) = v}
    BY <2>1 DEF Agreeing
  <2>3. Agreeing(Worlds(expert), Pending)' = Agreeing(Worlds(expert), {<<p, v>>})
    BY <1>2, <1>4 DEF Agreeing, Worlds
  <2> QED
    BY <1>2, <1>3, <2>2, <2>3
<1>7. world' \in belief'
  BY <1>1, <1>2, <1>3
<1> QED
  BY <1>4, <1>5, <1>6, <1>7 DEF KnowledgeInv

Acted(e, add, del)      == [e EXCEPT !.predicates = (@ \ del) \union add]
Moved(worlds, add, del) == {(w \ del) \union add : w \in worlds}

(* An actuation on known facts moves every allowed world as it moves the   *)
(* predicates.                                                             *)
LEMMA WorldsMove ==
  ASSUME NEW e \in Expert, Backed(e), NEW add \in SUBSET Facts, NEW del \in SUBSET Facts,
         (add \union del) \intersect e.unknowns = {}
  PROVE  /\ Acted(e, add, del) \in Expert /\ Backed(Acted(e, add, del))
         /\ Worlds(Acted(e, add, del)) = Moved(Worlds(e), add, del)
<1>1. PICK P, U, O : P = e.predicates /\ U = e.unknowns /\ O = e.oneofs
  OBVIOUS
<1>2. /\ P \in SUBSET Facts /\ U \in SUBSET Facts /\ O \in SUBSET SUBSET Facts
      /\ U = UNION O /\ P \intersect U = {} /\ (add \union del) \intersect U = {}
      /\ \A o \in O : Cardinality(o) > 1
  BY <1>1 DEF Expert, Backed
<1>3. PICK P2 : P2 = (P \ del) \union add
  OBVIOUS
<1>0. PICK after : after = Acted(e, add, del)
  OBVIOUS
<1>4. /\ after \in Expert /\ after.predicates = P2
      /\ after.unknowns = U /\ after.oneofs = O
  <2>1. after = [predicates |-> P2, unknowns |-> U, oneofs |-> O]
    BY <1>0, <1>1, <1>3 DEF Expert, Acted
  <2> QED
    BY <1>2, <1>3, <2>1 DEF Expert
<1>5. Backed(after)
  BY <1>2, <1>3, <1>4 DEF Backed
<1>6. ASSUME NEW w, Fits(w, P, U, O)
      PROVE  Fits((w \ del) \union add, P2, U, O)
  <2>1. \A o \in O : ((w \ del) \union add) \intersect o = w \intersect o
    BY <1>2
  <2> QED
    BY <1>2, <1>3, <1>6, <2>1 DEF Fits
<1>7. ASSUME NEW u, Fits(u, P2, U, O)
      PROVE  \E w : Fits(w, P, U, O) /\ u = (w \ del) \union add
  <2>1. PICK w : w = P \union (u \intersect U)
    OBVIOUS
  <2>2. \A o \in O : w \intersect o = u \intersect o
    BY <1>2, <2>1
  <2>3. Fits(w, P, U, O)
    BY <1>2, <1>7, <2>1, <2>2 DEF Fits
  <2>4. u = (w \ del) \union add
    BY <1>2, <1>3, <1>7, <2>1 DEF Fits
  <2> QED
    BY <2>3, <2>4
<1>8. /\ \A w : w \in Worlds(e) <=> Fits(w, P, U, O)
      /\ \A w : w \in Worlds(after) <=> Fits(w, P2, U, O)
  BY <1>1, <1>4, WorldsFit
<1>9. Worlds(after) = {(w \ del) \union add : w \in Worlds(e)}
  <2>1. ASSUME NEW u \in Worlds(after) PROVE u \in {(w \ del) \union add : w \in Worlds(e)}
    BY <1>7, <1>8, <2>1
  <2>2. ASSUME NEW w \in Worlds(e) PROVE (w \ del) \union add \in Worlds(after)
    BY <1>6, <1>8, <2>2
  <2> QED
    BY <2>1, <2>2
<1>10. Worlds(Acted(e, add, del)) = Moved(Worlds(e), add, del)
  BY <1>0, <1>9, Zenon DEF Moved
<1> QED
  BY <1>0, <1>4, <1>5, <1>10

(* The effects of an actuation move the world as they move the expert.     *)
LEMMA ApplyActuationKeeps ==
  ASSUME KnowledgeInv, NEW act \in Actuations, OnKnownFacts(act), ApplyActuation(act)
  PROVE  KnowledgeInv'
<1>1. PICK add, del : add = act.add /\ del = act.del
  OBVIOUS
<1>2. /\ Idle /\ calls' = calls
      /\ expert' = [expert EXCEPT !.predicates = (@ \ del) \union add]
      /\ world' = (world \ del) \union add
      /\ belief' = {(w \ del) \union add : w \in belief}
  BY <1>1 DEF ApplyActuation
<1>3. /\ add \in SUBSET Facts /\ del \in SUBSET Facts
      /\ (add \union del) \intersect expert.unknowns = {}
  BY <1>1, KnowledgeAssumption DEF KnowledgeAssumption, OnKnownFacts
<1>4. /\ belief = Worlds(expert) /\ world \in belief
      /\ expert \in Expert /\ Backed(expert)
  BY <1>2, IdleUnknowns
<1>5. PICK after : after = expert'
  OBVIOUS
<1>6. /\ after \in Expert /\ Backed(after)
      /\ Worlds(after) = {(w \ del) \union add : w \in Worlds(expert)}
  <2>1. after = Acted(expert, add, del)
    BY <1>2, <1>5 DEF Acted
  <2>2. /\ Acted(expert, add, del) \in Expert /\ Backed(Acted(expert, add, del))
        /\ Worlds(Acted(expert, add, del)) = Moved(Worlds(expert), add, del)
    BY <1>3, <1>4, WorldsMove
  <2> QED
    BY <2>1, <2>2, Zenon DEF Moved
<1>7. CallsInv' /\ PropagatesTruth' /\ Pending' = {}
  <2>1. Len(calls) = 0 /\ Len(calls') = 0
    BY <1>2 DEF Idle
  <2> QED
    BY <1>2, <2>1 DEF CallsInv, PropagatesTruth, Pending, KnowledgeInv
<1>8. UnknownsInv'
  BY <1>5, <1>6 DEF UnknownsInv, Backed
<1>9. belief' = Agreeing(Worlds(expert), Pending)'
  <2>1. Agreeing(Worlds(expert), Pending)' = Worlds(after)
    BY <1>5, <1>7 DEF Agreeing, Worlds
  <2> QED
    BY <1>2, <1>4, <1>6, <2>1
<1>10. world' \in belief'
  BY <1>2, <1>4
<1> QED
  BY <1>7, <1>8, <1>9, <1>10 DEF KnowledgeInv
------------------------------------------------------------------------------
(* A problem as it is loaded: nothing observed, nothing pending.           *)
LEMMA InitKnowledgeInv == Init => KnowledgeInv
<1> SUFFICES ASSUME Init PROVE KnowledgeInv
  OBVIOUS
<1>1. /\ calls = <<>> /\ expert \in Problems
      /\ belief = Worlds(expert) /\ world \in belief
  BY DEF Init
<1>2. expert \in Expert /\ Backed(expert)
  BY <1>1, KnowledgeAssumption DEF KnowledgeAssumption
<1>3. Idle /\ Len(calls) = 0
  BY <1>1 DEF Idle
<1>4. belief = Agreeing(Worlds(expert), Pending)
  BY <1>1, <1>3, NothingPending
<1>5. UnknownsInv
  BY <1>2 DEF UnknownsInv, Backed
<1>6. CallsInv /\ PropagatesTruth
  BY <1>1, <1>3 DEF CallsInv, PropagatesTruth
<1> QED
  BY <1>1, <1>4, <1>5, <1>6 DEF KnowledgeInv

(* Every action of the specification keeps the invariant.                  *)
LEMMA NextKnowledgeInv == KnowledgeInv /\ [Next]_vars => KnowledgeInv'
<1> SUFFICES ASSUME KnowledgeInv, [Next]_vars PROVE KnowledgeInv'
  OBVIOUS
<1>1. ASSUME NEW p \in Facts, ApplySensing(p) PROVE KnowledgeInv'
  BY <1>1, ApplySensingKeeps
<1>2. CASE UnknownNotFound
  BY <1>2, UnknownNotFoundKeeps
<1>3. CASE RemoveUnknown
  BY <1>3, RemoveUnknownKeeps
<1>4. CASE PropagateNext
  BY <1>4, PropagateNextKeeps
<1>5. CASE ReturnFromCall
  BY <1>5, ReturnFromCallKeeps
<1>6. ASSUME NEW act \in Actuations, OnKnownFacts(act), ApplyActuation(act)
      PROVE  KnowledgeInv'
  BY <1>6, ApplyActuationKeeps
<1>7. CASE UNCHANGED vars
  <2>1. UNCHANGED <<expert, calls, world, belief>>
    BY <1>7 DEF vars
  <2>2. Pending' = Pending
    BY <2>1 DEF Pending, PendingOf
  <2>3. CallsInv' /\ PropagatesTruth'
    BY <2>1 DEF KnowledgeInv, CallsInv, PropagatesTruth
  <2>4. UnknownsInv'
    BY <2>1, <2>2 DEF KnowledgeInv, UnknownsInv
  <2>5. belief' = Agreeing(Worlds(expert), Pending)' /\ world' \in belief'
    BY <2>1, <2>2 DEF KnowledgeInv, Agreeing, Worlds
  <2> QED
    BY <2>3, <2>4, <2>5 DEF KnowledgeInv
<1> QED
  BY <1>1, <1>2, <1>3, <1>4, <1>5, <1>6, <1>7 DEF Next, removeConditionalUnknown

(* In every state the expert, corrected by what is pending, allows the     *)
(* worlds that agree with all observations and actuations so far.          *)
THEOREM KnowledgeInvariant == Spec => []KnowledgeInv
<1> QED
  BY InitKnowledgeInv, NextKnowledgeInv, PTL DEF Spec

(* Every recursive call of removeConditionalUnknown, made or still to be   *)
(* made, is told the truth about its fact, whatever the order in which the *)
(* shared oneofs were rewritten before it.                                 *)
THEOREM CallsAreTrue == Spec => []PropagatesTruth
<1>1. KnowledgeInv => PropagatesTruth
  BY DEF KnowledgeInv
<1> QED
  BY <1>1, KnowledgeInvariant, PTL

(* After every sensing and every actuation on known facts the expert       *)
(* allows exactly the worlds that agree with the problem and with all that *)
(* was observed and done: removeConditionalUnknown neither forgets nor     *)
(* guesses, and leaves no unknown outside the oneofs.                      *)
THEOREM KnowledgeIsExact == Spec => []BeliefExact
<1>1. KnowledgeInv => BeliefExact
  BY IdleUnknowns DEF BeliefExact
<1> QED
  BY <1>1, KnowledgeInvariant, PTL
==============================================================================
