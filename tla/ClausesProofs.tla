---------------------------- MODULE ClausesProofs ----------------------------
(***************************************************************************)
(* The satisfiability test is right for every number of variables, every   *)
(* clause database and every sequence of calls: it answers TRUE exactly    *)
(* when there is a model, and never runs into one of the planner's exits.  *)
(* The lists it follows are those of the clauses, whatever was encoded,    *)
(* saved, restored and undone before.                                      *)
(***************************************************************************)
EXTENDS DavisPutnam, ClauseBase, FiniteSetTheorems, SequenceTheorems, WellFoundedInduction, TLAPS

(* First the clause database: what an encoded literal, clause or batch     *)
(* does to the base, what a cut does, and what each action keeps.          *)

(* A list that was never used, or one that ends in a free cell.            *)
ListFits(l) ==
  \/ l.cells = <<>> /\ l.end = 0
  \/ /\ l.end \in 1..Len(l.cells)
     /\ \A k \in 1..Len(l.cells) : l.cells[k] = EndOfList <=> k = Len(l.cells)

(* Its entries are the clauses with literal l, each once, in order.        *)
Lists(list, l, cls) ==
  /\ \A i \in 1..list.end - 1 : list.cells[i] \in 1..Len(cls) /\ Contains(cls[list.cells[i]], l)
  /\ \A n \in 1..Len(cls) : Contains(cls[n], l) => \E i \in 1..list.end - 1 : list.cells[i] = n
  /\ \A i, j \in 1..list.end - 1 : i < j => list.cells[i] < list.cells[j]

ListRecord == [cells : Seq(Int), end : Nat, fixed : Nat]
ListTable == [CodeRange -> [Signs -> ListRecord]]
BaseType ==
  [c : Nat, codes : [TimedFacts -> Int], facts : [CodeRange -> TimedFacts \union {"none"}],
   lists : ListTable, clauses : Seq(Seq(Int))]

CodesFit(b) ==
  /\ \A x \in TimedFacts : b.codes[x] = -1 \/ (b.codes[x] \in 1..b.c /\ b.facts[b.codes[x]] = x)
  /\ \A i \in 1..b.c : /\ b.facts[i] \in TimedFacts
                       /\ b.codes[b.facts[i]] = -1 \/ b.codes[b.facts[i]] >= i
LiteralFits(b, l) ==
  \E v \in 1..b.c : b.codes[b.facts[v]] = v /\ (l = v \/ l = -v)
ClausesFit(b) ==
  \A n \in 1..Len(b.clauses) : \A k \in 1..Len(b.clauses[n]) : LiteralFits(b, b.clauses[n][k])
ListsFit(b) ==
  \A v \in CodeRange :
    /\ b.lists[v]["pos"].cells = <<>> <=> b.lists[v]["neg"].cells = <<>>
    /\ \A sign \in Signs :
         /\ ListFits(b.lists[v][sign])
         /\ v <= b.c => b.lists[v][sign].cells # <<>>
         /\ Lists(b.lists[v][sign], Coded(v, sign), b.clauses)
Fits(b) ==
  b \in BaseType /\ b.c \in 0..MaxCodes /\ CodesFit(b) /\ ClausesFit(b) /\ ListsFit(b)

------------------------------------------------------------------------------
(* A list with one more clause.                                            *)
Longer(l, r, c) ==
  /\ r \in ListRecord /\ ListFits(r) /\ r.cells # <<>>
  /\ r.end = l.end + 1
  /\ \A i \in 1..l.end - 1 : r.cells[i] = l.cells[i]
  /\ r.cells[l.end] = c

(* The clause is put into the cell at the end, whether it is a new one or  *)
(* one that an undone clause left behind.                                  *)
LEMMA WithClauseIs ==
  ASSUME NEW l \in ListRecord, ListFits(l), l.cells # <<>>, NEW c \in Nat
  PROVE  Longer(l, WithClause(l, c), c) /\ WithClause(l, c).fixed = l.fixed
<1>1. PICK cs \in Seq(Int), e \in Nat, f \in Nat : l = [cells |-> cs, end |-> e, fixed |-> f]
  BY DEF ListRecord
<1>2. e \in 1..Len(cs) /\ \A k \in 1..Len(cs) : cs[k] = -1 <=> k = Len(cs)
  BY <1>1 DEF ListFits, EndOfList
<1>3. PICK cs2 : cs2 = IF cs[e] = EndOfList THEN SubSeq(cs, 1, e - 1) \o <<c, EndOfList>>
                       ELSE [cs EXCEPT ![e] = c]
  OBVIOUS
<1>4. WithClause(l, c) = [cells |-> cs2, end |-> e + 1, fixed |-> f]
  <2>1. l.cells = cs /\ l.end = e
    BY <1>1
  <2>2. WithClause(l, c) = [l EXCEPT !.cells = cs2, !.end = e + 1]
    BY <1>3, <2>1 DEF WithClause
  <2> QED
    BY <1>1, <2>2
<1>5. /\ cs2 \in Seq(Int) /\ e + 1 \in 1..Len(cs2) /\ cs2 # <<>>
      /\ \A k \in 1..Len(cs2) : cs2[k] = -1 <=> k = Len(cs2)
      /\ \A i \in 1..e - 1 : cs2[i] = cs[i]
      /\ cs2[e] = c
  <2>1. CASE cs[e] = -1
    <3>1. e = Len(cs)
      BY <1>2, <2>1
    <3>2. PICK s : s = SubSeq(cs, 1, e - 1)
      OBVIOUS
    <3>3. s \in Seq(Int) /\ Len(s) = e - 1 /\ \A i \in 1..e - 1 : s[i] = cs[i]
      <4>1. \A i \in 1..e - 1 : cs[i] \in Int
        BY <1>2, ElementOfSeq
      <4>2. e - 1 \in Int /\ 1 \in Int /\ (e - 1) - 1 + 1 = e - 1
            /\ (IF 1 <= e - 1 THEN (e - 1) - 1 + 1 ELSE 0) = e - 1
        BY <1>2
      <4>3. \A i \in 1..e - 1 : 1 + i - 1 = i
        OBVIOUS
      <4> QED
        BY <3>2, <4>1, <4>2, <4>3, SubSeqProperties
    <3>4. PICK t : t = <<c, -1>>
      OBVIOUS
    <3>5. t \in Seq(Int) /\ Len(t) = 2 /\ t[1] = c /\ t[2] = -1
      BY <3>4
    <3>6. cs2 = s \o t
      BY <1>3, <2>1, <3>2, <3>4 DEF EndOfList
    <3>7. /\ cs2 \in Seq(Int) /\ Len(cs2) = e + 1
          /\ \A i \in 1..e - 1 : cs2[i] = s[i]
          /\ cs2[e] = t[1] /\ cs2[e + 1] = t[2]
      <4>1. /\ cs2 \in Seq(Int) /\ Len(cs2) = Len(s) + Len(t)
            /\ \A i \in 1..Len(s) + Len(t) : cs2[i] = IF i <= Len(s) THEN s[i] ELSE t[i - Len(s)]
        BY <3>3, <3>5, <3>6, ConcatProperties
      <4>2. e \in 1..e + 1 /\ e + 1 \in 1..e + 1 /\ ~(e <= e - 1) /\ ~(e + 1 <= e - 1)
            /\ e - (e - 1) = 1 /\ (e + 1) - (e - 1) = 2 /\ (e - 1) + 2 = e + 1
        BY <1>2
      <4>3. \A i \in 1..e - 1 : i \in 1..e + 1 /\ i <= e - 1
        OBVIOUS
      <4>4. Len(s) = e - 1 /\ Len(t) = 2 /\ Len(s) + Len(t) = e + 1
        BY <3>3, <3>5, <4>2
      <4>5. \A i \in 1..e + 1 : cs2[i] = IF i <= e - 1 THEN s[i] ELSE t[i - (e - 1)]
        BY <4>1, <4>4
      <4>6. \A i \in 1..e - 1 : cs2[i] = s[i]
        BY <4>3, <4>5
      <4>7. cs2[e] = t[1] /\ cs2[e + 1] = t[2]
        BY <4>2, <4>5
      <4> QED
        BY <4>1, <4>4, <4>6, <4>7
    <3>8. \A k \in 1..e + 1 : k \in 1..e - 1 \/ k = e \/ k = e + 1
      OBVIOUS
    <3>9. \A i \in 1..e - 1 : cs2[i] = cs[i] /\ cs[i] # -1
      <4>1. \A i \in 1..e - 1 : i \in 1..Len(cs) /\ i # Len(cs)
        BY <1>2, <3>1
      <4> QED
        BY <1>2, <3>3, <3>7, <4>1
    <3>10. cs2[e] = c /\ cs2[e + 1] = -1 /\ c # -1
      BY <3>5, <3>7
    <3>11. \A k \in 1..e + 1 : cs2[k] = -1 <=> k = e + 1
      BY <3>8, <3>9, <3>10
    <3> QED
      BY <3>7, <3>9, <3>10, <3>11
  <2>2. CASE cs[e] # -1
    <3>1. cs2 = [cs EXCEPT ![e] = c]
      BY <1>3, <2>2 DEF EndOfList
    <3>2. cs2 \in Seq(Int) /\ Len(cs2) = Len(cs) /\ cs2[e] = c /\ \A i \in 1..Len(cs) : i # e => cs2[i] = cs[i]
      BY <1>2, <3>1
    <3>3. e # Len(cs)
      BY <1>2, <2>2
    <3>4. e + 1 \in 1..Len(cs2) /\ cs2 # <<>>
      BY <1>2, <3>2, <3>3
    <3>5. \A k \in 1..Len(cs2) : cs2[k] = -1 <=> k = Len(cs2)
      <4> SUFFICES ASSUME NEW k \in 1..Len(cs)
                   PROVE  cs2[k] = -1 <=> k = Len(cs)
        BY <3>2
      <4>1. CASE k = e
        BY <1>2, <3>2, <3>3, <4>1
      <4>2. CASE k # e
        BY <1>2, <3>2, <4>2
      <4> QED
        BY <4>1, <4>2
    <3> QED
      BY <1>2, <3>2, <3>4, <3>5
  <2> QED
    BY <2>1, <2>2
<1>6. PICK r : r = WithClause(l, c)
  OBVIOUS
<1>7. r.cells = cs2 /\ r.end = e + 1 /\ r.fixed = f /\ r \in ListRecord
  BY <1>4, <1>5, <1>6 DEF ListRecord
<1>8. ListFits(r)
  BY <1>5, <1>7 DEF ListFits, EndOfList
<1>9. l.cells = cs /\ l.end = e /\ l.fixed = f
  BY <1>1
<1> QED
  BY <1>5, <1>6, <1>7, <1>8, <1>9 DEF Longer

Extended(cls, l) == [cls EXCEPT ![Len(cls)] = Append(@, l)]

LEMMA ExtendedIs ==
  ASSUME NEW cls \in Seq(Seq(Int)), Len(cls) >= 1, NEW l \in Int
  PROVE  /\ Extended(cls, l) \in Seq(Seq(Int)) /\ Len(Extended(cls, l)) = Len(cls)
         /\ \A n \in 1..Len(cls) : n # Len(cls) => Extended(cls, l)[n] = cls[n]
         /\ Extended(cls, l)[Len(cls)] = Append(cls[Len(cls)], l)
         /\ \A k \in Int, n \in 1..Len(cls) :
              Contains(Extended(cls, l)[n], k) <=> Contains(cls[n], k) \/ (k = l /\ n = Len(cls))
<1>1. PICK N \in Nat : N = Len(cls) /\ N >= 1
  OBVIOUS
<1>2. PICK e : e = Extended(cls, l)
  OBVIOUS
<1>3. PICK last : last = Append(cls[N], l)
  OBVIOUS
<1>4. cls[N] \in Seq(Int)
  BY <1>1, ElementOfSeq
<1>5. /\ last \in Seq(Int) /\ Len(last) = Len(cls[N]) + 1
      /\ \A k \in 1..Len(cls[N]) : last[k] = cls[N][k]
      /\ last[Len(cls[N]) + 1] = l
  BY <1>3, <1>4, AppendProperties
<1>6. e = [cls EXCEPT ![N] = last]
  BY <1>1, <1>2, <1>3 DEF Extended
<1>7. /\ e \in Seq(Seq(Int)) /\ Len(e) = N /\ e[N] = last
      /\ \A n \in 1..N : n # N => e[n] = cls[n]
  BY <1>1, <1>5, <1>6
<1>8. ASSUME NEW k \in Int
      PROVE  Contains(last, k) <=> Contains(cls[N], k) \/ k = l
  <2>1. \A i \in 1..Len(last) : i \in 1..Len(cls[N]) \/ i = Len(cls[N]) + 1
    BY <1>4, <1>5
  <2>2. 1..Len(cls[N]) \subseteq 1..Len(last) /\ Len(cls[N]) + 1 \in 1..Len(last)
    <3>1. PICK M \in Nat : M = Len(cls[N])
      BY <1>4
    <3> QED
      BY <1>5, <3>1
  <2> QED
    BY <1>5, <2>1, <2>2 DEF Contains
<1>9. ASSUME NEW k \in Int, NEW n \in 1..N
      PROVE  Contains(e[n], k) <=> Contains(cls[n], k) \/ (k = l /\ n = N)
  BY <1>7, <1>8
<1> QED
  BY <1>1, <1>2, <1>3, <1>7, <1>9

(* The list of the literal that is added to the last clause.               *)
LEMMA ListsMore ==
  ASSUME NEW cls \in Seq(Seq(Int)), Len(cls) >= 1, NEW l \in Int, ~Contains(cls[Len(cls)], l),
         NEW old \in ListRecord, old.end \in Nat \ {0}, Lists(old, l, cls),
         NEW new, Longer(old, new, Len(cls))
  PROVE  Lists(new, l, Extended(cls, l))
<1>1. PICK N \in Nat, e \in Nat \ {0} : N = Len(cls) /\ N >= 1 /\ e = old.end
  OBVIOUS
<1>2. PICK more : more = Extended(cls, l)
  OBVIOUS
<1>3. Len(more) = N /\ \A n \in 1..N : Contains(more[n], l) <=> Contains(cls[n], l) \/ n = N
  BY <1>1, <1>2, ExtendedIs
<1>4. new.end = e + 1 /\ new.cells[e] = N /\ \A i \in 1..e - 1 : new.cells[i] = old.cells[i]
  BY <1>1 DEF Longer
<1>5. \A i \in 1..e : i = e \/ i \in 1..e - 1
  OBVIOUS
<1>6. \A i \in 1..e - 1 : old.cells[i] \in 1..N /\ Contains(cls[old.cells[i]], l) /\ old.cells[i] # N
  BY <1>1 DEF Lists
<1>7. ASSUME NEW i \in 1..e
      PROVE  new.cells[i] \in 1..N /\ Contains(more[new.cells[i]], l)
  <2>1. CASE i = e
    BY <1>1, <1>3, <1>4, <2>1
  <2>2. CASE i \in 1..e - 1
    BY <1>1, <1>3, <1>4, <1>6, <2>2
  <2> QED
    BY <1>5, <2>1, <2>2
<1>8. ASSUME NEW n \in 1..N, Contains(more[n], l)
      PROVE  \E i \in 1..e : new.cells[i] = n
  <2>1. CASE n = N
    BY <1>4, <2>1
  <2>2. CASE n # N
    <3>1. PICK i \in 1..e - 1 : old.cells[i] = n
      BY <1>1, <1>3, <1>8, <2>2 DEF Lists
    <3>2. i \in 1..e
      BY <3>1
    <3> QED
      BY <1>4, <3>1, <3>2
  <2> QED
    BY <2>1, <2>2
<1>9. ASSUME NEW i \in 1..e, NEW j \in 1..e, i < j
      PROVE  new.cells[i] < new.cells[j]
  <2>1. i \in 1..e - 1
    BY <1>9
  <2>2. CASE j = e
    <3>1. old.cells[i] \in 1..N /\ old.cells[i] # N /\ new.cells[i] = old.cells[i] /\ new.cells[j] = N
      BY <1>4, <1>6, <2>1, <2>2
    <3>2. PICK x \in 1..N : x = old.cells[i]
      BY <3>1
    <3> QED
      BY <3>1, <3>2
  <2>3. CASE j # e
    <3>1. j \in 1..e - 1
      BY <2>3
    <3>2. old.cells[i] < old.cells[j]
      BY <1>1, <1>9, <2>1, <3>1 DEF Lists
    <3> QED
      BY <1>4, <2>1, <3>1, <3>2
  <2> QED
    BY <2>2, <2>3
<1>10. (e + 1) - 1 = e
  OBVIOUS
<1> QED
  BY <1>2, <1>3, <1>4, <1>7, <1>8, <1>9, <1>10 DEF Lists

(* The lists of the other literals.                                        *)
LEMMA ListsOther ==
  ASSUME NEW cls \in Seq(Seq(Int)), Len(cls) >= 1, NEW l \in Int, NEW k \in Int, k # l,
         NEW list, Lists(list, k, cls)
  PROVE  Lists(list, k, Extended(cls, l))
<1>1. Len(Extended(cls, l)) = Len(cls)
      /\ \A n \in 1..Len(cls) : Contains(Extended(cls, l)[n], k) <=> Contains(cls[n], k)
  BY ExtendedIs
<1>2. PICK more : more = Extended(cls, l)
  OBVIOUS
<1> QED
  BY <1>1, <1>2 DEF Lists

(* A list that is allocated has no entries, like one that is not.          *)
Started(l) == IF l.cells = <<>> THEN Allocated ELSE l

LEMMA StartedIs ==
  ASSUME NEW l \in ListRecord, ListFits(l)
  PROVE  /\ Started(l) \in ListRecord /\ ListFits(Started(l)) /\ Started(l).cells # <<>>
         /\ Started(l).end \in Nat \ {0} /\ Started(l).end >= l.end
         /\ \A k, cls : Lists(l, k, cls) => Lists(Started(l), k, cls)
         /\ \A i \in 1..Started(l).end - 1 : i < l.end /\ Started(l).cells[i] = l.cells[i]
         /\ l.cells # <<>> => Started(l) = l
         /\ l.cells = <<>> => Started(l).fixed = 1 /\ Started(l).end = 1
<1>1. CASE l.cells # <<>>
  <2>1. Started(l) = l /\ l.end \in Nat \ {0}
    BY <1>1 DEF Started, ListFits, ListRecord
  <2> QED
    BY <1>1, <2>1
<1>2. CASE l.cells = <<>>
  <2>1. l.end = 0
    BY <1>2 DEF ListFits
  <2>2. PICK a : a = Allocated
    OBVIOUS
  <2>3. a.cells = <<-1>> /\ a.end = 1 /\ a.fixed = 1 /\ a \in ListRecord /\ Started(l) = a
    BY <1>2, <2>2 DEF Allocated, EndOfList, ListRecord, Started
  <2>4. Len(a.cells) = 1 /\ a.cells[1] = -1 /\ a.cells # <<>>
    BY <2>3
  <2>5. ListFits(a)
    BY <2>3, <2>4 DEF ListFits, EndOfList
  <2>6. 1..a.end - 1 = {} /\ 1..l.end - 1 = {}
    BY <2>1, <2>3
  <2>7. ASSUME NEW k, NEW cls, Lists(l, k, cls)
        PROVE  Lists(a, k, cls)
    BY <2>6, <2>7 DEF Lists
  <2>8. a.end \in Nat \ {0} /\ a.end >= l.end
    BY <2>1, <2>3
  <2> QED
    BY <1>2, <2>3, <2>4, <2>5, <2>6, <2>7, <2>8
<1> QED
  BY <1>1, <1>2

(* One clause is inserted into one list of a code.                         *)
Inserted(ls, r, v, sign, c, kind) ==
  /\ r \in ListTable
  /\ \A u \in CodeRange : u # v => r[u] = ls[u]
  /\ \A other \in Signs : other # sign => r[v][other] = Started(ls[v][other])
  /\ Longer(Started(ls[v][sign]), r[v][sign], c)
  /\ r[v][sign].fixed = IF kind = "fixed" THEN r[v][sign].end ELSE Started(ls[v][sign]).fixed

InsertedTable(ls, v, sign, c, kind) ==
  IF kind = "fixed" THEN insert_fixed_membership(ls, v, sign, c)
  ELSE insert_dynamic_membership(ls, v, sign, c)

(* Lists as insertions find them.                                          *)
Insertable(ls, v) ==
  /\ ls \in ListTable
  /\ ls[v]["pos"].cells = <<>> <=> ls[v]["neg"].cells = <<>>
  /\ \A sign \in Signs : ListFits(ls[v][sign])

LEMMA PreparedIs ==
  ASSUME NEW v \in CodeRange, NEW ls, Insertable(ls, v)
  PROVE  /\ Prepared(ls, v) \in ListTable
         /\ \A u \in CodeRange : u # v => Prepared(ls, v)[u] = ls[u]
         /\ \A sign \in Signs : Prepared(ls, v)[v][sign] = Started(ls[v][sign])
<1>1. Allocated \in ListRecord
  <2>1. <<-1>> \in Seq(Int)
    OBVIOUS
  <2> QED
    BY <2>1 DEF Allocated, ListRecord, EndOfList
<1>2. PICK a \in ListRecord : a = Allocated
  BY <1>1
<1>3. ls \in ListTable /\ ls[v] \in [Signs -> ListRecord]
  BY DEF Insertable, ListTable
<1>4. CASE ls[v]["pos"].cells = <<>>
  <2>1. Prepared(ls, v) = [ls EXCEPT ![v] = [sign \in Signs |-> a]]
    BY <1>2, <1>4 DEF Prepared
  <2>2. \A sign \in Signs : ls[v][sign].cells = <<>>
    BY <1>4 DEF Insertable, Signs
  <2>3. \A sign \in Signs : Started(ls[v][sign]) = a
    BY <1>2, <2>2 DEF Started
  <2>4. [sign \in Signs |-> a] \in [Signs -> ListRecord]
    OBVIOUS
  <2> QED
    BY <1>3, <2>1, <2>3, <2>4 DEF ListTable
<1>5. CASE ls[v]["pos"].cells # <<>>
  <2>1. Prepared(ls, v) = ls
    BY <1>5 DEF Prepared
  <2>2. \A sign \in Signs : ls[v][sign].cells # <<>>
    BY <1>5 DEF Insertable, Signs
  <2>3. \A sign \in Signs : Started(ls[v][sign]) = ls[v][sign]
    BY <2>2 DEF Started
  <2> QED
    BY <1>3, <2>1, <2>3
<1> QED
  BY <1>4, <1>5

LEMMA InsertedIs ==
  ASSUME NEW v \in CodeRange, NEW sign \in Signs, NEW ls, Insertable(ls, v), NEW c \in Nat, NEW kind
  PROVE  Inserted(ls, InsertedTable(ls, v, sign, c, kind), v, sign, c, kind)
<1>1. PICK ready : ready = Prepared(ls, v)
  OBVIOUS
<1>2. /\ ready \in ListTable
      /\ \A u \in CodeRange : u # v => ready[u] = ls[u]
      /\ \A other \in Signs : ready[v][other] = Started(ls[v][other])
  BY <1>1, PreparedIs
<1>3. ls[v][sign] \in ListRecord /\ ListFits(ls[v][sign])
  BY DEF Insertable, ListTable
<1>4. PICK l : l = Started(ls[v][sign])
  OBVIOUS
<1>5. l \in ListRecord /\ ListFits(l) /\ l.cells # <<>>
  BY <1>3, <1>4, StartedIs
<1>6. PICK r : r = WithClause(l, c)
  OBVIOUS
<1>7. Longer(l, r, c) /\ r.fixed = l.fixed
  BY <1>5, <1>6, WithClauseIs
<1>8. r \in ListRecord
  BY <1>7 DEF Longer
<1>9. PICK longer : longer = insert_dynamic_membership(ls, v, sign, c)
  OBVIOUS
<1>10. ready[v][sign] = l
  BY <1>2, <1>4
<1>11. longer = [ready EXCEPT ![v] = [ready[v] EXCEPT ![sign] = r]]
  BY <1>1, <1>6, <1>9, <1>10 DEF insert_dynamic_membership
<1>12. ready[v] \in [Signs -> ListRecord]
  BY <1>2 DEF ListTable
<1>13. PICK row : row = [ready[v] EXCEPT ![sign] = r]
  OBVIOUS
<1>14. row \in [Signs -> ListRecord] /\ row[sign] = r /\ \A other \in Signs : other # sign => row[other] = ready[v][other]
  BY <1>8, <1>12, <1>13
<1>15. longer \in ListTable /\ longer[v] = row /\ \A u \in CodeRange : u # v => longer[u] = ready[u]
  BY <1>2, <1>11, <1>13, <1>14 DEF ListTable
<1>16. CASE kind # "fixed"
  <2>1. InsertedTable(ls, v, sign, c, kind) = longer
    BY <1>9, <1>16 DEF InsertedTable
  <2> QED
    BY <1>2, <1>4, <1>7, <1>14, <1>15, <1>16, <2>1 DEF Inserted
<1>17. CASE kind = "fixed"
  <2>1. PICK q : q = [r EXCEPT !.fixed = r.end]
    OBVIOUS
  <2>2. q \in ListRecord /\ q.cells = r.cells /\ q.end = r.end /\ q.fixed = r.end
    BY <1>8, <2>1 DEF ListRecord
  <2>3. Longer(l, q, c)
    BY <1>7, <2>2 DEF Longer, ListFits
  <2>4. PICK row2 : row2 = [row EXCEPT ![sign] = q]
    OBVIOUS
  <2>5. row2 \in [Signs -> ListRecord] /\ row2[sign] = q /\ \A other \in Signs : other # sign => row2[other] = row[other]
    BY <1>14, <2>2, <2>4
  <2>6. PICK longest : longest = insert_fixed_membership(ls, v, sign, c)
    OBVIOUS
  <2>7. longest = [longer EXCEPT ![v] = row2]
    <3>1. longest = [longer EXCEPT ![v][sign].fixed = longer[v][sign].end]
      BY <1>9, <2>6 DEF insert_fixed_membership
    <3>2. longer[v] = row /\ row[sign] = r
      BY <1>14, <1>15
    <3>3. longest = [longer EXCEPT ![v] = [row EXCEPT ![sign] = [r EXCEPT !.fixed = r.end]]]
      BY <3>1, <3>2
    <3> QED
      BY <2>1, <2>4, <3>3
  <2>8. longest \in ListTable /\ longest[v] = row2 /\ \A u \in CodeRange : u # v => longest[u] = longer[u]
    BY <1>15, <2>5, <2>7 DEF ListTable
  <2>9. InsertedTable(ls, v, sign, c, kind) = longest
    BY <1>17, <2>6 DEF InsertedTable
  <2>10. \A other \in Signs : other # sign => longest[v][other] = Started(ls[v][other])
    BY <1>2, <1>14, <2>5, <2>8
  <2>11. \A u \in CodeRange : u # v => longest[u] = ls[u]
    BY <1>2, <1>15, <2>8
  <2> QED
    BY <1>4, <1>17, <2>2, <2>3, <2>5, <2>8, <2>9, <2>10, <2>11 DEF Inserted
<1> QED
  BY <1>16, <1>17

NewCode(b, lit) == IF b.codes[lit.f] = -1 THEN b.c + 1 ELSE b.codes[lit.f]

LEMMA CodedIs ==
  ASSUME NEW v \in Nat \ {0}, NEW sign \in Signs
  PROVE  /\ Coded(v, sign) \in Int /\ (Coded(v, sign) = v \/ Coded(v, sign) = -v)
         /\ \A u \in Nat \ {0}, other \in Signs : Coded(u, other) = Coded(v, sign) => u = v /\ other = sign
<1>1. /\ sign = "pos" => Coded(v, sign) = v
      /\ sign = "neg" => Coded(v, sign) = -v
  BY DEF Coded
<1>2. ASSUME NEW u \in Nat \ {0}, NEW other \in Signs, Coded(u, other) = Coded(v, sign)
      PROVE  u = v /\ other = sign
  <2>1. /\ other = "pos" => Coded(u, other) = u
        /\ other = "neg" => Coded(u, other) = -u
    BY DEF Coded
  <2>2. (sign = "pos" \/ sign = "neg") /\ (other = "pos" \/ other = "neg")
    BY DEF Signs
  <2> QED
    BY <1>1, <1>2, <2>1, <2>2
<1>3. sign = "pos" \/ sign = "neg"
  BY DEF Signs
<1> QED
  BY <1>1, <1>2, <1>3

LEMMA LiteralIsTyped ==
  ASSUME NEW lit \in TimedLiteral
  PROVE  lit.f \in TimedFacts /\ lit.sign \in Signs
BY DEF TimedLiteral

(* The code of a literal.                                                  *)
LEMMA NewCodeIs ==
  ASSUME NEW b, Fits(b), NEW lit \in TimedLiteral
  PROVE  /\ NewCode(b, lit) \in Nat \ {0} /\ b.c \in Nat
         /\ b.codes[lit.f] = -1 => NewCode(b, lit) = b.c + 1
         /\ b.codes[lit.f] # -1 => /\ NewCode(b, lit) = b.codes[lit.f] /\ NewCode(b, lit) <= b.c
                                   /\ b.facts[NewCode(b, lit)] = lit.f
<1>1. lit.f \in TimedFacts
  BY LiteralIsTyped
<1>2. b.c \in Nat /\ (b.codes[lit.f] = -1 \/ (b.codes[lit.f] \in 1..b.c /\ b.facts[b.codes[lit.f]] = lit.f))
  BY <1>1, ClauseAssumption DEF Fits, CodesFit
<1>3. PICK x : x = b.codes[lit.f]
  OBVIOUS
<1>4. NewCode(b, lit) = IF x = -1 THEN b.c + 1 ELSE x
  BY <1>3 DEF NewCode
<1> QED
  BY <1>2, <1>3, <1>4

(* What is left when a code is too high, and when it is not.               *)
LEMMA EncodedIs ==
  ASSUME NEW b, Fits(b), Len(b.clauses) >= 1, NEW lit \in TimedLiteral, NEW kind,
         NewCode(b, lit) <= MaxCodes,
         NEW r, r = EncodeLiteral(b, lit, kind), NEW code, code = NewCode(b, lit)
  PROVE  /\ code \in CodeRange /\ r \in BaseType
         /\ r.c = IF code > b.c THEN code ELSE b.c
         /\ r.codes[lit.f] = code /\ \A x \in TimedFacts : x # lit.f => r.codes[x] = b.codes[x]
         /\ r.facts[code] = lit.f /\ \A i \in CodeRange : i # code => r.facts[i] = b.facts[i]
         /\ Inserted(b.lists, r.lists, code, lit.sign, Len(b.clauses), kind)
         /\ r.clauses = Extended(b.clauses, Coded(code, lit.sign))
<1>1. lit.f \in TimedFacts /\ lit.sign \in Signs
  BY LiteralIsTyped
<1>2. b \in BaseType /\ b.c <= MaxCodes
  BY ClauseAssumption DEF Fits
<1>3. PICK cc \in Nat, cs \in [TimedFacts -> Int], fs \in [CodeRange -> TimedFacts \union {"none"}],
           ls \in ListTable, cl \in Seq(Seq(Int)) :
        b = [c |-> cc, codes |-> cs, facts |-> fs, lists |-> ls, clauses |-> cl]
  BY <1>2 DEF BaseType
<1>4. b.c = cc /\ b.codes = cs /\ b.facts = fs /\ b.lists = ls /\ b.clauses = cl
  BY <1>3
<1>5. code \in CodeRange /\ cc \in Nat
  BY <1>4, NewCodeIs, ClauseAssumption DEF CodeRange
<1>6. PICK r1, r2, r3, r4, r5 :
        /\ r1 = IF code > cc THEN code ELSE cc
        /\ r2 = [cs EXCEPT ![lit.f] = code]
        /\ r3 = [fs EXCEPT ![code] = lit.f]
        /\ r4 = InsertedTable(ls, code, lit.sign, Len(cl), kind)
        /\ r5 = Extended(cl, Coded(code, lit.sign))
  OBVIOUS
<1>7. r = [c |-> r1, codes |-> r2, facts |-> r3, lists |-> r4, clauses |-> r5]
  <2>1. code = IF cs[lit.f] = -1 THEN cc + 1 ELSE cs[lit.f]
    BY <1>4 DEF NewCode
  <2>2. ~(cc > MaxCodes) /\ ~(code > MaxCodes)
    BY <1>2, <1>4, <1>5, ClauseAssumption DEF CodeRange
  <2>3. r = IF cc > MaxCodes \/ code > MaxCodes THEN [b EXCEPT !.c = MaxCodes + 1]
            ELSE [c |-> r1, codes |-> r2, facts |-> r3, lists |-> r4, clauses |-> r5]
    BY <1>4, <1>6, <2>1, Zenon DEF EncodeLiteral, InsertedTable, Extended
  <2> QED
    BY <2>2, <2>3
<1>8. r.c = r1 /\ r.codes = r2 /\ r.facts = r3 /\ r.lists = r4 /\ r.clauses = r5
  BY <1>7
<1>9. Len(cl) \in Nat
  OBVIOUS
<1>10. Inserted(ls, r4, code, lit.sign, Len(cl), kind)
  <2>1. Insertable(ls, code)
    BY <1>3, <1>4, <1>5 DEF Fits, ListsFit, Insertable
  <2> QED
    BY <1>1, <1>5, <1>6, <1>9, <2>1, InsertedIs
<1>11. r5 \in Seq(Seq(Int))
  <2>1. Coded(code, lit.sign) \in Int
    BY <1>1, <1>5, CodedIs DEF CodeRange
  <2> QED
    BY <1>4, <1>6, <2>1, ExtendedIs
<1>12. r1 \in Nat /\ code \in Int
  BY <1>5, <1>6 DEF CodeRange
<1>13. r2 \in [TimedFacts -> Int] /\ r2[lit.f] = code /\ \A x \in TimedFacts : x # lit.f => r2[x] = cs[x]
  BY <1>1, <1>6, <1>12
<1>14. r3 \in [CodeRange -> TimedFacts \union {"none"}] /\ r3[code] = lit.f
       /\ \A i \in CodeRange : i # code => r3[i] = fs[i]
  BY <1>1, <1>5, <1>6
<1>15. r4 \in ListTable
  BY <1>10 DEF Inserted
<1>16. r \in BaseType
  BY <1>7, <1>11, <1>12, <1>13, <1>14, <1>15 DEF BaseType
<1> QED
  BY <1>4, <1>5, <1>6, <1>8, <1>10, <1>13, <1>14, <1>16

(* A literal of a clause keeps its code.                                   *)
LEMMA LiteralStays ==
  ASSUME NEW b, Fits(b), NEW lit \in TimedLiteral, NEW r, NEW code \in CodeRange, code = NewCode(b, lit),
         r.c = IF code > b.c THEN code ELSE b.c,
         r.codes[lit.f] = code, \A x \in TimedFacts : x # lit.f => r.codes[x] = b.codes[x],
         r.facts[code] = lit.f, \A i \in CodeRange : i # code => r.facts[i] = b.facts[i],
         NEW l, LiteralFits(b, l)
  PROVE  LiteralFits(r, l)
<1>1. PICK v \in 1..b.c : b.codes[b.facts[v]] = v /\ (l = v \/ l = -v)
  BY DEF LiteralFits
<1>2. b.c \in 0..MaxCodes /\ lit.f \in TimedFacts
  BY LiteralIsTyped DEF Fits
<1>3. b.facts[v] \in TimedFacts /\ v \in CodeRange
  BY <1>1, <1>2, ClauseAssumption DEF Fits, CodesFit, CodeRange
<1>4. code \in Nat
  BY DEF CodeRange
<1>5. v \in 1..r.c
  BY <1>1, <1>2, <1>4, ClauseAssumption
<1>6. CASE b.codes[lit.f] = -1
  <2>1. code # v
    BY <1>1, <1>2, <1>6, NewCodeIs
  <2>2. r.facts[v] = b.facts[v] /\ b.facts[v] # lit.f
    BY <1>1, <1>3, <1>6, <2>1
  <2>3. r.codes[r.facts[v]] = v
    BY <1>1, <1>3, <2>2
  <2> QED
    BY <1>1, <1>5, <2>3 DEF LiteralFits
<1>7. CASE b.codes[lit.f] # -1
  <2>1. code = b.codes[lit.f] /\ b.facts[code] = lit.f
    BY <1>7, NewCodeIs
  <2>2. r.facts[v] = b.facts[v]
    BY <1>3, <2>1
  <2>3. r.codes[b.facts[v]] = b.codes[b.facts[v]]
    BY <1>3, <2>1
  <2> QED
    BY <1>1, <1>5, <2>2, <2>3 DEF LiteralFits
<1> QED
  BY <1>6, <1>7

(* Encoding a literal that its clause does not contain yet keeps codes,    *)
(* clauses and lists together.                                             *)
LEMMA EncodedFits ==
  ASSUME NEW b, Fits(b), Len(b.clauses) >= 1, NEW lit \in TimedLiteral, NEW kind,
         NewCode(b, lit) <= MaxCodes, NEW r, r = EncodeLiteral(b, lit, kind),
         ~Contains(b.clauses[Len(b.clauses)], Coded(NewCode(b, lit), lit.sign))
  PROVE  Fits(r)
<1>1. PICK code : code = NewCode(b, lit)
  OBVIOUS
<1>2. /\ code \in CodeRange /\ r \in BaseType
      /\ r.c = IF code > b.c THEN code ELSE b.c
      /\ r.codes[lit.f] = code /\ \A x \in TimedFacts : x # lit.f => r.codes[x] = b.codes[x]
      /\ r.facts[code] = lit.f /\ \A i \in CodeRange : i # code => r.facts[i] = b.facts[i]
      /\ Inserted(b.lists, r.lists, code, lit.sign, Len(b.clauses), kind)
      /\ r.clauses = Extended(b.clauses, Coded(code, lit.sign))
  BY <1>1, EncodedIs
<1>3. lit.f \in TimedFacts /\ lit.sign \in Signs
  BY LiteralIsTyped
<1>4. /\ b.c \in 0..MaxCodes /\ b.clauses \in Seq(Seq(Int)) /\ b.lists \in ListTable
      /\ CodesFit(b) /\ ClausesFit(b) /\ ListsFit(b)
  BY DEF Fits, BaseType
<1>5. code \in Nat \ {0} /\ code <= MaxCodes /\ MaxCodes \in Nat /\ b.c \in Nat
  BY <1>2, <1>4, ClauseAssumption DEF CodeRange
<1>6. r.c \in 0..MaxCodes /\ code <= r.c /\ b.c <= r.c
  BY <1>2, <1>4, <1>5
<1>7. r.c = b.c \/ (r.c = b.c + 1 /\ code = b.c + 1)
  BY <1>1, <1>2, <1>5, NewCodeIs
<1>8. PICK l : l = Coded(code, lit.sign)
  OBVIOUS
<1>9. l \in Int /\ (l = code \/ l = -code)
  BY <1>3, <1>5, <1>8, CodedIs
<1>10. CodesFit(r)
  <2>1. ASSUME NEW x \in TimedFacts
        PROVE  r.codes[x] = -1 \/ (r.codes[x] \in 1..r.c /\ r.facts[r.codes[x]] = x)
    <3>1. CASE x = lit.f
      BY <1>2, <1>5, <1>6, <3>1
    <3>2. CASE x # lit.f /\ b.codes[x] # -1
      <4>1. b.codes[x] \in 1..b.c /\ b.facts[b.codes[x]] = x
        BY <1>4, <3>2 DEF CodesFit
      <4>2. b.codes[x] # code
        <5>1. CASE b.codes[lit.f] = -1
          BY <1>1, <1>5, <4>1, <5>1, NewCodeIs
        <5>2. CASE b.codes[lit.f] # -1
          BY <1>1, <3>2, <4>1, <5>2, NewCodeIs
        <5> QED
          BY <5>1, <5>2
      <4>3. b.codes[x] \in CodeRange /\ b.codes[x] \in 1..r.c
        BY <1>4, <1>5, <1>6, <4>1 DEF CodeRange
      <4> QED
        BY <1>2, <3>2, <4>1, <4>2, <4>3
    <3>3. CASE x # lit.f /\ b.codes[x] = -1
      BY <1>2, <3>3
    <3> QED
      BY <3>1, <3>2, <3>3
  <2>2. ASSUME NEW i \in 1..r.c
        PROVE  r.facts[i] \in TimedFacts /\ (r.codes[r.facts[i]] = -1 \/ r.codes[r.facts[i]] >= i)
    <3>1. i \in CodeRange
      BY <1>5, <1>6 DEF CodeRange
    <3>2. CASE i = code
      BY <1>2, <1>3, <1>5, <3>2
    <3>3. CASE i # code
      <4>1. i \in 1..b.c
        BY <1>5, <1>7, <3>3
      <4>2. r.facts[i] = b.facts[i] /\ b.facts[i] \in TimedFacts
            /\ (b.codes[b.facts[i]] = -1 \/ b.codes[b.facts[i]] >= i)
        BY <1>2, <1>4, <3>1, <3>3, <4>1 DEF CodesFit
      <4>3. CASE b.facts[i] # lit.f
        BY <1>2, <4>2, <4>3
      <4>4. CASE b.facts[i] = lit.f
        <5>1. r.codes[r.facts[i]] = code
          BY <1>2, <4>2, <4>4
        <5>2. code >= i
          BY <1>1, <1>5, <4>1, <4>2, <4>4, NewCodeIs
        <5> QED
          BY <4>2, <5>1, <5>2
      <4> QED
        BY <4>3, <4>4
    <3> QED
      BY <3>2, <3>3
  <2> QED
    BY <2>1, <2>2 DEF CodesFit
<1>11. Len(r.clauses) = Len(b.clauses)
       /\ \A k \in Int, n \in 1..Len(b.clauses) :
            Contains(r.clauses[n], k) <=> Contains(b.clauses[n], k) \/ (k = l /\ n = Len(b.clauses))
  <2>1. r.clauses = Extended(b.clauses, l)
    BY <1>2, <1>8
  <2>2. Len(Extended(b.clauses, l)) = Len(b.clauses)
        /\ \A k \in Int, n \in 1..Len(b.clauses) :
             Contains(Extended(b.clauses, l)[n], k) <=> Contains(b.clauses[n], k) \/ (k = l /\ n = Len(b.clauses))
    BY <1>4, <1>9, ExtendedIs
  <2> QED
    BY <2>1, <2>2, Zenon
<1>12. ClausesFit(r)
  <2> SUFFICES ASSUME NEW n \in 1..Len(r.clauses), NEW k \in 1..Len(r.clauses[n])
               PROVE  LiteralFits(r, r.clauses[n][k])
    BY DEF ClausesFit
  <2>1. PICK m : m = r.clauses[n][k]
    OBVIOUS
  <2>2. r.clauses \in Seq(Seq(Int))
    BY <1>2 DEF BaseType
  <2>3. r.clauses[n] \in Seq(Int)
    BY <2>2, ElementOfSeq
  <2>4. m \in Int /\ Contains(r.clauses[n], m)
    BY <2>1, <2>3, ElementOfSeq DEF Contains
  <2>5. CASE m = l
    <3>1. code \in 1..r.c /\ r.codes[r.facts[code]] = code
      BY <1>2, <1>5, <1>6
    <3> QED
      BY <1>9, <2>1, <2>5, <3>1 DEF LiteralFits
  <2>6. CASE m # l
    <3>1. n \in 1..Len(b.clauses) /\ Contains(b.clauses[n], m)
      BY <1>11, <2>4, <2>6
    <3>2. PICK j \in 1..Len(b.clauses[n]) : b.clauses[n][j] = m
      BY <3>1 DEF Contains
    <3>3. LiteralFits(b, m)
      BY <1>4, <3>1, <3>2 DEF ClausesFit
    <3>4. LiteralFits(r, m)
      BY <1>1, <1>2, <3>3, LiteralStays
    <3> QED
      BY <2>1, <3>4
  <2> QED
    BY <2>5, <2>6
<1>13. ASSUME NEW v \in CodeRange, NEW sign \in Signs
       PROVE  /\ b.lists[v][sign] \in ListRecord /\ ListFits(b.lists[v][sign])
              /\ Lists(b.lists[v][sign], Coded(v, sign), b.clauses)
              /\ Coded(v, sign) \in Int
              /\ (v # code \/ sign # lit.sign) => Coded(v, sign) # l
  <2>1. v \in Nat \ {0}
    BY DEF CodeRange
  <2>2. Coded(v, sign) \in Int /\ (Coded(v, sign) = l => v = code /\ sign = lit.sign)
    BY <1>3, <1>5, <1>8, <2>1, CodedIs
  <2> QED
    BY <1>4, <2>2 DEF ListsFit, ListTable
<1>14. ListsFit(r)
  <2> SUFFICES ASSUME NEW v \in CodeRange
               PROVE  /\ r.lists[v]["pos"].cells = <<>> <=> r.lists[v]["neg"].cells = <<>>
                      /\ \A sign \in Signs :
                           /\ ListFits(r.lists[v][sign])
                           /\ v <= r.c => r.lists[v][sign].cells # <<>>
                           /\ Lists(r.lists[v][sign], Coded(v, sign), r.clauses)
    BY DEF ListsFit
  <2>1. CASE v # code
    <3>1. r.lists[v] = b.lists[v]
      BY <1>2, <2>1 DEF Inserted
    <3>2. v <= r.c => v <= b.c
      BY <1>5, <1>7, <2>1 DEF CodeRange
    <3>3. ASSUME NEW sign \in Signs
          PROVE  Lists(r.lists[v][sign], Coded(v, sign), r.clauses)
      BY <1>2, <1>4, <1>8, <1>9, <1>13, <2>1, <3>1, ListsOther
    <3> QED
      BY <1>4, <3>1, <3>2, <3>3 DEF ListsFit
  <2>2. CASE v = code
    <3>1. ASSUME NEW sign \in Signs
          PROVE  /\ ListFits(r.lists[v][sign]) /\ r.lists[v][sign].cells # <<>>
                 /\ Lists(r.lists[v][sign], Coded(v, sign), r.clauses)
      <4>1. PICK old : old = Started(b.lists[v][sign])
        OBVIOUS
      <4>2. /\ old \in ListRecord /\ ListFits(old) /\ old.cells # <<>> /\ old.end \in Nat \ {0}
            /\ Lists(old, Coded(v, sign), b.clauses)
        BY <1>13, <4>1, StartedIs
      <4>3. CASE sign = lit.sign
        <5>1. Longer(old, r.lists[v][sign], Len(b.clauses))
          BY <1>2, <2>2, <4>1, <4>3 DEF Inserted
        <5>2. Coded(v, sign) = l /\ ~Contains(b.clauses[Len(b.clauses)], l)
          BY <1>1, <1>8, <2>2, <4>3
        <5>3. Lists(r.lists[v][sign], l, Extended(b.clauses, l))
          BY <1>4, <1>9, <4>2, <5>1, <5>2, ListsMore
        <5>4. Lists(r.lists[v][sign], Coded(v, sign), r.clauses)
          BY <1>2, <1>8, <5>2, <5>3
        <5> QED
          BY <5>1, <5>4 DEF Longer
      <4>4. CASE sign # lit.sign
        <5>1. r.lists[v][sign] = old
          BY <1>2, <2>2, <4>1, <4>4 DEF Inserted
        <5>2. Lists(old, Coded(v, sign), r.clauses)
          BY <1>2, <1>4, <1>8, <1>9, <1>13, <4>2, <4>4, ListsOther
        <5> QED
          BY <4>2, <5>1, <5>2
      <4> QED
        BY <4>3, <4>4
    <3> QED
      BY <3>1 DEF Signs
  <2> QED
    BY <2>1, <2>2
<1> QED
  BY <1>2, <1>6, <1>10, <1>12, <1>14 DEF Fits

(* What became of a list since the base had n clauses.                     *)
GrownList(l0, l, n, kind) ==
  /\ l0.end <= l.end
  /\ \A i \in 1..l.end - 1 : /\ i < l0.end => l.cells[i] = l0.cells[i]
                             /\ i >= l0.end => l.cells[i] > n
  /\ l0.cells # <<>> => l.cells # <<>>
  /\ kind = "fixed" => (l.cells # <<>> => l.fixed = l.end)
  /\ kind # "fixed" => /\ l0.cells # <<>> => l.fixed = l0.fixed
                       /\ l0.cells = <<>> /\ l.cells # <<>> => l.fixed = 1

Grown(b0, b, kind) ==
  /\ Len(b0.clauses) <= Len(b.clauses) /\ b0.c <= b.c
  /\ \A n \in 1..Len(b0.clauses) : b.clauses[n] = b0.clauses[n]
  /\ \A v \in CodeRange, sign \in Signs :
       GrownList(b0.lists[v][sign], b.lists[v][sign], Len(b0.clauses), kind)

LEMMA GrownStarted ==
  ASSUME NEW l0 \in ListRecord, NEW l \in ListRecord, ListFits(l), NEW n \in Nat, NEW kind,
         GrownList(l0, l, n, kind)
  PROVE  GrownList(l0, Started(l), n, kind)
<1>1. PICK s : s = Started(l)
  OBVIOUS
<1>2. /\ s \in ListRecord /\ s.cells # <<>> /\ s.end \in Nat \ {0} /\ s.end >= l.end
      /\ l.cells # <<>> => s = l
      /\ l.cells = <<>> => s.fixed = 1 /\ s.end = 1
  BY <1>1, StartedIs
<1>3. CASE l.cells # <<>>
  BY <1>1, <1>2, <1>3
<1>4. CASE l.cells = <<>>
  <2>1. s.fixed = 1 /\ s.end = 1 /\ 1..s.end - 1 = {}
    BY <1>2, <1>4
  <2>2. l0.cells = <<>>
    BY <1>4 DEF GrownList
  <2>3. l.end = 0 /\ l0.end <= l.end
    BY <1>4 DEF ListFits, GrownList
  <2>4. l0.end \in Nat
    BY DEF ListRecord
  <2> QED
    BY <1>1, <1>2, <2>1, <2>2, <2>3, <2>4 DEF GrownList
<1> QED
  BY <1>3, <1>4

LEMMA GrownLonger ==
  ASSUME NEW l0 \in ListRecord, NEW l \in ListRecord, l.cells # <<>>, l.end \in Nat \ {0},
         NEW n \in Nat, NEW kind, GrownList(l0, l, n, kind),
         NEW c \in Nat, c > n, NEW r, Longer(l, r, c),
         r.fixed = IF kind = "fixed" THEN r.end ELSE l.fixed
  PROVE  GrownList(l0, r, n, kind)
<1>1. PICK e \in Nat \ {0}, e0 \in Nat : e = l.end /\ e0 = l0.end
  BY DEF ListRecord
<1>2. r.end = e + 1 /\ r.cells[e] = c /\ (\A i \in 1..e - 1 : r.cells[i] = l.cells[i]) /\ r.cells # <<>>
  BY <1>1 DEF Longer
<1>3. e0 <= e /\ \A i \in 1..e - 1 : (i < e0 => l.cells[i] = l0.cells[i]) /\ (i >= e0 => l.cells[i] > n)
  BY <1>1 DEF GrownList
<1>4. ASSUME NEW i \in 1..e
      PROVE  (i < e0 => r.cells[i] = l0.cells[i]) /\ (i >= e0 => r.cells[i] > n)
  <2>1. CASE i = e
    BY <1>2, <1>3, <2>1
  <2>2. CASE i \in 1..e - 1
    BY <1>2, <1>3, <2>2
  <2> QED
    BY <2>1, <2>2
<1>5. e0 <= e + 1 /\ (e + 1) - 1 = e
  BY <1>3
<1>6. kind = "fixed" => (r.cells # <<>> => r.fixed = r.end)
  OBVIOUS
<1>7. kind # "fixed" => /\ l0.cells # <<>> => r.fixed = l0.fixed
                        /\ l0.cells = <<>> /\ r.cells # <<>> => r.fixed = 1
  BY DEF GrownList
<1> QED
  BY <1>1, <1>2, <1>4, <1>5, <1>6, <1>7 DEF GrownList

(* An encoded literal adds to what was there when the batch began.         *)
LEMMA EncodedGrows ==
  ASSUME NEW b0, Fits(b0), NEW b, Fits(b), NEW kind, Grown(b0, b, kind), Len(b0.clauses) < Len(b.clauses),
         NEW lit \in TimedLiteral, NewCode(b, lit) <= MaxCodes, NEW r, r = EncodeLiteral(b, lit, kind)
  PROVE  Grown(b0, r, kind)
<1>1. PICK N \in Nat, M \in Nat : N = Len(b0.clauses) /\ M = Len(b.clauses)
  <2>1. b0.clauses \in Seq(Seq(Int)) /\ b.clauses \in Seq(Seq(Int))
    BY DEF Fits, BaseType
  <2>2. Len(b0.clauses) \in Nat /\ Len(b.clauses) \in Nat
    BY <2>1, LenProperties
  <2> QED
    BY <2>2
<1>2. N < M /\ M >= 1
  BY <1>1
<1>3. PICK code : code = NewCode(b, lit)
  OBVIOUS
<1>4. /\ code \in CodeRange /\ r \in BaseType
      /\ r.c = IF code > b.c THEN code ELSE b.c
      /\ Inserted(b.lists, r.lists, code, lit.sign, M, kind)
      /\ r.clauses = Extended(b.clauses, Coded(code, lit.sign))
  BY <1>1, <1>2, <1>3, EncodedIs
<1>5. lit.sign \in Signs
  BY LiteralIsTyped
<1>6. b.c \in Nat /\ b0.c \in Nat /\ b.clauses \in Seq(Seq(Int)) /\ code \in Nat
  BY <1>4 DEF Fits, BaseType, CodeRange
<1>7. b0.c <= r.c
  BY <1>4, <1>6 DEF Grown
<1>8. Len(r.clauses) = M /\ \A n \in 1..N : r.clauses[n] = b0.clauses[n]
  <2>1. PICK l \in Int : l = Coded(code, lit.sign)
    BY <1>4, <1>5, CodedIs DEF CodeRange
  <2>2. Len(Extended(b.clauses, l)) = M
        /\ \A n \in 1..M : n # M => Extended(b.clauses, l)[n] = b.clauses[n]
    BY <1>1, <1>2, <1>6, ExtendedIs
  <2>3. \A n \in 1..N : n \in 1..M /\ n # M
    BY <1>2
  <2>4. \A n \in 1..N : b.clauses[n] = b0.clauses[n]
    BY <1>1 DEF Grown
  <2> QED
    BY <1>4, <2>1, <2>2, <2>3, <2>4
<1>9. ASSUME NEW v \in CodeRange, NEW sign \in Signs
      PROVE  GrownList(b0.lists[v][sign], r.lists[v][sign], N, kind)
  <2>1. PICK l0 \in ListRecord, l \in ListRecord : l0 = b0.lists[v][sign] /\ l = b.lists[v][sign] /\ ListFits(l)
    BY DEF Fits, BaseType, ListTable, ListsFit
  <2>2. GrownList(l0, l, N, kind)
    BY <1>1, <2>1 DEF Grown
  <2>3. CASE v # code
    BY <1>4, <2>1, <2>2, <2>3 DEF Inserted
  <2>4. CASE v = code /\ sign # lit.sign
    BY <1>4, <2>1, <2>2, <2>4, GrownStarted DEF Inserted
  <2>5. CASE v = code /\ sign = lit.sign
    <3>1. PICK s : s = Started(l)
      OBVIOUS
    <3>2. s \in ListRecord /\ s.cells # <<>> /\ s.end \in Nat \ {0}
      BY <2>1, <3>1, StartedIs
    <3>3. GrownList(l0, s, N, kind)
      BY <2>1, <2>2, <3>1, GrownStarted
    <3>4. PICK q : q = r.lists[v][sign]
      OBVIOUS
    <3>5. Longer(s, q, M) /\ q.fixed = IF kind = "fixed" THEN q.end ELSE s.fixed
      BY <1>4, <2>1, <2>5, <3>1, <3>4 DEF Inserted
    <3>6. GrownList(l0, q, N, kind)
      BY <1>2, <3>2, <3>3, <3>5, GrownLonger
    <3> QED
      BY <2>1, <3>4, <3>6
  <2> QED
    BY <2>3, <2>4, <2>5
<1> QED
  BY <1>1, <1>2, <1>7, <1>8, <1>9 DEF Grown

(* Induction over the naturals, about a set.                               *)
LEMMA NatSetInduction ==
  ASSUME NEW T, 0 \in T, \A n \in Nat : n \in T => n + 1 \in T
  PROVE  Nat \subseteq T
<1> DEFINE Out == Nat \ T
           R == OpToRel(<, Nat)
<1> SUFFICES ASSUME Out # {} PROVE FALSE
  OBVIOUS
<1>1. PICK x \in Out : \A y \in Out : <<y, x>> \notin R
  BY NatLessThanWellFounded, WFMin
<1>2. x - 1 \in Nat /\ x = (x - 1) + 1
  OBVIOUS
<1>3. x - 1 \in T
  <2>1. <<x - 1, x>> \in R
    BY <1>2 DEF OpToRel
  <2> QED
    BY <1>1, <1>2, <2>1
<1> QED
  BY <1>2, <1>3

(* What is known of a base while there are codes left.                     *)
SoFar(b0, b, kind) ==
  b \in BaseType /\ (b.c <= MaxCodes => Fits(b) /\ Grown(b0, b, kind))

LEMMA CountedIs ==
  ASSUME NEW b \in BaseType, NEW m \in Nat
  PROVE  [b EXCEPT !.c = m] \in BaseType /\ [b EXCEPT !.c = m].c = m
<1>1. PICK c \in Nat, codes \in [TimedFacts -> Int], facts \in [CodeRange -> TimedFacts \union {"none"}],
            ls \in ListTable, cls \in Seq(Seq(Int)) :
        b = [c |-> c, codes |-> codes, facts |-> facts, lists |-> ls, clauses |-> cls]
  BY DEF BaseType
<1>2. [b EXCEPT !.c = m] = [c |-> m, codes |-> codes, facts |-> facts, lists |-> ls, clauses |-> cls]
  BY <1>1
<1> QED
  BY <1>2 DEF BaseType

(* Either the codes have run out or the literal is encoded.                *)
LEMMA OutOfCodes ==
  ASSUME NEW b \in BaseType, b.c <= MaxCodes => Fits(b), NEW lit \in TimedLiteral, NEW kind,
         NEW r, r = EncodeLiteral(b, lit, kind)
  PROVE  (r \in BaseType /\ r.c > MaxCodes) \/ (b.c <= MaxCodes /\ NewCode(b, lit) <= MaxCodes)
<1>1. MaxCodes \in Nat /\ b.c \in Nat
  BY ClauseAssumption DEF BaseType
<1>2. CASE b.c > MaxCodes
  <2>1. r = [b EXCEPT !.c = MaxCodes + 1]
    BY <1>2 DEF EncodeLiteral
  <2>2. MaxCodes + 1 \in Nat /\ MaxCodes + 1 > MaxCodes
    BY <1>1
  <2> QED
    BY <2>1, <2>2, CountedIs
<1>3. CASE b.c <= MaxCodes /\ ~(NewCode(b, lit) <= MaxCodes)
  <2>1. NewCode(b, lit) > MaxCodes
    BY <1>1, <1>3, NewCodeIs
  <2>2. r = [b EXCEPT !.c = MaxCodes + 1]
    BY <2>1 DEF EncodeLiteral, NewCode
  <2>3. MaxCodes + 1 \in Nat /\ MaxCodes + 1 > MaxCodes
    BY <1>1
  <2> QED
    BY <2>2, <2>3, CountedIs
<1> QED
  BY <1>1, <1>2, <1>3

(* The last clause holds the first i literals of the one that is encoded.  *)
PartOf(b, clause, i) ==
  LET last == b.clauses[Len(b.clauses)] IN
  /\ Len(last) = i
  /\ \A k \in 1..i : b.codes[clause[k].f] # -1 /\ last[k] = Coded(b.codes[clause[k].f], clause[k].sign)

ClauseSoFar(b0, b, clause, i, kind) ==
  /\ SoFar(b0, b, kind)
  /\ b.c <= MaxCodes => Len(b0.clauses) < Len(b.clauses) /\ PartOf(b, clause, i)

(* An empty clause is opened.                                              *)
LEMMA OpenedIs ==
  ASSUME NEW b0, Fits(b0), NEW b, NEW kind, SoFar(b0, b, kind), NEW clause,
         NEW r, r = [b EXCEPT !.clauses = Append(@, <<>>)]
  PROVE  ClauseSoFar(b0, r, clause, 0, kind)
<1>1. b \in BaseType /\ b.clauses \in Seq(Seq(Int))
  BY DEF SoFar, BaseType
<1>2. PICK cls : cls = Append(b.clauses, <<>>)
  OBVIOUS
<1>3. <<>> \in Seq(Int)
  OBVIOUS
<1>4. PICK N \in Nat : N = Len(b.clauses)
  BY <1>1, LenProperties
<1>5. /\ cls \in Seq(Seq(Int)) /\ Len(cls) = N + 1
      /\ \A n \in 1..N : cls[n] = b.clauses[n]
      /\ cls[N + 1] = <<>>
  BY <1>1, <1>2, <1>3, <1>4, AppendProperties
<1>6. /\ r.c = b.c /\ r.codes = b.codes /\ r.facts = b.facts /\ r.lists = b.lists /\ r.clauses = cls
      /\ r \in BaseType
  <2>1. r = [b EXCEPT !.clauses = cls]
    BY <1>2
  <2> QED
    BY <1>1, <1>5, <2>1 DEF BaseType
<1>7. ASSUME b.c <= MaxCodes
      PROVE  Fits(r) /\ Grown(b0, r, kind) /\ Len(b0.clauses) < Len(r.clauses) /\ PartOf(r, clause, 0)
  <2>1. Fits(b) /\ Grown(b0, b, kind)
    BY <1>7 DEF SoFar
  <2>2. \A n \in 1..N + 1 : n \in 1..N \/ n = N + 1
    OBVIOUS
  <2>3. Len(<<>>) = 0 /\ 1..0 = {}
    OBVIOUS
  <2>4. \A l : ~Contains(<<>>, l)
    BY <2>3 DEF Contains
  <2>5. CodesFit(r) /\ \A l : LiteralFits(b, l) => LiteralFits(r, l)
    BY <1>6, <2>1 DEF Fits, CodesFit, LiteralFits
  <2>6. ClausesFit(r)
    <3> SUFFICES ASSUME NEW n \in 1..N + 1, NEW k \in 1..Len(cls[n])
                 PROVE  LiteralFits(r, cls[n][k])
      BY <1>5, <1>6 DEF ClausesFit
    <3>1. n \in 1..N
      BY <1>5, <2>2, <2>3
    <3>2. LiteralFits(b, b.clauses[n][k])
      BY <1>4, <1>5, <2>1, <3>1 DEF Fits, ClausesFit
    <3> QED
      BY <1>5, <2>5, <3>1, <3>2
  <2>7. ASSUME NEW list, NEW l, Lists(list, l, b.clauses)
        PROVE  Lists(list, l, cls)
    <3>1. 1..N \subseteq 1..N + 1
      OBVIOUS
    <3>2. \A n \in 1..N + 1 : Contains(cls[n], l) => n \in 1..N /\ Contains(b.clauses[n], l)
      BY <1>5, <2>2, <2>4
    <3> QED
      BY <1>4, <1>5, <2>7, <3>1, <3>2 DEF Lists
  <2>8. ListsFit(r)
    BY <1>6, <2>1, <2>7 DEF Fits, ListsFit
  <2>9. Fits(r)
    BY <1>6, <2>1, <2>5, <2>6, <2>8 DEF Fits
  <2>10. PICK N0 \in Nat : N0 = Len(b0.clauses)
    <3>1. b0.clauses \in Seq(Seq(Int))
      BY DEF Fits, BaseType
    <3> QED
      BY <3>1, LenProperties
  <2>11. N0 <= N /\ N0 < Len(r.clauses) /\ N0 <= Len(r.clauses)
    <3>1. N0 <= N
      BY <1>4, <2>1, <2>10 DEF Grown
    <3>2. Len(r.clauses) = N + 1
      BY <1>5, <1>6
    <3> QED
      BY <3>1, <3>2
  <2>12. \A n \in 1..N0 : r.clauses[n] = b0.clauses[n]
    <3>1. \A n \in 1..N0 : n \in 1..N
      BY <2>11
    <3> QED
      BY <1>5, <1>6, <2>1, <2>10, <3>1 DEF Grown
  <2>13. Grown(b0, r, kind)
    BY <1>6, <2>1, <2>10, <2>11, <2>12 DEF Grown
  <2>14. PartOf(r, clause, 0)
    BY <1>5, <1>6, <2>3 DEF PartOf
  <2> QED
    BY <2>9, <2>10, <2>11, <2>13, <2>14
<1> QED
  BY <1>6, <1>7 DEF ClauseSoFar, SoFar

(* The next literal of a clause is not among those before it.              *)
LEMMA NextIsNew ==
  ASSUME NEW clause \in Pool, NEW i \in Nat, i + 1 \in 1..Len(clause), NEW b, Fits(b), Len(b.clauses) >= 1,
         PartOf(b, clause, i)
  PROVE  ~Contains(b.clauses[Len(b.clauses)], Coded(NewCode(b, clause[i + 1]), clause[i + 1].sign))
<1>1. PICK last : last = b.clauses[Len(b.clauses)]
  OBVIOUS
<1>2. PICK lit : lit = clause[i + 1]
  OBVIOUS
<1>3. clause \in Seq(TimedLiteral) /\ \A j, k \in DOMAIN clause : clause[j] = clause[k] => j = k
  BY ClauseAssumption
<1>4. lit \in TimedLiteral /\ lit.f \in TimedFacts /\ lit.sign \in Signs
  BY <1>2, <1>3, ElementOfSeq, LiteralIsTyped
<1> SUFFICES ASSUME Contains(last, Coded(NewCode(b, lit), lit.sign))
             PROVE  FALSE
  BY <1>1, <1>2
<1>5. PICK k \in 1..Len(last) : last[k] = Coded(NewCode(b, lit), lit.sign)
  BY DEF Contains
<1>6. k \in 1..i
  BY <1>1, <1>5 DEF PartOf
<1>7. PICK other : other = clause[k]
  OBVIOUS
<1>8. k \in 1..Len(clause)
  BY <1>3, <1>6
<1>9. other \in TimedLiteral /\ other.f \in TimedFacts /\ other.sign \in Signs
  BY <1>3, <1>7, <1>8, ElementOfSeq, LiteralIsTyped
<1>10. b.codes[other.f] # -1 /\ last[k] = Coded(b.codes[other.f], other.sign)
  BY <1>1, <1>6, <1>7 DEF PartOf
<1>11. PICK w \in Nat \ {0} : w = b.codes[other.f] /\ b.facts[w] = other.f /\ w <= b.c
  <2>1. b.codes[other.f] \in 1..b.c /\ b.facts[b.codes[other.f]] = other.f
    BY <1>9, <1>10 DEF Fits, CodesFit
  <2> QED
    BY <2>1
<1>12. PICK v \in Nat \ {0} : v = NewCode(b, lit)
  BY <1>4, NewCodeIs
<1>13. w = v /\ other.sign = lit.sign
  <2>1. Coded(w, other.sign) = Coded(v, lit.sign)
    BY <1>5, <1>10, <1>11, <1>12
  <2>2. \A u \in Nat \ {0}, o \in Signs : Coded(u, o) = Coded(v, lit.sign) => u = v /\ o = lit.sign
    BY <1>4, CodedIs
  <2> QED
    BY <1>9, <2>1, <2>2
<1>14. b.facts[v] = lit.f
  <2>1. b.c \in Nat /\ (b.codes[lit.f] = -1 => v = b.c + 1) /\ (b.codes[lit.f] # -1 => b.facts[v] = lit.f)
    BY <1>4, <1>12, NewCodeIs
  <2>2. v <= b.c
    BY <1>11, <1>13
  <2> QED
    BY <1>12, <2>1, <2>2
<1>15. other.f = lit.f
  BY <1>11, <1>13, <1>14
<1>16. other = lit
  BY <1>4, <1>9, <1>13, <1>15 DEF TimedLiteral
<1>17. k = i + 1
  <2>1. DOMAIN clause = 1..Len(clause)
    BY <1>3
  <2>2. clause[k] = clause[i + 1] /\ k \in DOMAIN clause /\ i + 1 \in DOMAIN clause
    BY <1>2, <1>7, <1>8, <1>16, <2>1
  <2> QED
    BY <1>3, <2>2
<1> QED
  BY <1>6, <1>17

(* One more literal of a clause.                                           *)
LEMMA LiteralSoFar ==
  ASSUME NEW b0, Fits(b0), NEW clause \in Pool, NEW i \in Nat, i + 1 \in 1..Len(clause), NEW b, NEW kind,
         ClauseSoFar(b0, b, clause, i, kind), NEW r, r = EncodeLiteral(b, clause[i + 1], kind)
  PROVE  ClauseSoFar(b0, r, clause, i + 1, kind)
<1>1. PICK lit : lit = clause[i + 1]
  OBVIOUS
<1>2. clause \in Seq(TimedLiteral)
  BY ClauseAssumption
<1>3. lit \in TimedLiteral /\ lit.f \in TimedFacts /\ lit.sign \in Signs
  BY <1>1, <1>2, ElementOfSeq, LiteralIsTyped
<1>4. b \in BaseType /\ (b.c <= MaxCodes => Fits(b)) /\ b.c \in Nat /\ MaxCodes \in Nat
  BY ClauseAssumption DEF ClauseSoFar, SoFar, BaseType
<1>5. CASE r \in BaseType /\ r.c > MaxCodes
  <2>1. ~(r.c <= MaxCodes)
    BY <1>4, <1>5 DEF BaseType
  <2> QED
    BY <1>5, <2>1 DEF ClauseSoFar, SoFar
<1>6. CASE b.c <= MaxCodes /\ NewCode(b, lit) <= MaxCodes
  <2>1. Fits(b) /\ Grown(b0, b, kind) /\ Len(b0.clauses) < Len(b.clauses) /\ PartOf(b, clause, i)
    BY <1>6 DEF ClauseSoFar, SoFar
  <2>2. PICK N \in Nat, M \in Nat : N = Len(b0.clauses) /\ M = Len(b.clauses)
    <3>1. b0.clauses \in Seq(Seq(Int)) /\ b.clauses \in Seq(Seq(Int))
      BY <2>1 DEF Fits, BaseType
    <3>2. Len(b0.clauses) \in Nat /\ Len(b.clauses) \in Nat
      BY <3>1, LenProperties
    <3> QED
      BY <3>2
  <2>3. M >= 1 /\ N < M
    BY <2>1, <2>2
  <2>4. ~Contains(b.clauses[M], Coded(NewCode(b, lit), lit.sign))
    BY <1>1, <2>1, <2>2, <2>3, NextIsNew
  <2>5. Fits(r)
    BY <1>1, <1>3, <1>6, <2>1, <2>2, <2>3, <2>4, EncodedFits
  <2>6. Grown(b0, r, kind)
    BY <1>1, <1>3, <1>6, <2>1, EncodedGrows
  <2>7. PICK code : code = NewCode(b, lit)
    OBVIOUS
  <2>8. /\ r \in BaseType /\ r.codes[lit.f] = code /\ code \in CodeRange
        /\ \A x \in TimedFacts : x # lit.f => r.codes[x] = b.codes[x]
        /\ r.clauses = Extended(b.clauses, Coded(code, lit.sign))
    BY <1>1, <1>3, <1>6, <2>1, <2>2, <2>3, <2>7, EncodedIs
  <2>9. PICK l \in Int : l = Coded(code, lit.sign)
    BY <1>3, <2>8, CodedIs DEF CodeRange
  <2>10. b.clauses \in Seq(Seq(Int))
    BY <2>1 DEF Fits, BaseType
  <2>11. r.clauses = Extended(b.clauses, l)
    BY <2>8, <2>9
  <2>12. Len(r.clauses) = M /\ r.clauses[M] = Append(b.clauses[M], l)
    <3>1. Len(b.clauses) >= 1
      BY <2>2, <2>3
    <3>2. /\ Len(Extended(b.clauses, l)) = Len(b.clauses)
          /\ Extended(b.clauses, l)[Len(b.clauses)] = Append(b.clauses[Len(b.clauses)], l)
      BY <2>10, <3>1, ExtendedIs
    <3> QED
      BY <2>2, <2>11, <3>2
  <2>13. PICK last, more : last = b.clauses[M] /\ more = r.clauses[M]
    OBVIOUS
  <2>14. last \in Seq(Int) /\ Len(last) = i
         /\ \A k \in 1..i : b.codes[clause[k].f] # -1 /\ last[k] = Coded(b.codes[clause[k].f], clause[k].sign)
    <3>1. last \in Seq(Int)
      BY <2>2, <2>3, <2>10, <2>13, ElementOfSeq
    <3> QED
      BY <2>1, <2>2, <2>13, <3>1 DEF PartOf
  <2>15. Len(more) = i + 1 /\ more[i + 1] = l /\ \A k \in 1..i : more[k] = last[k]
    BY <2>12, <2>13, <2>14, AppendProperties
  <2>16. ASSUME NEW k \in 1..i + 1
         PROVE  r.codes[clause[k].f] # -1 /\ more[k] = Coded(r.codes[clause[k].f], clause[k].sign)
    <3>1. CASE k = i + 1
      BY <1>1, <2>8, <2>9, <2>15, <3>1 DEF CodeRange
    <3>2. CASE k # i + 1
      <4>1. k \in 1..i /\ k \in 1..Len(clause)
        BY <1>2, <3>2
      <4>2. clause[k].f \in TimedFacts
        BY <1>2, <4>1, ElementOfSeq, LiteralIsTyped
      <4>3. b.codes[clause[k].f] # -1 /\ more[k] = Coded(b.codes[clause[k].f], clause[k].sign)
        BY <2>14, <2>15, <4>1
      <4>4. r.codes[clause[k].f] = b.codes[clause[k].f]
        <5>1. CASE clause[k].f # lit.f
          BY <2>8, <4>2, <5>1
        <5>2. CASE clause[k].f = lit.f
          BY <1>3, <2>1, <2>7, <2>8, <4>3, <5>2, NewCodeIs
        <5> QED
          BY <5>1, <5>2
      <4> QED
        BY <4>3, <4>4
    <3> QED
      BY <3>1, <3>2
  <2>17. PartOf(r, clause, i + 1)
    BY <2>12, <2>13, <2>15, <2>16 DEF PartOf
  <2> QED
    BY <2>2, <2>3, <2>5, <2>6, <2>8, <2>12, <2>17 DEF ClauseSoFar, SoFar
<1> QED
  BY <1>1, <1>3, <1>4, <1>5, <1>6, OutOfCodes

(* done is the base after each literal of a clause.                        *)
CodedUpTo(done, b, clause, kind, k) ==
  done = [i \in 0..k |->
            IF i = 0 THEN [b EXCEPT !.clauses = Append(@, <<>>)]
            ELSE EncodeLiteral(done[i - 1], clause[i], kind)]

LEMMA CodedUpToExists ==
  ASSUME NEW b, NEW clause, NEW kind, NEW N \in Nat
  PROVE  \E done : CodedUpTo(done, b, clause, kind, N)
<1> DEFINE T == {k \in Nat : \E done : CodedUpTo(done, b, clause, kind, k)}
<1>1. 0 \in T
  <2>1. CodedUpTo([i \in 0..0 |-> [b EXCEPT !.clauses = Append(@, <<>>)]], b, clause, kind, 0)
    BY DEF CodedUpTo
  <2> QED
    BY <2>1
<1>2. ASSUME NEW k \in Nat, k \in T
      PROVE  k + 1 \in T
  <2>1. PICK f : CodedUpTo(f, b, clause, kind, k)
    BY <1>2
  <2>2. PICK last : last = EncodeLiteral(f[k], clause[k + 1], kind)
    OBVIOUS
  <2>3. PICK first : first = [b EXCEPT !.clauses = Append(@, <<>>)]
    OBVIOUS
  <2>4. PICK g : g = [i \in 0..k + 1 |-> IF i <= k THEN f[i] ELSE last]
    OBVIOUS
  <2>5. ASSUME NEW i \in 0..k + 1
        PROVE  g[i] = IF i = 0 THEN first ELSE EncodeLiteral(g[i - 1], clause[i], kind)
    <3>1. CASE i = k + 1
      <4>1. i - 1 = k /\ g[k] = f[k] /\ g[i] = last /\ i # 0
        BY <2>4, <3>1
      <4> QED
        BY <2>2, <3>1, <4>1
    <3>2. CASE i \in 0..k
      <4>1. f[i] = IF i = 0 THEN first ELSE EncodeLiteral(f[i - 1], clause[i], kind)
        BY <2>1, <2>3, <3>2 DEF CodedUpTo
      <4>2. g[i] = f[i] /\ (i # 0 => g[i - 1] = f[i - 1])
        BY <2>4, <3>2
      <4> QED
        BY <4>1, <4>2
    <3> QED
      BY <3>1, <3>2
  <2>6. CodedUpTo(g, b, clause, kind, k + 1)
    BY <2>3, <2>4, <2>5 DEF CodedUpTo
  <2> QED
    BY <2>6
<1> HIDE DEF T
<1>3. Nat \subseteq T
  BY <1>1, <1>2, NatSetInduction
<1> QED
  BY <1>3 DEF T

(* A clause is encoded.                                                    *)
LEMMA ClauseEncoded ==
  ASSUME NEW b0, Fits(b0), NEW b, NEW kind, SoFar(b0, b, kind), NEW clause \in Pool
  PROVE  SoFar(b0, EncodeClause(b, clause, kind), kind)
<1>1. clause \in Seq(TimedLiteral)
  BY ClauseAssumption
<1>2. PICK N \in Nat : N = Len(clause)
  BY <1>1
<1>3. \E done : CodedUpTo(done, b, clause, kind, N)
  BY <1>2, CodedUpToExists
<1>4. PICK done : done = CHOOSE f : CodedUpTo(f, b, clause, kind, N)
  OBVIOUS
<1>5. CodedUpTo(done, b, clause, kind, N)
  BY <1>3, <1>4
<1>6. EncodeClause(b, clause, kind) = done[N]
  BY <1>2, <1>4, Zenon DEF EncodeClause, CodedUpTo
<1> DEFINE T == {k \in Nat : k <= N => ClauseSoFar(b0, done[k], clause, k, kind)}
<1>7. 0 \in T
  <2>1. done[0] = [b EXCEPT !.clauses = Append(@, <<>>)]
    BY <1>5 DEF CodedUpTo
  <2>2. ClauseSoFar(b0, done[0], clause, 0, kind)
    BY <2>1, OpenedIs
  <2> QED
    BY <2>2
<1>8. ASSUME NEW k \in Nat, k \in T
      PROVE  k + 1 \in T
  <2> SUFFICES ASSUME k + 1 <= N
               PROVE  ClauseSoFar(b0, done[k + 1], clause, k + 1, kind)
    OBVIOUS
  <2>1. ClauseSoFar(b0, done[k], clause, k, kind)
    BY <1>8
  <2>2. done[k + 1] = EncodeLiteral(done[k], clause[k + 1], kind)
    <3>1. k + 1 \in 0..N /\ k + 1 # 0 /\ (k + 1) - 1 = k
      OBVIOUS
    <3> QED
      BY <1>5, <3>1 DEF CodedUpTo
  <2>3. k + 1 \in 1..Len(clause)
    BY <1>2
  <2>4. PICK d, r : d = done[k] /\ r = done[k + 1]
    OBVIOUS
  <2>5. ClauseSoFar(b0, d, clause, k, kind) /\ r = EncodeLiteral(d, clause[k + 1], kind)
    BY <2>1, <2>2, <2>4
  <2> QED
    BY <2>3, <2>4, <2>5, LiteralSoFar
<1> HIDE DEF T
<1>9. Nat \subseteq T
  BY <1>7, <1>8, NatSetInduction
<1>10. ClauseSoFar(b0, done[N], clause, N, kind)
  BY <1>9 DEF T
<1> QED
  BY <1>6, <1>10 DEF ClauseSoFar

(* done is the base after each clause of a batch.                          *)
EncodedUpTo(done, b, batch, kind, k) ==
  done = [i \in 0..k |-> IF i = 0 THEN b ELSE EncodeClause(done[i - 1], batch[i], kind)]

LEMMA EncodedUpToExists ==
  ASSUME NEW b, NEW batch, NEW kind, NEW N \in Nat
  PROVE  \E done : EncodedUpTo(done, b, batch, kind, N)
<1> DEFINE T == {k \in Nat : \E done : EncodedUpTo(done, b, batch, kind, k)}
<1>1. 0 \in T
  <2>1. EncodedUpTo([i \in 0..0 |-> b], b, batch, kind, 0)
    BY DEF EncodedUpTo
  <2> QED
    BY <2>1
<1>2. ASSUME NEW k \in Nat, k \in T
      PROVE  k + 1 \in T
  <2>1. PICK f : EncodedUpTo(f, b, batch, kind, k)
    BY <1>2
  <2>2. PICK last : last = EncodeClause(f[k], batch[k + 1], kind)
    OBVIOUS
  <2>3. PICK g : g = [i \in 0..k + 1 |-> IF i <= k THEN f[i] ELSE last]
    OBVIOUS
  <2>4. ASSUME NEW i \in 0..k + 1
        PROVE  g[i] = IF i = 0 THEN b ELSE EncodeClause(g[i - 1], batch[i], kind)
    <3>1. CASE i = k + 1
      <4>1. i - 1 = k /\ g[k] = f[k] /\ g[i] = last /\ i # 0
        BY <2>3, <3>1
      <4> QED
        BY <2>2, <3>1, <4>1
    <3>2. CASE i \in 0..k
      <4>1. f[i] = IF i = 0 THEN b ELSE EncodeClause(f[i - 1], batch[i], kind)
        BY <2>1, <3>2 DEF EncodedUpTo
      <4>2. g[i] = f[i] /\ (i # 0 => g[i - 1] = f[i - 1])
        BY <2>3, <3>2
      <4> QED
        BY <4>1, <4>2
    <3> QED
      BY <3>1, <3>2
  <2>5. EncodedUpTo(g, b, batch, kind, k + 1)
    BY <2>3, <2>4 DEF EncodedUpTo
  <2> QED
    BY <2>5
<1> HIDE DEF T
<1>3. Nat \subseteq T
  BY <1>1, <1>2, NatSetInduction
<1> QED
  BY <1>3 DEF T

(* A batch of clauses is encoded: the base still fits together and has     *)
(* only grown, or the codes have run out.                                  *)
LEMMA BatchEncoded ==
  ASSUME NEW b, Fits(b), NEW kind, NEW batch \in Seq(Pool),
         kind = "fixed" => \A v \in CodeRange, sign \in Signs : b.lists[v][sign].cells = <<>>,
         NEW r, r = Encode(b, batch, kind)
  PROVE  SoFar(b, r, kind)
<1>1. PICK N \in Nat : N = Len(batch)
  BY LenProperties
<1>2. \E done : EncodedUpTo(done, b, batch, kind, N)
  BY <1>1, EncodedUpToExists
<1>3. PICK done : done = CHOOSE f : EncodedUpTo(f, b, batch, kind, N)
  OBVIOUS
<1>4. EncodedUpTo(done, b, batch, kind, N)
  BY <1>2, <1>3
<1>5. r = done[N]
  BY <1>1, <1>3, Zenon DEF Encode, EncodedUpTo
<1>6. SoFar(b, b, kind)
  <2>1. b \in BaseType
    BY DEF Fits
  <2>2. PICK n \in Nat : n = Len(b.clauses)
    <3>1. b.clauses \in Seq(Seq(Int))
      BY <2>1 DEF BaseType
    <3> QED
      BY <3>1, LenProperties
  <2>3. b.c \in Nat
    BY <2>1 DEF BaseType
  <2>4. ASSUME NEW v \in CodeRange, NEW sign \in Signs
        PROVE  GrownList(b.lists[v][sign], b.lists[v][sign], n, kind)
    <3>1. PICK l \in ListRecord : l = b.lists[v][sign]
      BY <2>1 DEF BaseType, ListTable
    <3>2. l.end \in Nat
      BY DEF ListRecord
    <3>3. kind = "fixed" => l.cells = <<>>
      BY <3>1
    <3>4. l.end <= l.end /\ \A i \in 1..l.end - 1 : i < l.end /\ ~(i >= l.end)
      BY <3>2
    <3> QED
      BY <3>1, <3>3, <3>4 DEF GrownList
  <2> QED
    BY <2>1, <2>2, <2>3, <2>4 DEF SoFar, Grown
<1> DEFINE T == {k \in Nat : k <= N => SoFar(b, done[k], kind)}
<1>7. 0 \in T
  <2>1. done[0] = b
    BY <1>4 DEF EncodedUpTo
  <2> QED
    BY <1>6, <2>1
<1>8. ASSUME NEW k \in Nat, k \in T
      PROVE  k + 1 \in T
  <2> SUFFICES ASSUME k + 1 <= N
               PROVE  SoFar(b, done[k + 1], kind)
    OBVIOUS
  <2>1. SoFar(b, done[k], kind)
    BY <1>8
  <2>2. done[k + 1] = EncodeClause(done[k], batch[k + 1], kind)
    <3>1. k + 1 \in 0..N /\ k + 1 # 0 /\ (k + 1) - 1 = k
      OBVIOUS
    <3> QED
      BY <1>4, <3>1 DEF EncodedUpTo
  <2>3. batch[k + 1] \in Pool
    BY <1>1, ElementOfSeq
  <2> QED
    BY <2>1, <2>2, <2>3, ClauseEncoded
<1> HIDE DEF T
<1>9. Nat \subseteq T
  BY <1>7, <1>8, NatSetInduction
<1> QED
  BY <1>5, <1>9 DEF T

(* The base can be cut back to its first n clauses and c codes, with the   *)
(* ends of the lists at e.                                                 *)
CutsAt(b, n, c, e) ==
  /\ n \in 0..Len(b.clauses) /\ c \in 0..b.c
  /\ \A v \in 1..c, sign \in Signs :
       /\ e[v][sign] \in 1..b.lists[v][sign].end
       /\ \A i \in 1..b.lists[v][sign].end - 1 : b.lists[v][sign].cells[i] <= n <=> i < e[v][sign]
  /\ \A m \in 1..n : \A k \in 1..Len(b.clauses[m]) : b.clauses[m][k] \in -c..c

(* r is b, cut back.                                                       *)
IsCut(b, r, n, c, e) ==
  /\ r \in BaseType /\ r.c \in c..b.c /\ r.facts = b.facts
  /\ \A x \in TimedFacts : r.codes[x] = IF b.codes[x] > c THEN -1 ELSE b.codes[x]
  /\ Len(r.clauses) = n /\ \A m \in 1..n : r.clauses[m] = b.clauses[m]
  /\ \A v \in CodeRange, sign \in Signs :
       /\ r.lists[v][sign].cells = b.lists[v][sign].cells
       /\ r.lists[v][sign].fixed = b.lists[v][sign].fixed
       /\ r.lists[v][sign].end = IF v <= c THEN e[v][sign] ELSE IF v <= b.c THEN 1 ELSE b.lists[v][sign].end

(* What is used of the types.                                              *)
LEMMA BaseIs ==
  ASSUME NEW b, Fits(b)
  PROVE  /\ b.c \in Nat /\ b.c <= MaxCodes /\ MaxCodes \in Nat /\ Len(b.clauses) \in Nat
         /\ 1..b.c \subseteq CodeRange
         /\ \A x \in TimedFacts : b.codes[x] \in Int
         /\ \A n \in 1..Len(b.clauses) : b.clauses[n] \in Seq(Int)
         /\ \A v \in CodeRange, sign \in Signs : b.lists[v][sign] \in ListRecord
<1>1. b \in BaseType /\ MaxCodes \in Nat /\ b.c \in 0..MaxCodes
  BY ClauseAssumption DEF Fits
<1>2. PICK cls \in Seq(Seq(Int)), codes \in [TimedFacts -> Int], ls \in ListTable :
        b.clauses = cls /\ b.codes = codes /\ b.lists = ls
  BY <1>1 DEF BaseType
<1>3. Len(cls) \in Nat /\ \A n \in 1..Len(cls) : cls[n] \in Seq(Int)
  BY ElementOfSeq, LenProperties
<1>4. 1..b.c \subseteq CodeRange /\ b.c \in Nat /\ b.c <= MaxCodes
  BY <1>1 DEF CodeRange
<1>5. \A v \in CodeRange, sign \in Signs : ls[v][sign] \in ListRecord
  BY DEF ListTable
<1> QED
  BY <1>1, <1>2, <1>3, <1>4, <1>5

(* A literal of a code that is not in use is in no clause.                 *)
LEMMA UnusedCode ==
  ASSUME NEW b, Fits(b), NEW v \in CodeRange, v > b.c, NEW sign \in Signs, NEW m \in 1..Len(b.clauses)
  PROVE  ~Contains(b.clauses[m], Coded(v, sign))
<1> SUFFICES ASSUME Contains(b.clauses[m], Coded(v, sign))
             PROVE  FALSE
  OBVIOUS
<1>1. PICK k \in 1..Len(b.clauses[m]) : b.clauses[m][k] = Coded(v, sign)
  BY DEF Contains
<1>2. PICK l : l = Coded(v, sign)
  OBVIOUS
<1>3. LiteralFits(b, l)
  BY <1>1, <1>2 DEF Fits, ClausesFit
<1>4. b.c \in Nat /\ v \in Nat \ {0}
  BY BaseIs DEF CodeRange
<1>5. PICK u \in 1..b.c : l = u \/ l = -u
  BY <1>3 DEF LiteralFits
<1>6. l = v \/ l = -v
  BY <1>2, <1>4, CodedIs
<1> QED
  BY <1>4, <1>5, <1>6

LEMMA CutCodesFit ==
  ASSUME NEW b, Fits(b), NEW n, NEW c, NEW e, CutsAt(b, n, c, e), NEW r, IsCut(b, r, n, c, e)
  PROVE  CodesFit(r)
<1>1. b.c \in Nat /\ c \in 0..b.c /\ r.c \in c..b.c /\ \A x \in TimedFacts : b.codes[x] \in Int
  BY BaseIs DEF CutsAt, IsCut
<1>2. ASSUME NEW x \in TimedFacts
      PROVE  r.codes[x] = -1 \/ (r.codes[x] \in 1..r.c /\ r.facts[r.codes[x]] = x)
  <2>1. PICK w \in Int : w = b.codes[x]
    BY <1>1
  <2>2. w = -1 \/ (w \in 1..b.c /\ b.facts[w] = x)
    BY <2>1 DEF Fits, CodesFit
  <2>3. r.codes[x] = IF w > c THEN -1 ELSE w
    BY <2>1 DEF IsCut
  <2>4. r.facts = b.facts
    BY DEF IsCut
  <2>5. CASE w > c
    BY <2>3, <2>5
  <2>6. CASE ~(w > c)
    <3>1. r.codes[x] = w
      BY <2>3, <2>6
    <3>2. w # -1 => w \in 1..r.c
      BY <1>1, <2>2, <2>6
    <3> QED
      BY <2>2, <2>4, <3>1, <3>2
  <2> QED
    BY <2>5, <2>6
<1>3. ASSUME NEW i \in 1..r.c
      PROVE  r.facts[i] \in TimedFacts /\ (r.codes[r.facts[i]] = -1 \/ r.codes[r.facts[i]] >= i)
  <2>1. i \in 1..b.c
    BY <1>1
  <2>2. PICK x : x = b.facts[i]
    OBVIOUS
  <2>3. x \in TimedFacts /\ (b.codes[x] = -1 \/ b.codes[x] >= i)
    BY <2>1, <2>2 DEF Fits, CodesFit
  <2>4. r.facts[i] = x /\ r.codes[x] = IF b.codes[x] > c THEN -1 ELSE b.codes[x]
    BY <2>2, <2>3 DEF IsCut
  <2> QED
    BY <2>3, <2>4
<1> QED
  BY <1>2, <1>3 DEF CodesFit

LEMMA CutClausesFit ==
  ASSUME NEW b, Fits(b), NEW n, NEW c, NEW e, CutsAt(b, n, c, e), NEW r, IsCut(b, r, n, c, e)
  PROVE  ClausesFit(r)
<1> SUFFICES ASSUME NEW m \in 1..n, NEW k \in 1..Len(b.clauses[m])
             PROVE  LiteralFits(r, b.clauses[m][k])
  BY DEF ClausesFit, IsCut
<1>1. b.c \in Nat /\ c \in 0..b.c /\ r.c \in c..b.c /\ n \in 0..Len(b.clauses) /\ Len(b.clauses) \in Nat
  BY BaseIs DEF CutsAt, IsCut
<1>2. m \in 1..Len(b.clauses)
  BY <1>1
<1>3. PICK l : l = b.clauses[m][k]
  OBVIOUS
<1>4. l \in -c..c /\ LiteralFits(b, l)
  BY <1>2, <1>3 DEF CutsAt, Fits, ClausesFit
<1>5. PICK v \in 1..b.c : b.codes[b.facts[v]] = v /\ (l = v \/ l = -v)
  BY <1>4 DEF LiteralFits
<1>6. v <= c /\ v \in 1..r.c
  BY <1>1, <1>4, <1>5
<1>7. PICK x : x = b.facts[v]
  OBVIOUS
<1>8. x \in TimedFacts
  BY <1>5, <1>7 DEF Fits, CodesFit
<1>9. r.facts[v] = x /\ r.codes[x] = v
  <2>1. r.codes[x] = IF b.codes[x] > c THEN -1 ELSE b.codes[x]
    BY <1>8 DEF IsCut
  <2>2. ~(v > c) /\ b.codes[x] = v
    BY <1>1, <1>5, <1>6, <1>7
  <2> QED
    BY <1>7, <2>1, <2>2 DEF IsCut
<1>10. LiteralFits(r, l)
  BY <1>5, <1>6, <1>9 DEF LiteralFits
<1> QED
  BY <1>3, <1>10

LEMMA CutListFits ==
  ASSUME NEW b, Fits(b), NEW n, NEW c, NEW e, CutsAt(b, n, c, e), NEW r, IsCut(b, r, n, c, e),
         NEW v \in CodeRange, NEW sign \in Signs
  PROVE  /\ ListFits(r.lists[v][sign])
         /\ Lists(r.lists[v][sign], Coded(v, sign), r.clauses)
<1>0. PICK q : q = r.lists[v][sign]
  OBVIOUS
<1>1. PICK l \in ListRecord : l = b.lists[v][sign] /\ q = r.lists[v][sign]
  BY <1>0, BaseIs
<1>2. PICK lit : lit = Coded(v, sign)
  OBVIOUS
<1>3. ListFits(l) /\ Lists(l, lit, b.clauses) /\ (v <= b.c => l.cells # <<>>)
  BY <1>1, <1>2 DEF Fits, ListsFit
<1>4. /\ q.cells = l.cells
      /\ q.end = IF v <= c THEN e[v][sign] ELSE IF v <= b.c THEN 1 ELSE l.end
  BY <1>1 DEF IsCut
<1>5. PICK N \in Nat : N = Len(b.clauses)
  BY BaseIs
<1>6. n \in 0..N /\ b.c \in Nat /\ c \in 0..b.c /\ v \in Nat \ {0} /\ l.end \in Nat
  BY <1>5, BaseIs DEF CutsAt, CodeRange, ListRecord
<1>7. Len(r.clauses) = n /\ \A m \in 1..n : r.clauses[m] = b.clauses[m] /\ m \in 1..N
  BY <1>6 DEF IsCut
<1>8. v <= b.c => l.end \in 1..Len(l.cells) /\ \A k \in 1..Len(l.cells) : l.cells[k] = EndOfList <=> k = Len(l.cells)
  BY <1>3 DEF ListFits
<1>9. Len(l.cells) \in Nat
  BY LenProperties DEF ListRecord
<1>10. CASE v <= c
  <2>1. v \in 1..c /\ v <= b.c
    BY <1>6, <1>10
  <2>2. PICK end : end = e[v][sign]
    OBVIOUS
  <2>3. /\ end \in 1..l.end /\ q.end = end
        /\ \A i \in 1..l.end - 1 : l.cells[i] <= n <=> i < end
    BY <1>1, <1>4, <1>10, <2>1, <2>2 DEF CutsAt
  <2>4. ListFits(q)
    BY <1>4, <1>6, <1>8, <1>9, <2>1, <2>3 DEF ListFits
  <2>5. \A i \in 1..end - 1 : i \in 1..l.end - 1 /\ i < end
    BY <1>6, <2>3
  <2>6. ASSUME NEW i \in 1..end - 1
        PROVE  q.cells[i] \in 1..n /\ Contains(r.clauses[q.cells[i]], lit)
    <3>1. PICK m : m = l.cells[i]
      OBVIOUS
    <3>2. m \in 1..N /\ Contains(b.clauses[m], lit) /\ m <= n
      BY <1>3, <1>5, <2>3, <2>5, <3>1 DEF Lists
    <3>3. m \in 1..n
      BY <1>6, <3>2
    <3> QED
      BY <1>4, <1>7, <3>1, <3>2, <3>3
  <2>7. ASSUME NEW m \in 1..n, Contains(r.clauses[m], lit)
        PROVE  \E i \in 1..end - 1 : q.cells[i] = m
    <3>1. PICK i \in 1..l.end - 1 : l.cells[i] = m
      BY <1>3, <1>5, <1>7, <2>7 DEF Lists
    <3>2. i < end
      BY <1>6, <2>3, <3>1
    <3>3. i \in 1..end - 1
      BY <1>6, <2>3, <3>2
    <3> QED
      BY <1>4, <3>1, <3>3
  <2>8. \A i, j \in 1..end - 1 : i < j => q.cells[i] < q.cells[j]
    BY <1>3, <1>4, <2>5 DEF Lists
  <2>9. Lists(q, lit, r.clauses)
    BY <1>7, <2>3, <2>6, <2>7, <2>8 DEF Lists
  <2> QED
    BY <1>1, <1>2, <2>4, <2>9
<1>11. CASE ~(v <= c)
  <2>1. \A m \in 1..n : ~Contains(r.clauses[m], lit)
    <3> SUFFICES ASSUME NEW m \in 1..n, NEW k \in 1..Len(b.clauses[m]), b.clauses[m][k] = lit
                 PROVE  FALSE
      BY <1>7 DEF Contains
    <3>1. lit \in -c..c
      BY DEF CutsAt
    <3>2. lit = v \/ lit = -v
      BY <1>2, <1>6, CodedIs
    <3> QED
      BY <1>6, <1>11, <3>1, <3>2
  <2>2. ListFits(q) /\ 1..q.end - 1 = {}
    <3>1. CASE v <= b.c
      <4>1. q.end = 1 /\ 1..1 - 1 = {}
        BY <1>4, <1>11, <3>1
      <4>2. 1 \in 1..Len(l.cells)
        BY <1>6, <1>8, <1>9, <3>1
      <4> QED
        BY <1>4, <1>8, <3>1, <4>1, <4>2 DEF ListFits
    <3>2. CASE ~(v <= b.c)
      <4>1. v > b.c
        BY <1>6, <3>2
      <4>2. \A m \in 1..N : ~Contains(b.clauses[m], lit)
        BY <1>2, <1>5, <4>1, UnusedCode
      <4>3. 1..l.end - 1 = {}
        BY <1>3, <1>5, <4>2 DEF Lists
      <4>4. q.end = l.end
        BY <1>4, <1>11, <3>2
      <4> QED
        BY <1>3, <1>4, <4>3, <4>4 DEF ListFits
    <3> QED
      BY <3>1, <3>2
  <2>3. Lists(q, lit, r.clauses)
    BY <1>7, <2>1, <2>2 DEF Lists
  <2> QED
    BY <1>1, <1>2, <2>2, <2>3
<1> QED
  BY <1>10, <1>11

(* What is left after a cut fits together.                                 *)
LEMMA CutFits ==
  ASSUME NEW b, Fits(b), NEW n, NEW c, NEW e, CutsAt(b, n, c, e), NEW r, IsCut(b, r, n, c, e)
  PROVE  Fits(r)
<1>1. b.c \in Nat /\ c \in 0..b.c /\ r.c \in c..b.c /\ b.c <= MaxCodes /\ MaxCodes \in Nat
  BY BaseIs DEF CutsAt, IsCut
<1>2. r.c \in 0..MaxCodes
  BY <1>1
<1>3. ASSUME NEW v \in CodeRange
      PROVE  /\ r.lists[v]["pos"].cells = <<>> <=> r.lists[v]["neg"].cells = <<>>
             /\ \A sign \in Signs : v <= r.c => r.lists[v][sign].cells # <<>>
  <2>1. \A sign \in Signs : r.lists[v][sign].cells = b.lists[v][sign].cells
    BY DEF IsCut
  <2>2. /\ b.lists[v]["pos"].cells = <<>> <=> b.lists[v]["neg"].cells = <<>>
        /\ \A sign \in Signs : v <= b.c => b.lists[v][sign].cells # <<>>
    BY DEF Fits, ListsFit
  <2>3. v <= r.c => v <= b.c
    BY <1>1 DEF CodeRange
  <2>4. "pos" \in Signs /\ "neg" \in Signs
    BY DEF Signs
  <2> QED
    BY <2>1, <2>2, <2>3, <2>4
<1>4. ListsFit(r)
  BY <1>3, CutListFits DEF ListsFit
<1> QED
  BY <1>2, <1>4, CutCodesFit, CutClausesFit DEF Fits, IsCut

(* What could be cut back further still can.                               *)
LEMMA CutKeepsCut ==
  ASSUME NEW b, Fits(b), NEW n, NEW c, NEW e, CutsAt(b, n, c, e), NEW r, IsCut(b, r, n, c, e),
         NEW n1, NEW c1, NEW e1, CutsAt(b, n1, c1, e1), n1 <= n, c1 <= c
  PROVE  CutsAt(r, n1, c1, e1)
<1>1. /\ b.c \in Nat /\ c \in 0..b.c /\ c1 \in 0..b.c /\ r.c \in c..b.c /\ b.c <= MaxCodes /\ MaxCodes \in Nat
      /\ Len(b.clauses) \in Nat /\ n \in 0..Len(b.clauses) /\ n1 \in 0..Len(b.clauses)
  BY BaseIs DEF CutsAt, IsCut
<1>2. n1 \in 0..n /\ c1 \in 0..r.c
  BY <1>1
<1>3. Len(r.clauses) = n /\ \A m \in 1..n1 : r.clauses[m] = b.clauses[m]
  BY <1>1, <1>2 DEF IsCut
<1>4. ASSUME NEW v \in 1..c1, NEW sign \in Signs
      PROVE  /\ e1[v][sign] \in 1..r.lists[v][sign].end
             /\ \A i \in 1..r.lists[v][sign].end - 1 : r.lists[v][sign].cells[i] <= n1 <=> i < e1[v][sign]
  <2>1. v \in CodeRange /\ v \in 1..c /\ v <= c
    BY <1>1 DEF CodeRange
  <2>0. PICK q : q = r.lists[v][sign]
    OBVIOUS
  <2>2. PICK l \in ListRecord : l = b.lists[v][sign] /\ q = r.lists[v][sign]
    BY <2>0, <2>1, BaseIs
  <2>3. PICK end, end1 : end = e[v][sign] /\ end1 = e1[v][sign]
    OBVIOUS
  <2>4. q.cells = l.cells /\ q.end = end
    BY <2>1, <2>2, <2>3 DEF IsCut
  <2>5. end \in 1..l.end /\ \A i \in 1..l.end - 1 : l.cells[i] <= n <=> i < end
    BY <2>1, <2>2, <2>3 DEF CutsAt
  <2>6. end1 \in 1..l.end /\ \A i \in 1..l.end - 1 : l.cells[i] <= n1 <=> i < end1
    BY <2>2, <2>3 DEF CutsAt
  <2>7. l.end \in Nat /\ \A i \in 1..l.end - 1 : l.cells[i] \in Int
    <3>1. Lists(l, Coded(v, sign), b.clauses)
      BY <2>1, <2>2 DEF Fits, ListsFit
    <3>2. \A i \in 1..l.end - 1 : l.cells[i] \in 1..Len(b.clauses)
      BY <3>1 DEF Lists
    <3>3. \A i \in 1..l.end - 1 : l.cells[i] \in Int
      BY <3>2
    <3> QED
      BY <3>3 DEF ListRecord
  <2>8. end1 <= end
    <3> SUFFICES ASSUME end1 > end PROVE FALSE
      BY <2>5, <2>6, <2>7
    <3>1. end \in 1..l.end - 1 /\ end < end1 /\ ~(end < end)
      BY <2>5, <2>6, <2>7
    <3>2. PICK x \in Int : x = l.cells[end]
      BY <2>7, <3>1
    <3>3. x <= n1 /\ ~(x <= n)
      BY <2>5, <2>6, <3>1, <3>2
    <3> QED
      BY <1>1, <3>2, <3>3
  <2>9. end1 \in 1..q.end /\ \A i \in 1..q.end - 1 : i \in 1..l.end - 1
    BY <2>4, <2>5, <2>6, <2>7, <2>8
  <2> QED
    BY <2>2, <2>3, <2>4, <2>6, <2>9
<1>5. \A m \in 1..n1 : \A k \in 1..Len(r.clauses[m]) : r.clauses[m][k] \in -c1..c1
  BY <1>3 DEF CutsAt
<1> QED
  BY <1>2, <1>3, <1>4, <1>5 DEF CutsAt

(* What is encoded on top can be cut off again.                            *)
LEMMA GrownKeepsCut ==
  ASSUME NEW b0, Fits(b0), NEW b, Fits(b), NEW kind, Grown(b0, b, kind),
         NEW n, NEW c, NEW e, CutsAt(b0, n, c, e)
  PROVE  CutsAt(b, n, c, e)
<1>1. /\ b0.c \in Nat /\ b.c \in Nat /\ c \in 0..b0.c /\ b0.c <= b.c /\ b.c <= MaxCodes /\ MaxCodes \in Nat
      /\ Len(b.clauses) \in Nat /\ Len(b0.clauses) \in Nat /\ n \in 0..Len(b0.clauses)
      /\ Len(b0.clauses) <= Len(b.clauses)
  BY BaseIs DEF CutsAt, Grown
<1>2. n \in 0..Len(b.clauses) /\ c \in 0..b.c
  BY <1>1
<1>3. \A m \in 1..n : b.clauses[m] = b0.clauses[m]
  <2>1. \A m \in 1..n : m \in 1..Len(b0.clauses)
    BY <1>1
  <2> QED
    BY <2>1 DEF Grown
<1>4. ASSUME NEW v \in 1..c, NEW sign \in Signs
      PROVE  /\ e[v][sign] \in 1..b.lists[v][sign].end
             /\ \A i \in 1..b.lists[v][sign].end - 1 : b.lists[v][sign].cells[i] <= n <=> i < e[v][sign]
  <2>1. v \in CodeRange
    BY <1>1 DEF CodeRange
  <2>2. PICK l0 \in ListRecord, l \in ListRecord : l0 = b0.lists[v][sign] /\ l = b.lists[v][sign]
    BY <2>1, BaseIs
  <2>3. PICK end : end = e[v][sign]
    OBVIOUS
  <2>4. end \in 1..l0.end /\ \A i \in 1..l0.end - 1 : l0.cells[i] <= n <=> i < end
    BY <2>2, <2>3 DEF CutsAt
  <2>5. /\ l0.end <= l.end
        /\ \A i \in 1..l.end - 1 : (i < l0.end => l.cells[i] = l0.cells[i]) /\ (i >= l0.end => l.cells[i] > Len(b0.clauses))
    BY <2>1, <2>2 DEF Grown, GrownList
  <2>6. l0.end \in Nat /\ l.end \in Nat
    BY DEF ListRecord
  <2>7. \A i \in 1..l.end - 1 : l.cells[i] \in Int
    <3>1. Lists(l, Coded(v, sign), b.clauses)
      BY <2>1, <2>2 DEF Fits, ListsFit
    <3>2. \A i \in 1..l.end - 1 : l.cells[i] \in 1..Len(b.clauses)
      BY <3>1 DEF Lists
    <3> QED
      BY <3>2
  <2>8. ASSUME NEW i \in 1..l.end - 1
        PROVE  l.cells[i] <= n <=> i < end
    <3>1. CASE i < l0.end
      <4>1. i \in 1..l0.end - 1
        BY <2>6, <3>1
      <4> QED
        BY <2>4, <2>5, <3>1, <4>1
    <3>2. CASE i >= l0.end
      <4>1. PICK x \in Int : x = l.cells[i]
        BY <2>7
      <4>2. x > Len(b0.clauses)
        BY <2>5, <3>2, <4>1
      <4> QED
        BY <1>1, <2>4, <2>6, <3>2, <4>1, <4>2
    <3> QED
      BY <2>6, <3>1, <3>2
  <2> QED
    BY <2>2, <2>3, <2>4, <2>5, <2>6, <2>8
<1>5. \A m \in 1..n : \A k \in 1..Len(b.clauses[m]) : b.clauses[m][k] \in -c..c
  BY <1>3 DEF CutsAt
<1> QED
  BY <1>2, <1>4, <1>5 DEF CutsAt

(* Where a base ends now, it can be cut later.                             *)
LEMMA CutsAtEnd ==
  ASSUME NEW b, Fits(b), NEW e,
         \A v \in 1..b.c, sign \in Signs : e[v][sign] = b.lists[v][sign].end
  PROVE  CutsAt(b, Len(b.clauses), b.c, e)
<1>1. b.c \in Nat /\ Len(b.clauses) \in Nat /\ b.c <= MaxCodes /\ MaxCodes \in Nat
  BY BaseIs
<1>2. PICK N \in Nat : N = Len(b.clauses)
  BY <1>1
<1>3. ASSUME NEW v \in 1..b.c, NEW sign \in Signs
      PROVE  /\ e[v][sign] \in 1..b.lists[v][sign].end
             /\ \A i \in 1..b.lists[v][sign].end - 1 : b.lists[v][sign].cells[i] <= N <=> i < e[v][sign]
  <2>1. v \in CodeRange /\ v <= b.c
    BY <1>1 DEF CodeRange
  <2>2. PICK l \in ListRecord : l = b.lists[v][sign]
    BY <2>1, BaseIs
  <2>3. ListFits(l) /\ l.cells # <<>> /\ Lists(l, Coded(v, sign), b.clauses)
    BY <2>1, <2>2 DEF Fits, ListsFit
  <2>4. l.end \in Nat \ {0}
    <3>1. l.end \in Nat /\ Len(l.cells) \in Nat
      BY LenProperties DEF ListRecord
    <3> QED
      BY <2>3, <3>1 DEF ListFits
  <2>5. \A i \in 1..l.end - 1 : l.cells[i] \in 1..N
    BY <1>2, <2>3 DEF Lists
  <2>6. \A i \in 1..l.end - 1 : l.cells[i] <= N /\ i < l.end
    BY <2>4, <2>5
  <2>7. l.end \in 1..l.end
    BY <2>4
  <2> QED
    BY <2>2, <2>6, <2>7
<1>4. ASSUME NEW m \in 1..N, NEW k \in 1..Len(b.clauses[m])
      PROVE  b.clauses[m][k] \in -(b.c)..b.c
  <2>1. PICK l : l = b.clauses[m][k]
    OBVIOUS
  <2>2. PICK v \in 1..b.c : l = v \/ l = -v
    BY <1>2, <2>1 DEF Fits, ClausesFit, LiteralFits
  <2>3. PICK c \in Nat : c = b.c
    BY <1>1
  <2>4. l \in -c..c
    BY <2>2, <2>3
  <2> QED
    BY <2>1, <2>3, <2>4
<1>5. N \in 0..N /\ b.c \in 0..b.c
  BY <1>1
<1> QED
  BY <1>2, <1>3, <1>4, <1>5 DEF CutsAt

(* Codes that no fact has are given away again.                            *)
LEMMA LowerFits ==
  ASSUME NEW b, Fits(b), NEW c \in 0..b.c, \A x \in TimedFacts : b.codes[x] <= c,
         NEW r \in BaseType, r.c = c, r.codes = b.codes, r.facts = b.facts, r.lists = b.lists, r.clauses = b.clauses
  PROVE  Fits(r)
<1>1. b.c \in Nat /\ b.c <= MaxCodes /\ MaxCodes \in Nat /\ \A x \in TimedFacts : b.codes[x] \in Int
  BY BaseIs
<1>2. r.c \in 0..MaxCodes /\ 1..c \subseteq 1..b.c
  BY <1>1
<1>3. CodesFit(r)
  <2>1. ASSUME NEW x \in TimedFacts
        PROVE  b.codes[x] = -1 \/ (b.codes[x] \in 1..c /\ b.facts[b.codes[x]] = x)
    <3>1. PICK w \in Int : w = b.codes[x]
      BY <1>1
    <3>2. w = -1 \/ (w \in 1..b.c /\ b.facts[w] = x)
      BY <3>1 DEF Fits, CodesFit
    <3>3. w <= c
      BY <3>1
    <3> QED
      BY <1>1, <3>1, <3>2, <3>3
  <2>2. \A i \in 1..c : b.facts[i] \in TimedFacts /\ (b.codes[b.facts[i]] = -1 \/ b.codes[b.facts[i]] >= i)
    BY <1>2 DEF Fits, CodesFit
  <2> QED
    BY <2>1, <2>2 DEF CodesFit
<1>4. ASSUME NEW l, LiteralFits(b, l)
      PROVE  LiteralFits(r, l)
  <2>1. PICK v \in 1..b.c : b.codes[b.facts[v]] = v /\ (l = v \/ l = -v)
    BY <1>4 DEF LiteralFits
  <2>2. b.facts[v] \in TimedFacts
    BY DEF Fits, CodesFit
  <2>3. v \in 1..c
    BY <1>1, <2>1, <2>2
  <2> QED
    BY <2>1, <2>3 DEF LiteralFits
<1>5. ClausesFit(r)
  BY <1>4 DEF Fits, ClausesFit
<1>6. ListsFit(r)
  <2>1. \A v \in CodeRange : v <= c => v <= b.c
    BY <1>1 DEF CodeRange
  <2> QED
    BY <2>1 DEF Fits, ListsFit
<1> QED
  BY <1>2, <1>3, <1>5, <1>6 DEF Fits

Now == Base(gnum_c, gcodes, lists, gclauses)

(* A stand of the base to go back to.                                      *)
Stand == [cl : Nat, c : Nat, end : [CodeRange -> [Signs -> Nat]]]

FixedEnds(b) == [v \in CodeRange |-> [sign \in Signs |-> b.lists[v][sign].fixed]]

(* The base can be cut back to the clauses of the initial state, and to    *)
(* the stands in sv, each within the next.                                 *)
Extensions(b, nf, cf, sv) ==
  /\ CutsAt(b, nf, cf, FixedEnds(b))
  /\ \A v \in CodeRange, sign \in Signs :
       v > cf /\ b.lists[v][sign].cells # <<>> => b.lists[v][sign].fixed = 1
  /\ \A i \in 1..Len(sv) :
       /\ CutsAt(b, sv[i].cl, sv[i].c, sv[i].end)
       /\ nf <= sv[i].cl /\ cf <= sv[i].c
       /\ \A j \in 1..Len(sv) : i <= j => sv[i].cl <= sv[j].cl /\ sv[i].c <= sv[j].c

(* The inductive invariant.                                                *)
BaseInv ==
  /\ base_pc \in {"start", "fixed", "dynamic", "full"}
  /\ saved \in Seq(Stand)
  /\ Fits(Now)
  /\ base_pc = "start" => BaseInit
  /\ base_pc \in {"fixed", "dynamic"} => Extensions(Now, gnum_fixed_clauses, gnum_fixed_c, saved)
  /\ base_pc = "fixed" => /\ Len(gclauses) = gnum_fixed_clauses /\ saved = <<>>
                          /\ \A x \in TimedFacts : gcodes[x] <= gnum_fixed_c

(* Of the ends only those of the codes that stay matter.                   *)
LEMMA SameEnds ==
  ASSUME NEW b, NEW n, NEW c, NEW e, CutsAt(b, n, c, e), NEW e2,
         \A v \in 1..c, sign \in Signs : e2[v][sign] = e[v][sign]
  PROVE  CutsAt(b, n, c, e2)
BY DEF CutsAt

LEMMA FixedEndsAre ==
  ASSUME NEW b, NEW v \in CodeRange, NEW sign \in Signs
  PROVE  FixedEnds(b)[v][sign] = b.lists[v][sign].fixed
BY DEF FixedEnds

LEMMA GrownExtends ==
  ASSUME NEW b0, Fits(b0), NEW b, Fits(b), NEW kind, kind # "fixed", Grown(b0, b, kind),
         NEW nf, NEW cf, NEW sv, Extensions(b0, nf, cf, sv)
  PROVE  Extensions(b, nf, cf, sv)
<1>1. CutsAt(b0, nf, cf, FixedEnds(b0)) /\ cf \in 0..b0.c /\ b0.c \in Nat /\ b0.c <= MaxCodes /\ MaxCodes \in Nat
  BY BaseIs DEF Extensions, CutsAt
<1>2. ASSUME NEW v \in CodeRange, NEW sign \in Signs
      PROVE  LET l0 == b0.lists[v][sign]
                 l  == b.lists[v][sign]
             IN  /\ l0.cells # <<>> => l.fixed = l0.fixed
                 /\ l0.cells = <<>> /\ l.cells # <<>> => l.fixed = 1
  BY DEF Grown, GrownList
<1>3. CutsAt(b, nf, cf, FixedEnds(b))
  <2>1. CutsAt(b, nf, cf, FixedEnds(b0))
    BY <1>1, GrownKeepsCut
  <2>2. ASSUME NEW v \in 1..cf, NEW sign \in Signs
        PROVE  FixedEnds(b)[v][sign] = FixedEnds(b0)[v][sign]
    <3>1. v \in CodeRange /\ v <= b0.c
      BY <1>1 DEF CodeRange
    <3>2. b0.lists[v][sign].cells # <<>>
      BY <3>1 DEF Fits, ListsFit
    <3> QED
      BY <1>2, <3>1, <3>2, FixedEndsAre
  <2> QED
    BY <2>1, <2>2, SameEnds
<1>4. \A v \in CodeRange, sign \in Signs :
        v > cf /\ b.lists[v][sign].cells # <<>> => b.lists[v][sign].fixed = 1
  BY <1>2 DEF Extensions
<1>5. ASSUME NEW i \in 1..Len(sv)
      PROVE  CutsAt(b, sv[i].cl, sv[i].c, sv[i].end)
  <2>1. CutsAt(b0, sv[i].cl, sv[i].c, sv[i].end)
    BY DEF Extensions
  <2> QED
    BY <2>1, GrownKeepsCut
<1> QED
  BY <1>3, <1>4, <1>5 DEF Extensions

LEMMA CutExtends ==
  ASSUME NEW b, Fits(b), NEW n, NEW c, NEW e, CutsAt(b, n, c, e), NEW r, IsCut(b, r, n, c, e),
         NEW nf, NEW cf, NEW sv, Extensions(b, nf, cf, sv), nf <= n, cf <= c,
         NEW sv2, \A i \in 1..Len(sv2) : /\ i \in 1..Len(sv) /\ sv2[i] = sv[i]
                                         /\ sv[i].cl <= n /\ sv[i].c <= c
  PROVE  Extensions(r, nf, cf, sv2)
<1>1. CutsAt(r, nf, cf, FixedEnds(r))
  <2>1. CutsAt(b, nf, cf, FixedEnds(b))
    BY DEF Extensions
  <2>2. CutsAt(r, nf, cf, FixedEnds(b))
    BY <2>1, CutKeepsCut
  <2>3. cf \in 0..b.c /\ b.c \in Nat /\ b.c <= MaxCodes /\ MaxCodes \in Nat
    BY <2>1, BaseIs DEF CutsAt
  <2>4. ASSUME NEW v \in 1..cf, NEW sign \in Signs
        PROVE  FixedEnds(r)[v][sign] = FixedEnds(b)[v][sign]
    <3>1. v \in CodeRange
      BY <2>3 DEF CodeRange
    <3> QED
      BY <3>1, FixedEndsAre DEF IsCut
  <2> QED
    BY <2>2, <2>4, SameEnds
<1>2. \A v \in CodeRange, sign \in Signs :
        v > cf /\ r.lists[v][sign].cells # <<>> => r.lists[v][sign].fixed = 1
  BY DEF Extensions, IsCut
<1>3. ASSUME NEW i \in 1..Len(sv2)
      PROVE  /\ CutsAt(r, sv2[i].cl, sv2[i].c, sv2[i].end)
             /\ nf <= sv2[i].cl /\ cf <= sv2[i].c
             /\ \A j \in 1..Len(sv2) : i <= j => sv2[i].cl <= sv2[j].cl /\ sv2[i].c <= sv2[j].c
  <2>1. i \in 1..Len(sv) /\ sv2[i] = sv[i] /\ sv[i].cl <= n /\ sv[i].c <= c
    OBVIOUS
  <2>2. CutsAt(b, sv[i].cl, sv[i].c, sv[i].end) /\ nf <= sv[i].cl /\ cf <= sv[i].c
    BY <2>1 DEF Extensions
  <2>3. CutsAt(r, sv[i].cl, sv[i].c, sv[i].end)
    BY <2>1, <2>2, CutKeepsCut
  <2>4. ASSUME NEW j \in 1..Len(sv2), i <= j
        PROVE  sv2[i].cl <= sv2[j].cl /\ sv2[i].c <= sv2[j].c
    <3>1. j \in 1..Len(sv) /\ sv2[j] = sv[j]
      OBVIOUS
    <3> QED
      BY <2>1, <2>4, <3>1 DEF Extensions
  <2> QED
    BY <2>1, <2>2, <2>3, <2>4
<1> QED
  BY <1>1, <1>2, <1>3 DEF Extensions

LEMMA NowIs ==
  /\ Now.c = gnum_c /\ Now.codes = gcodes /\ Now.facts = gcf_gct
  /\ Now.lists = lists /\ Now.clauses = gclauses
BY DEF Now, Base

(* The codes above c are those of the facts whose code is above c.         *)
LEMMA CodesBelowIs ==
  ASSUME Fits(Now), NEW c \in Nat, NEW x \in TimedFacts
  PROVE  CodesBelow(c)[x] = IF gcodes[x] > c THEN -1 ELSE gcodes[x]
<1>1. gnum_c \in Nat /\ gcodes[x] \in Int
  BY BaseIs, NowIs
<1>2. /\ gcodes[x] = -1 \/ (gcodes[x] \in 1..gnum_c /\ gcf_gct[gcodes[x]] = x)
      /\ \A i \in 1..gnum_c : gcodes[gcf_gct[i]] = -1 \/ gcodes[gcf_gct[i]] >= i
  BY NowIs DEF Fits, CodesFit
<1>3. PICK w \in Int : w = gcodes[x]
  BY <1>1
<1>4. CASE \E i \in c + 1..gnum_c : gcf_gct[i] = x
  <2>1. PICK i \in c + 1..gnum_c : gcf_gct[i] = x
    BY <1>4
  <2>2. i \in 1..gnum_c /\ i > c
    BY <1>1, <2>1
  <2>3. w = -1 \/ w >= i
    BY <1>2, <1>3, <2>1, <2>2
  <2>4. CodesBelow(c)[x] = -1
    BY <1>4 DEF CodesBelow
  <2> QED
    BY <1>3, <2>2, <2>3, <2>4
<1>5. CASE ~\E i \in c + 1..gnum_c : gcf_gct[i] = x
  <2>1. CodesBelow(c)[x] = w
    BY <1>3, <1>5 DEF CodesBelow
  <2>2. ~(w > c)
    <3> SUFFICES ASSUME w > c PROVE FALSE
      OBVIOUS
    <3>1. w \in c + 1..gnum_c
      BY <1>1, <1>2, <1>3
    <3> QED
      BY <1>2, <1>3, <1>5, <3>1
  <2> QED
    BY <1>3, <2>1, <2>2
<1> QED
  BY <1>4, <1>5

(* Going back to a stand cuts the base.                                    *)
LEMMA BackIs ==
  ASSUME Fits(Now), NEW s \in Stand, s.cl \in 0..Len(gclauses), s.c \in 0..gnum_c, NEW d \in s.c..gnum_c,
         NEW r, r = Base(d, CodesBelow(s.c), EndsAt(s), SubSeq(gclauses, 1, s.cl))
  PROVE  IsCut(Now, r, s.cl, s.c, s.end)
<1>1. /\ gcodes \in [TimedFacts -> Int] /\ gcf_gct \in [CodeRange -> TimedFacts \union {"none"}]
      /\ lists \in ListTable /\ gclauses \in Seq(Seq(Int)) /\ gnum_c \in Nat
  BY NowIs DEF Fits, BaseType
<1>2. PICK N \in Nat, n \in Nat, c \in Nat : N = Len(gclauses) /\ n = s.cl /\ c = s.c
  BY <1>1, LenProperties DEF Stand
<1>3. /\ r.c = d /\ r.codes = CodesBelow(c) /\ r.facts = gcf_gct /\ r.lists = EndsAt(s)
      /\ r.clauses = SubSeq(gclauses, 1, n)
      /\ r = [c |-> r.c, codes |-> r.codes, facts |-> r.facts, lists |-> r.lists, clauses |-> r.clauses]
  BY <1>2 DEF Base
<1>4. /\ r.codes \in [TimedFacts -> Int]
      /\ \A x \in TimedFacts : r.codes[x] = IF gcodes[x] > c THEN -1 ELSE gcodes[x]
  <2>1. CodesBelow(c) \in [TimedFacts -> Int]
    BY <1>1 DEF CodesBelow
  <2> QED
    BY <1>2, <1>3, <2>1, CodesBelowIs
<1>5. r.clauses \in Seq(Seq(Int)) /\ Len(r.clauses) = n /\ \A m \in 1..n : r.clauses[m] = gclauses[m]
  <2>1. \A i \in 1..n : gclauses[i] \in Seq(Int)
    <3>1. \A i \in 1..n : i \in 1..Len(gclauses)
      BY <1>2
    <3> QED
      BY <1>1, <3>1, ElementOfSeq
  <2>2. n \in Int /\ 1 \in Int
    OBVIOUS
  <2>3. /\ SubSeq(gclauses, 1, n) \in Seq(Seq(Int))
        /\ Len(SubSeq(gclauses, 1, n)) = IF 1 <= n THEN n - 1 + 1 ELSE 0
        /\ \A i \in 1..n - 1 + 1 : SubSeq(gclauses, 1, n)[i] = gclauses[1 + i - 1]
    BY <2>1, <2>2, SubSeqProperties
  <2>4. (IF 1 <= n THEN n - 1 + 1 ELSE 0) = n /\ n - 1 + 1 = n /\ \A i \in 1..n : 1 + i - 1 = i
    OBVIOUS
  <2> QED
    BY <1>3, <2>3, <2>4
<1>6. ASSUME NEW v \in CodeRange, NEW sign \in Signs
      PROVE  /\ r.lists[v][sign] \in ListRecord
             /\ r.lists[v][sign].cells = lists[v][sign].cells
             /\ r.lists[v][sign].fixed = lists[v][sign].fixed
             /\ r.lists[v][sign].end = IF v <= c THEN s.end[v][sign] ELSE IF v <= gnum_c THEN 1 ELSE lists[v][sign].end
  <2>1. lists[v][sign] \in ListRecord
    BY <1>1 DEF ListTable
  <2>2. PICK cells \in Seq(Int), end \in Nat, fixed \in Nat :
          lists[v][sign] = [cells |-> cells, end |-> end, fixed |-> fixed]
    BY <2>1 DEF ListRecord
  <2>3. s.end[v][sign] \in Nat
    BY DEF Stand
  <2>4. PICK e \in Nat : e = IF v <= c THEN s.end[v][sign] ELSE IF v <= gnum_c THEN 1 ELSE end
    BY <2>3
  <2>5. lists[v][sign].end = end
    BY <2>2
  <2>6. r.lists[v][sign] = [lists[v][sign] EXCEPT !.end = e]
    <3>1. PICK f : f = [lists[v][sign] EXCEPT !.end = IF v <= s.c THEN s.end[v][sign]
                                                     ELSE IF v <= gnum_c THEN 1 ELSE @]
      OBVIOUS
    <3>2. EndsAt(s)[v][sign] = f
      BY <3>1 DEF EndsAt
    <3>3. e = IF v <= s.c THEN s.end[v][sign] ELSE IF v <= gnum_c THEN 1 ELSE lists[v][sign].end
      BY <1>2, <2>4, <2>5
    <3>4. f = [lists[v][sign] EXCEPT !.end = e]
      BY <3>1, <3>3
    <3> QED
      BY <1>3, <3>2, <3>4
  <2>7. r.lists[v][sign] = [cells |-> cells, end |-> e, fixed |-> fixed]
    BY <2>2, <2>6
  <2> QED
    BY <2>2, <2>4, <2>7 DEF ListRecord
<1>7. r.lists \in ListTable
  <2>1. \A v \in CodeRange : EndsAt(s)[v] \in [Signs -> ListRecord]
    <3> SUFFICES ASSUME NEW v \in CodeRange
                 PROVE  EndsAt(s)[v] \in [Signs -> ListRecord]
      OBVIOUS
    <3>1. \A sign \in Signs : EndsAt(s)[v][sign] \in ListRecord
      BY <1>3, <1>6
    <3> QED
      BY <3>1 DEF EndsAt
  <2> QED
    BY <1>3, <2>1 DEF ListTable, EndsAt
<1>8. d \in Nat /\ d \in c..gnum_c
  BY <1>1, <1>2
<1>9. r \in BaseType
  BY <1>1, <1>3, <1>4, <1>5, <1>7, <1>8 DEF BaseType
<1> QED
  BY <1>2, <1>3, <1>4, <1>5, <1>6, <1>8, <1>9, NowIs DEF IsCut

LEMMA BatchIsSeq ==
  ASSUME NEW batch \in Batches
  PROVE  batch \in Seq(Pool)
<1>1. PICK n \in 0..MaxBatch : batch \in [1..n -> Pool]
  BY DEF Batches
<1>2. n \in Nat
  OBVIOUS
<1> QED
  BY <1>1, <1>2

(* Clauses are encoded and installed on top of b0, or the codes run out.   *)
LEMMA InstalledIs ==
  ASSUME NEW b0, Fits(b0), NEW kind, NEW batch \in Seq(Pool),
         kind = "fixed" => \A v \in CodeRange, sign \in Signs : b0.lists[v][sign].cells = <<>>,
         NEW b, b = Encode(b0, batch, kind), NEW next, Installed(b, next)
  PROVE  \/ base_pc' = "full" /\ Now' = Now
         \/ base_pc' = next /\ Now' = b /\ Fits(b) /\ Grown(b0, b, kind)
<1>1. b \in BaseType /\ (b.c <= MaxCodes => Fits(b) /\ Grown(b0, b, kind))
  BY BatchEncoded DEF SoFar
<1>2. b.c \in Nat /\ MaxCodes \in Nat
  BY <1>1, ClauseAssumption DEF BaseType
<1>3. CASE b.c > MaxCodes
  <2>1. base_pc' = "full" /\ UNCHANGED <<gnum_c, gcodes, gcf_gct, lists, gclauses>>
    BY <1>3 DEF Installed
  <2> QED
    BY <2>1 DEF Now, Base
<1>4. CASE ~(b.c > MaxCodes)
  <2>1. /\ gnum_c' = b.c /\ gcodes' = b.codes /\ gcf_gct' = b.facts /\ lists' = b.lists /\ gclauses' = b.clauses
        /\ base_pc' = next
    BY <1>4 DEF Installed
  <2>2. Now' = [c |-> b.c, codes |-> b.codes, facts |-> b.facts, lists |-> b.lists, clauses |-> b.clauses]
    BY <2>1 DEF Now, Base
  <2>3. b = [c |-> b.c, codes |-> b.codes, facts |-> b.facts, lists |-> b.lists, clauses |-> b.clauses]
    BY <1>1 DEF BaseType
  <2> QED
    BY <1>1, <1>2, <1>4, <2>1, <2>2, <2>3
<1> QED
  BY <1>3, <1>4

(* When the codes have run out, only the base matters.                     *)
LEMMA FullInv ==
  ASSUME BaseInv, base_pc' = "full", Now' = Now, saved' \in Seq(Stand)
  PROVE  BaseInv'
BY DEF BaseInv

LEMMA BaseInitInv == BaseInit => BaseInv
<1> SUFFICES ASSUME BaseInit PROVE BaseInv
  OBVIOUS
<1>1. MaxCodes \in Nat
  BY ClauseAssumption
<1>2. PICK u : u = Unallocated
  OBVIOUS
<1>3. u.cells = <<>> /\ u.end = 0 /\ u.fixed = 0 /\ u \in ListRecord
  BY <1>2 DEF Unallocated, ListRecord
<1>4. /\ Now.c = 0 /\ Now.codes = [x \in TimedFacts |-> -1] /\ Now.facts = [i \in CodeRange |-> "none"]
      /\ Now.lists = [i \in CodeRange |-> [sign \in Signs |-> u]] /\ Now.clauses = <<>>
      /\ Now = [c |-> Now.c, codes |-> Now.codes, facts |-> Now.facts, lists |-> Now.lists, clauses |-> Now.clauses]
  BY <1>2 DEF BaseInit, Now, Base
<1>5. Now \in BaseType
  <2>1. Now.c \in Nat /\ Now.codes \in [TimedFacts -> Int] /\ Now.facts \in [CodeRange -> TimedFacts \union {"none"}]
    BY <1>4
  <2>2. Now.lists \in ListTable
    BY <1>3, <1>4 DEF ListTable
  <2>3. Now.clauses \in Seq(Seq(Int))
    BY <1>4
  <2> QED
    BY <1>4, <2>1, <2>2, <2>3 DEF BaseType
<1>6. CodesFit(Now)
  <2>1. 1..0 = {}
    OBVIOUS
  <2> QED
    BY <1>4, <2>1 DEF CodesFit
<1>7. Len(Now.clauses) = 0 /\ 1..0 = {} /\ 1..0 - 1 = {}
  BY <1>4
<1>8. ClausesFit(Now)
  BY <1>7 DEF ClausesFit
<1>9. ListsFit(Now)
  <2>1. \A k : Lists(u, k, Now.clauses)
    BY <1>3, <1>7 DEF Lists
  <2>2. \A v \in CodeRange : ~(v <= Now.c)
    BY <1>4 DEF CodeRange
  <2>3. \A v \in CodeRange, sign \in Signs : Now.lists[v][sign] = u
    BY <1>4
  <2>4. "pos" \in Signs /\ "neg" \in Signs
    BY DEF Signs
  <2>5. ListFits(u)
    BY <1>3 DEF ListFits
  <2> QED
    BY <1>3, <2>1, <2>2, <2>3, <2>4, <2>5 DEF ListsFit
<1>10. Fits(Now)
  BY <1>1, <1>4, <1>5, <1>6, <1>8, <1>9 DEF Fits
<1>11. saved \in Seq(Stand) /\ base_pc = "start"
  BY DEF BaseInit
<1> QED
  BY <1>10, <1>11 DEF BaseInv

LEMMA CreateInv ==
  ASSUME BaseInv, create_fixed_initial_clauses
  PROVE  BaseInv'
<1>1. BaseInit /\ Fits(Now) /\ saved' = saved /\ saved \in Seq(Stand)
  BY DEF BaseInv, create_fixed_initial_clauses
<1>2. Now = Base(0, gcodes, lists, <<>>)
  BY <1>1 DEF BaseInit, Now
<1>batch. PICK batch \in Batches : \E b :
         /\ b = Encode(Now, batch, "fixed") /\ Installed(b, "fixed")
         /\ gnum_fixed_c' = b.c /\ gnum_fixed_clauses' = Len(b.clauses)
  BY <1>2 DEF create_fixed_initial_clauses
<1>3. PICK b : /\ b = Encode(Now, batch, "fixed") /\ Installed(b, "fixed")
               /\ gnum_fixed_c' = b.c /\ gnum_fixed_clauses' = Len(b.clauses)
  BY <1>batch
<1>4. \A v \in CodeRange, sign \in Signs : Now.lists[v][sign].cells = <<>>
  BY <1>1, NowIs DEF BaseInit, Unallocated
<1>5. CASE base_pc' = "full" /\ Now' = Now
  BY <1>1, <1>5, FullInv
<1>6. CASE base_pc' = "fixed" /\ Now' = b /\ Fits(b) /\ Grown(Now, b, "fixed")
  <2>1. \A v \in CodeRange, sign \in Signs :
          b.lists[v][sign].cells # <<>> => b.lists[v][sign].fixed = b.lists[v][sign].end
    BY <1>6 DEF Grown, GrownList
  <2>2. b.c \in Nat /\ b.c <= MaxCodes /\ MaxCodes \in Nat
    BY <1>6, BaseIs
  <2>3. CutsAt(b, Len(b.clauses), b.c, FixedEnds(b))
    <3>1. ASSUME NEW v \in 1..b.c, NEW sign \in Signs
          PROVE  FixedEnds(b)[v][sign] = b.lists[v][sign].end
      <4>1. v \in CodeRange /\ v <= b.c
        BY <2>2 DEF CodeRange
      <4>2. b.lists[v][sign].cells # <<>>
        BY <1>6, <4>1 DEF Fits, ListsFit
      <4> QED
        BY <2>1, <4>1, <4>2, FixedEndsAre
    <3> QED
      BY <1>6, <3>1, CutsAtEnd
  <2>4. ASSUME NEW v \in CodeRange, NEW sign \in Signs, v > b.c, b.lists[v][sign].cells # <<>>
        PROVE  b.lists[v][sign].fixed = 1
    <3>1. PICK l \in ListRecord : l = b.lists[v][sign]
      BY <1>6, BaseIs
    <3>2. ListFits(l) /\ Lists(l, Coded(v, sign), b.clauses)
      BY <1>6, <3>1 DEF Fits, ListsFit
    <3>3. \A m \in 1..Len(b.clauses) : ~Contains(b.clauses[m], Coded(v, sign))
      BY <1>6, <2>4, UnusedCode
    <3>4. 1..l.end - 1 = {}
      BY <3>2, <3>3 DEF Lists
    <3>5. l.end \in Nat /\ Len(l.cells) \in Nat
      BY LenProperties DEF ListRecord
    <3>6. l.end \in 1..Len(l.cells)
      BY <2>4, <3>1, <3>2 DEF ListFits
    <3>7. l.end = 1
      <4>1. l.end > 1 => 1 \in 1..l.end - 1
        BY <3>5
      <4> QED
        BY <3>4, <3>5, <3>6, <4>1
    <3> QED
      BY <2>1, <2>4, <3>1, <3>7
  <2>5. saved = <<>> /\ Len(saved) = 0 /\ 1..0 = {}
    BY <1>1 DEF BaseInit
  <2>6. Extensions(b, Len(b.clauses), b.c, saved)
    BY <2>3, <2>4, <2>5 DEF Extensions
  <2>7. gcodes' = b.codes /\ gclauses' = b.clauses
    BY <1>6 DEF Now, Base
  <2>8. \A x \in TimedFacts : b.codes[x] <= b.c
    <3> SUFFICES ASSUME NEW x \in TimedFacts
                 PROVE  b.codes[x] <= b.c
      OBVIOUS
    <3>1. b.codes[x] = -1 \/ b.codes[x] \in 1..b.c
      BY <1>6 DEF Fits, CodesFit
    <3> QED
      BY <2>2, <3>1
  <2> QED
    BY <1>1, <1>3, <1>6, <2>5, <2>6, <2>7, <2>8 DEF BaseInv
<1> QED
  BY <1>1, <1>3, <1>4, <1>5, <1>6, BatchIsSeq, InstalledIs

LEMMA ExtendInv ==
  ASSUME BaseInv, extend_dynamic_clauses_base
  PROVE  BaseInv'
<1>1. /\ Fits(Now) /\ Extensions(Now, gnum_fixed_clauses, gnum_fixed_c, saved) /\ saved = <<>> /\ saved \in Seq(Stand)
      /\ \A x \in TimedFacts : gcodes[x] <= gnum_fixed_c
      /\ UNCHANGED <<gnum_fixed_c, gnum_fixed_clauses, saved>>
  BY DEF BaseInv, extend_dynamic_clauses_base
<1>2. PICK b0 : b0 = Base(gnum_fixed_c, gcodes, lists, gclauses)
  OBVIOUS
<1>batch. PICK batch \in Batches : Installed(Encode(b0, batch, "dynamic"), "dynamic")
  BY <1>2 DEF extend_dynamic_clauses_base
<1>3. PICK b : b = Encode(b0, batch, "dynamic") /\ Installed(b, "dynamic")
  BY <1>batch
<1>4. gnum_fixed_c \in 0..gnum_c /\ gnum_c \in Nat
  BY <1>1, BaseIs, NowIs DEF Extensions, CutsAt
<1>5. /\ b0.c = gnum_fixed_c /\ b0.codes = gcodes /\ b0.facts = gcf_gct /\ b0.lists = lists /\ b0.clauses = gclauses
      /\ b0 = [c |-> b0.c, codes |-> b0.codes, facts |-> b0.facts, lists |-> b0.lists, clauses |-> b0.clauses]
  BY <1>2 DEF Base
<1>6. Fits(b0)
  <2>1. b0 \in BaseType
    BY <1>1, <1>4, <1>5, NowIs DEF Fits, BaseType
  <2> QED
    BY <1>1, <1>4, <1>5, <2>1, NowIs, LowerFits
<1>7. Extensions(b0, gnum_fixed_clauses, gnum_fixed_c, saved)
  <2>1. CutsAt(Now, gnum_fixed_clauses, gnum_fixed_c, FixedEnds(Now))
    BY <1>1 DEF Extensions
  <2>2. FixedEnds(b0) = FixedEnds(Now)
    BY <1>5, NowIs DEF FixedEnds
  <2>3. CutsAt(b0, gnum_fixed_clauses, gnum_fixed_c, FixedEnds(b0))
    BY <1>4, <1>5, <2>1, <2>2, NowIs DEF CutsAt
  <2>4. Len(saved) = 0 /\ 1..0 = {}
    BY <1>1
  <2> QED
    BY <1>1, <1>5, <2>3, <2>4, NowIs DEF Extensions
<1>8. CASE base_pc' = "full" /\ Now' = Now
  BY <1>1, <1>8, FullInv
<1>9. CASE base_pc' = "dynamic" /\ Now' = b /\ Fits(b) /\ Grown(b0, b, "dynamic")
  <2>1. Extensions(b, gnum_fixed_clauses, gnum_fixed_c, saved)
    BY <1>6, <1>7, <1>9, GrownExtends
  <2> QED
    BY <1>1, <1>9, <2>1 DEF BaseInv
<1> QED
  BY <1>3, <1>6, <1>8, <1>9, BatchIsSeq, InstalledIs

(* The lists as they are, one more stand.                                  *)
LEMMA StandAdded ==
  ASSUME NEW b, Fits(b), NEW nf, NEW cf, NEW sv \in Seq(Stand), Extensions(b, nf, cf, sv), NEW s \in Stand,
         s.cl = Len(b.clauses), s.c = b.c,
         \A v \in CodeRange, sign \in Signs : s.end[v][sign] = b.lists[v][sign].end
  PROVE  Extensions(b, nf, cf, Append(sv, s))
<1>0. PICK sv2 : sv2 = Append(sv, s)
  OBVIOUS
<1>1. PICK N \in Nat : N = Len(sv) /\ sv2 = Append(sv, s)
  BY <1>0, LenProperties
<1>2. Len(sv2) = N + 1 /\ sv2[N + 1] = s /\ \A i \in 1..N : sv2[i] = sv[i]
  BY <1>1, AppendProperties
<1>3. \A i \in 1..N + 1 : i = N + 1 \/ i \in 1..N
  OBVIOUS
<1>4. b.c \in Nat /\ Len(b.clauses) \in Nat /\ 1..b.c \subseteq CodeRange
  BY BaseIs
<1>5. CutsAt(b, s.cl, s.c, s.end)
  BY <1>4, CutsAtEnd
<1>6. nf \in 0..Len(b.clauses) /\ cf \in 0..b.c
  BY DEF Extensions, CutsAt
<1>7. \A i \in 1..N : /\ CutsAt(b, sv[i].cl, sv[i].c, sv[i].end) /\ nf <= sv[i].cl /\ cf <= sv[i].c
                      /\ sv[i].cl \in 0..Len(b.clauses) /\ sv[i].c \in 0..b.c
  BY <1>1 DEF Extensions, CutsAt
<1>8. ASSUME NEW i \in 1..N + 1
      PROVE  CutsAt(b, sv2[i].cl, sv2[i].c, sv2[i].end) /\ nf <= sv2[i].cl /\ cf <= sv2[i].c
  <2>1. CASE i = N + 1
    BY <1>2, <1>4, <1>5, <1>6, <2>1
  <2>2. CASE i \in 1..N
    BY <1>2, <1>7, <2>2
  <2> QED
    BY <1>3, <2>1, <2>2
<1>9. ASSUME NEW i \in 1..N + 1, NEW j \in 1..N + 1, i <= j
      PROVE  sv2[i].cl <= sv2[j].cl /\ sv2[i].c <= sv2[j].c
  <2>1. CASE i \in 1..N /\ j \in 1..N
    BY <1>1, <1>2, <1>9, <2>1 DEF Extensions
  <2>2. CASE i \in 1..N /\ j = N + 1
    <3>1. sv2[i] = sv[i] /\ sv2[j] = s
      BY <1>2, <2>2
    <3>2. sv[i].cl <= Len(b.clauses) /\ sv[i].c <= b.c
      BY <1>4, <1>7, <2>2
    <3> QED
      BY <3>1, <3>2
  <2>3. CASE i = N + 1
    <3>1. j = N + 1
      BY <1>9, <2>3
    <3> QED
      BY <1>2, <1>4, <2>3, <3>1
  <2> QED
    BY <1>3, <2>1, <2>2, <2>3
<1> QED
  BY <1>1, <1>2, <1>8, <1>9 DEF Extensions

LEMMA FurtherInv ==
  ASSUME BaseInv, ExtendFurther
  PROVE  BaseInv'
<1>1. /\ Fits(Now) /\ Extensions(Now, gnum_fixed_clauses, gnum_fixed_c, saved) /\ saved \in Seq(Stand)
      /\ UNCHANGED <<gnum_fixed_c, gnum_fixed_clauses>>
  BY DEF BaseInv, ExtendFurther
<1>2. PICK s : s = [cl |-> Len(gclauses), c |-> gnum_c,
                    end |-> [v \in CodeRange |-> [sign \in Signs |-> lists[v][sign].end]]]
  OBVIOUS
<1>3. saved' = Append(saved, s)
  BY <1>2 DEF ExtendFurther
<1>batch. PICK batch \in Seq(Pool) : Installed(Encode(Now, batch, "dynamic"), "dynamic")
  <2>1. \A clause \in Pool : <<clause>> \in Seq(Pool)
    OBVIOUS
  <2> QED
    BY <2>1 DEF ExtendFurther, Now
<1>4. PICK b : b = Encode(Now, batch, "dynamic") /\ Installed(b, "dynamic")
  BY <1>batch
<1>5. /\ s.cl = Len(Now.clauses) /\ s.c = Now.c
      /\ \A v \in CodeRange, sign \in Signs : s.end[v][sign] = Now.lists[v][sign].end
  BY <1>2, NowIs
<1>6. s \in Stand
  <2>1. Len(gclauses) \in Nat /\ gnum_c \in Nat
    BY <1>1, BaseIs, NowIs
  <2>2. \A v \in CodeRange, sign \in Signs : lists[v][sign].end \in Nat
    BY <1>1, BaseIs, NowIs DEF ListRecord
  <2>3. [v \in CodeRange |-> [sign \in Signs |-> lists[v][sign].end]] \in [CodeRange -> [Signs -> Nat]]
    BY <2>2
  <2> QED
    BY <1>2, <2>1, <2>3 DEF Stand
<1>7. Extensions(Now, gnum_fixed_clauses, gnum_fixed_c, saved')
  BY <1>1, <1>3, <1>5, <1>6, StandAdded
<1>8. saved' \in Seq(Stand)
  BY <1>1, <1>3, <1>6, AppendProperties
<1>9. CASE base_pc' = "full" /\ Now' = Now
  BY <1>8, <1>9, FullInv
<1>10. CASE base_pc' = "dynamic" /\ Now' = b /\ Fits(b) /\ Grown(Now, b, "dynamic")
  <2>1. Extensions(b, gnum_fixed_clauses, gnum_fixed_c, saved')
    BY <1>1, <1>7, <1>10, GrownExtends
  <2> QED
    BY <1>1, <1>8, <1>10, <2>1 DEF BaseInv
<1> QED
  BY <1>1, <1>4, <1>9, <1>10, InstalledIs

(* The last stand that was saved.                                          *)
LEMMA LastStand ==
  ASSUME BaseInv, base_pc = "dynamic", saved # <<>>, NEW s, s = saved[Len(saved)]
  PROVE  /\ s \in Stand /\ CutsAt(Now, s.cl, s.c, s.end) /\ Len(saved) \in Nat \ {0}
         /\ s.cl \in 0..Len(gclauses) /\ s.c \in 0..gnum_c /\ gnum_c \in Nat
         /\ gnum_fixed_clauses <= s.cl /\ gnum_fixed_c <= s.c
         /\ \A i \in 1..Len(saved) : saved[i].cl <= s.cl /\ saved[i].c <= s.c
<1>1. Fits(Now) /\ Extensions(Now, gnum_fixed_clauses, gnum_fixed_c, saved) /\ saved \in Seq(Stand)
  BY DEF BaseInv
<1>2. PICK N \in Nat \ {0} : N = Len(saved)
  <2>1. Len(saved) \in Nat
    BY <1>1, LenProperties
  <2>2. Len(saved) # 0
    BY <1>1
  <2> QED
    BY <2>1, <2>2
<1>3. N \in 1..N /\ s = saved[N]
  BY <1>2
<1>4. s \in Stand
  BY <1>1, <1>2, <1>3, ElementOfSeq
<1>5. CutsAt(Now, s.cl, s.c, s.end) /\ gnum_fixed_clauses <= s.cl /\ gnum_fixed_c <= s.c
  BY <1>1, <1>2, <1>3 DEF Extensions
<1>6. s.cl \in 0..Len(gclauses) /\ s.c \in 0..gnum_c
  BY <1>5, NowIs DEF CutsAt
<1>7. \A i \in 1..N : i <= N
  OBVIOUS
<1>8. \A i \in 1..N : saved[i].cl <= s.cl /\ saved[i].c <= s.c
  BY <1>1, <1>2, <1>3, <1>7 DEF Extensions
<1>9. gnum_c \in Nat
  BY <1>1, BaseIs, NowIs
<1> QED
  BY <1>2, <1>4, <1>5, <1>6, <1>8, <1>9

LEMMA RestoreInv ==
  ASSUME BaseInv, Restore
  PROVE  BaseInv'
<1>1. /\ Fits(Now) /\ Extensions(Now, gnum_fixed_clauses, gnum_fixed_c, saved) /\ saved \in Seq(Stand)
      /\ base_pc = "dynamic" /\ base_pc' = "dynamic" /\ saved # <<>>
      /\ UNCHANGED <<gcf_gct, gnum_c, gnum_fixed_c, gnum_fixed_clauses>>
  BY DEF BaseInv, Restore
<1>2. PICK s : s = saved[Len(saved)]
  OBVIOUS
<1>3. /\ gclauses' = SubSeq(gclauses, 1, s.cl) /\ gcodes' = CodesBelow(s.c) /\ lists' = EndsAt(s)
      /\ saved' = Front(saved)
  BY <1>2 DEF Restore
<1>4. PICK r : r = Base(gnum_c, CodesBelow(s.c), EndsAt(s), SubSeq(gclauses, 1, s.cl))
  OBVIOUS
<1>5. Now' = r
  BY <1>1, <1>3, <1>4 DEF Now, Base
<1>6. /\ s \in Stand /\ CutsAt(Now, s.cl, s.c, s.end) /\ Len(saved) \in Nat \ {0}
      /\ s.cl \in 0..Len(gclauses) /\ s.c \in 0..gnum_c /\ gnum_c \in Nat
      /\ gnum_fixed_clauses <= s.cl /\ gnum_fixed_c <= s.c
      /\ \A i \in 1..Len(saved) : saved[i].cl <= s.cl /\ saved[i].c <= s.c
  BY <1>1, <1>2, LastStand
<1>7. IsCut(Now, r, s.cl, s.c, s.end)
  <2>1. gnum_c \in s.c..gnum_c
    BY <1>6
  <2> QED
    BY <1>1, <1>4, <1>6, <2>1, BackIs
<1>8. Fits(r)
  BY <1>1, <1>6, <1>7, CutFits
<1>9. PICK N \in Nat : N + 1 = Len(saved)
  <2>1. Len(saved) - 1 \in Nat /\ (Len(saved) - 1) + 1 = Len(saved)
    BY <1>6
  <2> QED
    BY <2>1
<1>10. saved' \in Seq(Stand) /\ Len(saved') = N /\ \A i \in 1..N : saved'[i] = saved[i]
  <2>1. saved' = SubSeq(saved, 1, N)
    BY <1>3, <1>9 DEF Front
  <2>2. \A i \in 1..N : saved[i] \in Stand
    <3>1. \A i \in 1..N : i \in 1..Len(saved)
      BY <1>9
    <3> QED
      BY <1>1, <3>1, ElementOfSeq
  <2>3. N \in Int /\ 1 \in Int
    OBVIOUS
  <2>4. /\ SubSeq(saved, 1, N) \in Seq(Stand)
        /\ Len(SubSeq(saved, 1, N)) = IF 1 <= N THEN N - 1 + 1 ELSE 0
        /\ \A i \in 1..N - 1 + 1 : SubSeq(saved, 1, N)[i] = saved[1 + i - 1]
    BY <2>2, <2>3, SubSeqProperties
  <2>5. (IF 1 <= N THEN N - 1 + 1 ELSE 0) = N /\ N - 1 + 1 = N /\ \A i \in 1..N : 1 + i - 1 = i
    OBVIOUS
  <2> QED
    BY <2>1, <2>4, <2>5
<1>11. Extensions(r, gnum_fixed_clauses, gnum_fixed_c, saved')
  <2>1. \A i \in 1..Len(saved') : i \in 1..Len(saved) /\ saved'[i] = saved[i] /\ saved[i].cl <= s.cl /\ saved[i].c <= s.c
    <3>1. \A i \in 1..N : i \in 1..N + 1
      OBVIOUS
    <3> QED
      BY <1>6, <1>9, <1>10, <3>1
  <2> QED
    BY <1>1, <1>6, <1>7, <2>1, CutExtends
<1> QED
  BY <1>1, <1>5, <1>8, <1>10, <1>11 DEF BaseInv

LEMMA TryOtherInv ==
  ASSUME BaseInv, TryOther
  PROVE  BaseInv'
<1>1. /\ Fits(Now) /\ Extensions(Now, gnum_fixed_clauses, gnum_fixed_c, saved) /\ saved \in Seq(Stand)
      /\ base_pc = "dynamic" /\ saved # <<>>
      /\ UNCHANGED <<gnum_fixed_c, gnum_fixed_clauses, saved>>
  BY DEF BaseInv, TryOther
<1>2. PICK s, r : s = saved[Len(saved)] /\ r = Base(s.c, CodesBelow(s.c), EndsAt(s), SubSeq(gclauses, 1, s.cl))
  OBVIOUS
<1>batch. PICK batch \in Seq(Pool) : Installed(Encode(r, batch, "dynamic"), "dynamic")
  <2>1. \A clause \in Pool : <<clause>> \in Seq(Pool)
    OBVIOUS
  <2> QED
    BY <1>2, <2>1 DEF TryOther
<1>3. PICK b : b = Encode(r, batch, "dynamic") /\ Installed(b, "dynamic")
  BY <1>batch
<1>4. /\ s \in Stand /\ CutsAt(Now, s.cl, s.c, s.end)
      /\ s.cl \in 0..Len(gclauses) /\ s.c \in 0..gnum_c /\ gnum_c \in Nat
      /\ gnum_fixed_clauses <= s.cl /\ gnum_fixed_c <= s.c
      /\ \A i \in 1..Len(saved) : saved[i].cl <= s.cl /\ saved[i].c <= s.c
  BY <1>1, <1>2, LastStand
<1>5. IsCut(Now, r, s.cl, s.c, s.end)
  <2>1. s.c \in s.c..gnum_c
    BY <1>4
  <2> QED
    BY <1>1, <1>2, <1>4, <2>1, BackIs
<1>6. Fits(r) /\ Extensions(r, gnum_fixed_clauses, gnum_fixed_c, saved)
  <2>1. Fits(r)
    BY <1>1, <1>4, <1>5, CutFits
  <2>2. Extensions(r, gnum_fixed_clauses, gnum_fixed_c, saved)
    <3>1. PICK n, c, e : n = s.cl /\ c = s.c /\ e = s.end
      OBVIOUS
    <3>2. CutsAt(Now, n, c, e) /\ IsCut(Now, r, n, c, e) /\ gnum_fixed_clauses <= n /\ gnum_fixed_c <= c
      BY <1>4, <1>5, <3>1
    <3>3. \A i \in 1..Len(saved) : i \in 1..Len(saved) /\ saved[i] = saved[i] /\ saved[i].cl <= n /\ saved[i].c <= c
      BY <1>4, <3>1
    <3> QED
      BY <1>1, <3>2, <3>3, CutExtends
  <2> QED
    BY <2>1, <2>2
<1>7. CASE base_pc' = "full" /\ Now' = Now
  BY <1>1, <1>7, FullInv
<1>8. CASE base_pc' = "dynamic" /\ Now' = b /\ Fits(b) /\ Grown(r, b, "dynamic")
  <2>1. Extensions(b, gnum_fixed_clauses, gnum_fixed_c, saved)
    BY <1>6, <1>8, GrownExtends
  <2> QED
    BY <1>1, <1>8, <2>1 DEF BaseInv
<1> QED
  BY <1>3, <1>6, <1>7, <1>8, InstalledIs

(* The exit is not taken, and what is left are the clauses of the initial  *)
(* state.                                                                  *)
LEMMA UndoInv ==
  ASSUME BaseInv, UndoDynamic
  PROVE  BaseInv'
<1>1. /\ Fits(Now) /\ Extensions(Now, gnum_fixed_clauses, gnum_fixed_c, saved)
      /\ saved' = <<>>
      /\ UNCHANGED <<gcf_gct, gnum_c, gnum_fixed_c, gnum_fixed_clauses>>
  BY DEF BaseInv, UndoDynamic
<1>2. CutsAt(Now, gnum_fixed_clauses, gnum_fixed_c, FixedEnds(Now))
  BY <1>1 DEF Extensions
<1>3. /\ gnum_fixed_c \in 0..gnum_c /\ gnum_fixed_clauses \in 0..Len(gclauses) /\ gnum_c \in Nat /\ gnum_c <= MaxCodes
      /\ MaxCodes \in Nat /\ Len(gclauses) \in Nat
  BY <1>1, <1>2, BaseIs, NowIs DEF CutsAt
<1>4. ~\E v \in gnum_fixed_c + 1..gnum_c : ~FixedAtStart(v)
  <2> SUFFICES ASSUME NEW v \in gnum_fixed_c + 1..gnum_c, NEW sign \in Signs
               PROVE  lists[v][sign].cells # <<>> /\ lists[v][sign].fixed = 1
    BY DEF FixedAtStart
  <2>1. v \in CodeRange /\ v > gnum_fixed_c /\ v <= gnum_c
    BY <1>3 DEF CodeRange
  <2>2. lists[v][sign].cells # <<>>
    BY <1>1, <2>1, NowIs DEF Fits, ListsFit
  <2> QED
    BY <1>1, <2>1, <2>2, NowIs DEF Extensions
<1>5. /\ gclauses' = SubSeq(gclauses, 1, gnum_fixed_clauses) /\ gcodes' = CodesBelow(gnum_fixed_c)
      /\ lists' = CutLists /\ base_pc' = "fixed"
  BY <1>4 DEF UndoDynamic
<1>6. PICK s : s = [cl |-> gnum_fixed_clauses, c |-> gnum_fixed_c, end |-> FixedEnds(Now)]
  OBVIOUS
<1>7. s.cl = gnum_fixed_clauses /\ s.c = gnum_fixed_c /\ s.end = FixedEnds(Now)
  BY <1>6
<1>8. s \in Stand
  <2>1. \A v \in CodeRange, sign \in Signs : Now.lists[v][sign].fixed \in Nat
    BY <1>1, BaseIs DEF ListRecord
  <2>2. FixedEnds(Now) \in [CodeRange -> [Signs -> Nat]]
    BY <2>1 DEF FixedEnds
  <2>3. gnum_fixed_clauses \in Nat /\ gnum_fixed_c \in Nat
    BY <1>3
  <2> QED
    BY <1>6, <2>2, <2>3 DEF Stand
<1>9. CutLists = EndsAt(s)
  <2>1. \A v \in CodeRange, sign \in Signs : s.end[v][sign] = lists[v][sign].fixed
    BY <1>7, FixedEndsAre, NowIs
  <2> QED
    BY <1>7, <2>1 DEF CutLists, EndsAt
<1>10. PICK r : r = Base(gnum_c, CodesBelow(s.c), EndsAt(s), SubSeq(gclauses, 1, s.cl))
  OBVIOUS
<1>11. Now' = r
  BY <1>1, <1>5, <1>7, <1>9, <1>10 DEF Now, Base
<1>12. IsCut(Now, r, s.cl, s.c, s.end)
  <2>1. gnum_c \in s.c..gnum_c
    BY <1>3, <1>7
  <2> QED
    BY <1>1, <1>3, <1>7, <1>8, <1>10, <2>1, BackIs
<1>13. Fits(r)
  BY <1>1, <1>2, <1>7, <1>12, CutFits
<1>14. saved' \in Seq(Stand) /\ Len(saved') = 0 /\ 1..0 = {}
  BY <1>1
<1>15. Extensions(r, gnum_fixed_clauses, gnum_fixed_c, saved')
  <2>1. gnum_fixed_clauses <= s.cl /\ gnum_fixed_c <= s.c
    BY <1>3, <1>7
  <2> QED
    BY <1>1, <1>2, <1>7, <1>12, <1>14, <2>1, CutExtends
<1>16. Len(gclauses') = gnum_fixed_clauses /\ \A x \in TimedFacts : gcodes'[x] <= gnum_fixed_c
  <2>1. gclauses' = r.clauses /\ gcodes' = r.codes
    BY <1>11 DEF Now, Base
  <2>2. Len(r.clauses) = gnum_fixed_clauses
    BY <1>7, <1>12 DEF IsCut
  <2>3. ASSUME NEW x \in TimedFacts
        PROVE  r.codes[x] <= gnum_fixed_c
    <3>1. PICK w \in Int : w = Now.codes[x]
      BY <1>1, BaseIs
    <3>2. r.codes[x] = IF w > gnum_fixed_c THEN -1 ELSE w
      BY <1>7, <1>12, <3>1 DEF IsCut
    <3> QED
      BY <1>3, <3>2
  <2> QED
    BY <2>1, <2>2, <2>3
<1> QED
  BY <1>1, <1>5, <1>11, <1>13, <1>14, <1>15, <1>16 DEF BaseInv

LEMMA BaseStep == BaseInv /\ [BaseNext]_base_vars => BaseInv'
<1> SUFFICES ASSUME BaseInv, [BaseNext]_base_vars
             PROVE  BaseInv'
  OBVIOUS
<1>1. CASE create_fixed_initial_clauses
  BY <1>1, CreateInv
<1>2. CASE extend_dynamic_clauses_base
  BY <1>2, ExtendInv
<1>3. CASE ExtendFurther
  BY <1>3, FurtherInv
<1>4. CASE Restore
  BY <1>4, RestoreInv
<1>5. CASE TryOther
  BY <1>5, TryOtherInv
<1>6. CASE UndoDynamic
  BY <1>6, UndoInv
<1>7. CASE UNCHANGED base_vars
  <2>1. Now' = Now
    BY <1>7 DEF base_vars, Now, Base
  <2>2. BaseInit => BaseInit'
    BY <1>7 DEF base_vars, BaseInit
  <2>3. UNCHANGED <<base_pc, saved, gnum_fixed_c, gnum_fixed_clauses, gclauses, gcodes>>
    BY <1>7 DEF base_vars
  <2> QED
    BY <2>1, <2>2, <2>3 DEF BaseInv
<1> QED
  BY <1>1, <1>2, <1>3, <1>4, <1>5, <1>6, <1>7 DEF BaseNext

(* What dp_CNF meets when it follows a list.                               *)
LEMMA MembersAre ==
  ASSUME Fits(Now), NEW v \in CodeRange, NEW sign \in Signs
  PROVE  LET m == Members(v, sign) IN
         /\ ToSet(m) = {c \in 1..Len(gclauses) : Coded(v, sign) \in ToSet(gclauses[c])}
         /\ \A i, j \in 1..Len(m) : i < j => m[i] < m[j]
<1>1. PICK l \in ListRecord : l = lists[v][sign]
  BY BaseIs, NowIs
<1>2. PICK m, lit : m = Members(v, sign) /\ lit = Coded(v, sign)
  OBVIOUS
<1>3. ListFits(l) /\ Lists(l, lit, gclauses)
  BY <1>1, <1>2, NowIs DEF Fits, ListsFit
<1>4. l.cells \in Seq(Int) /\ l.end \in Nat
  BY DEF ListRecord
<1>5. Len(l.cells) \in Nat
  BY <1>4, LenProperties
<1>6. \A i \in 1..l.end - 1 : i \in 1..Len(l.cells)
  BY <1>3, <1>4, <1>5 DEF ListFits
<1>7. m \in Seq(Int) /\ DOMAIN m = 1..l.end - 1 /\ (\A i \in 1..l.end - 1 : m[i] = l.cells[i])
      /\ (\A i \in 1..Len(m) : i \in 1..l.end - 1)
  <2>1. PICK e \in Int : e = l.end - 1 /\ e >= -1
    BY <1>4
  <2>2. m = SubSeq(l.cells, 1, e)
    BY <1>1, <1>2, <2>1 DEF Members
  <2>3. \A i \in 1..e : l.cells[i] \in Int
    BY <1>4, <1>6, <2>1, ElementOfSeq
  <2>4. 1 \in Int
    OBVIOUS
  <2>5. /\ SubSeq(l.cells, 1, e) \in Seq(Int)
        /\ Len(SubSeq(l.cells, 1, e)) = IF 1 <= e THEN e - 1 + 1 ELSE 0
        /\ \A i \in 1..e - 1 + 1 : SubSeq(l.cells, 1, e)[i] = l.cells[1 + i - 1]
    BY <2>1, <2>3, <2>4, SubSeqProperties
  <2>6. PICK n \in Nat : n = (IF 1 <= e THEN e - 1 + 1 ELSE 0) /\ 1..n = 1..e
    BY <2>1
  <2>7. DOMAIN m = 1..n /\ Len(m) = n
    BY <2>2, <2>5, <2>6
  <2>8. e - 1 + 1 = e /\ \A i \in 1..e : 1 + i - 1 = i
    BY <2>1
  <2> QED
    BY <2>1, <2>2, <2>5, <2>6, <2>7, <2>8
<1>8. ASSUME NEW c \in 1..Len(gclauses)
      PROVE  lit \in ToSet(gclauses[c]) <=> Contains(gclauses[c], lit)
  <2>1. gclauses[c] \in Seq(Int)
    BY BaseIs, NowIs
  <2>2. DOMAIN gclauses[c] = 1..Len(gclauses[c])
    BY <2>1
  <2> QED
    BY <2>2 DEF ToSet, Contains
<1>9. ToSet(m) = {l.cells[i] : i \in 1..l.end - 1}
  BY <1>7 DEF ToSet
<1>10. \A i \in 1..l.end - 1 : l.cells[i] \in 1..Len(gclauses) /\ Contains(gclauses[l.cells[i]], lit)
  BY <1>3 DEF Lists
<1>11. \A c \in 1..Len(gclauses) : Contains(gclauses[c], lit) => \E i \in 1..l.end - 1 : l.cells[i] = c
  BY <1>3 DEF Lists
<1>12. ToSet(m) = {c \in 1..Len(gclauses) : lit \in ToSet(gclauses[c])}
  BY <1>8, <1>9, <1>10, <1>11
<1>13. \A i, j \in 1..Len(m) : i < j => m[i] < m[j]
  BY <1>3, <1>7 DEF Lists
<1> QED
  BY <1>2, <1>12, <1>13

LEMMA InvSaysMatch == BaseInv => ListsMatchClauses
<1> SUFFICES ASSUME BaseInv PROVE ListsMatchClauses
  OBVIOUS
<1>1. Fits(Now)
  BY DEF BaseInv
<1>2. ListsMatch
  BY <1>1, MembersAre DEF ListsMatch
<1>3. gnum_c \in Nat
  BY <1>1, BaseIs, NowIs
<1>4. ASSUME NEW x \in TimedFacts, gcodes[x] # -1
      PROVE  gcodes[x] <= gnum_c /\ gcf_gct[gcodes[x]] = x
  <2>1. gcodes[x] \in 1..gnum_c /\ gcf_gct[gcodes[x]] = x
    BY <1>1, <1>4, NowIs DEF Fits, CodesFit
  <2> QED
    BY <1>3, <2>1
<1>5. ASSUME NEW c \in 1..Len(gclauses), NEW k \in 1..Len(gclauses[c]), NEW l, l = gclauses[c][k]
      PROVE  gcodes[gcf_gct[IF l > 0 THEN l ELSE -l]] = (IF l > 0 THEN l ELSE -l)
  <2>1. LiteralFits(Now, l)
    BY <1>1, <1>5, NowIs DEF Fits, ClausesFit
  <2>2. PICK v \in 1..gnum_c : gcodes[gcf_gct[v]] = v /\ (l = v \/ l = -v)
    BY <2>1, NowIs DEF LiteralFits
  <2>3. (IF l > 0 THEN l ELSE -l) = v
    BY <1>3, <2>2
  <2> QED
    BY <2>2, <2>3
<1>6. CodesInverse
  BY <1>4, <1>5 DEF CodesInverse
<1>7. AllocationsEnd
  <2> SUFFICES ASSUME NEW v \in CodeRange, NEW sign \in Signs, lists[v][sign].cells # <<>>
               PROVE  /\ lists[v][sign].end \in 1..Len(lists[v][sign].cells)
                      /\ \A k \in 1..Len(lists[v][sign].cells) :
                           lists[v][sign].cells[k] = EndOfList <=> k = Len(lists[v][sign].cells)
    BY DEF AllocationsEnd
  <2>1. ListFits(lists[v][sign])
    BY <1>1, NowIs DEF Fits, ListsFit
  <2> QED
    BY <2>1 DEF ListFits
<1>8. base_pc # "exit"
  BY DEF BaseInv
<1> QED
  BY <1>2, <1>6, <1>7, <1>8 DEF ListsMatchClauses

(* After every sequence of extensions, nested tests and undoes, the list   *)
(* of a literal holds the clauses that contain it, each once, no two facts *)
(* share a code, and the planner's exit is not taken.                      *)
THEOREM ClauseListsMatch == BaseSpec => []ListsMatchClauses
<1>1. BaseInit => BaseInv
  BY BaseInitInv
<1>2. BaseInv /\ [BaseNext]_base_vars => BaseInv'
  BY BaseStep
<1>3. BaseInv => ListsMatchClauses
  BY InvSaysMatch
<1> QED
  BY <1>1, <1>2, <1>3, PTL DEF BaseSpec
------------------------------------------------------------------------------
(* The satisfiability test.                                                *)

(* A clause all of whose literals are contradicted by the first n entries. *)
FalseAt(c, n) == \A l \in c : \E k \in 1..n : decision_stack[k] = -l

(* An assignment that makes true what was asked and what the first m open  *)
(* calls of dp are trying.                                                 *)
Agrees(a, m) ==
  /\ \A k \in 1..Len(asked) : Holds(a, asked[k])
  /\ \A f \in 1..m : Holds(a, decision_stack[frames[f].entry + 1])

(* Every model of that kind makes the first n entries true.                *)
Entails(m, n) ==
  \A a \in Models : Agrees(a, m) => \A k \in 1..n : Holds(a, decision_stack[k])

(* The array holds the first n entries, each once, and nothing else.       *)
InStep(n) ==
  /\ \A k \in 1..n : Holds(lassigned, decision_stack[k])
  /\ \A j, k \in 1..n : Code(decision_stack[j]) = Code(decision_stack[k]) => j = k
  /\ \A v \in Codes : lassigned[v] # Open => \E k \in 1..n : Code(decision_stack[k]) = v

(* Pre-insertion: the entries before idx are in the array, and nothing     *)
(* asked is lost from the stack.                                           *)
InsertInv ==
  /\ frames = <<>>
  /\ idx <= Depth + 1 /\ Depth > 0
  /\ InStep(idx - 1)
  /\ \A k \in 1..Len(asked) : \E j \in 1..Depth : decision_stack[j] = asked[k]
  /\ \A j \in 1..Depth : \E k \in 1..Len(asked) : decision_stack[j] = asked[k]

(* An open call of dp: it entered with no clause contradicted, what it     *)
(* found on the stack was entailed, and if it is in its second branch the  *)
(* first one has no model.                                                 *)
FrameInv(f) ==
  /\ frames[f].entry < Depth
  /\ \A g \in 1..f - 1 : frames[g].entry < frames[f].entry
  /\ decision_stack[frames[f].entry + 1] =
       IF frames[f].negative THEN -frames[f].dec_v ELSE frames[f].dec_v
  /\ \A c \in clauses : ~ FalseAt(c, frames[f].entry)
  /\ Entails(f - 1, frames[f].entry)
  /\ frames[f].negative =>
       \A a \in Models : Agrees(a, f - 1) => ~ Holds(a, frames[f].dec_v)

(* What was asked lies below the entries of every open call.               *)
AskedBelow ==
  \A k \in 1..Len(asked) : \E j \in 1..Depth :
    decision_stack[j] = asked[k] /\ \A f \in 1..Len(frames) : j <= frames[f].entry

SearchInv ==
  /\ InStep(Depth)
  /\ \A f \in 1..Len(frames) : FrameInv(f)
  /\ AskedBelow

(* A contradicted clause is still to be looked at.                         *)
PendingInv ==
  /\ idx <= Depth /\ todo \subseteq clauses
  /\ \A c \in clauses : FalseAt(c, Depth) =>
       \E k \in idx..Depth : -decision_stack[k] \in c /\ (k = idx => c \in todo)

ReturnInv ==
  IF sat THEN \E a \in Models : \A k \in 1..Len(asked) : Holds(a, asked[k])
  ELSE \A a \in Models : ~ Agrees(a, Len(frames))

Searching == pc \in {"propagate", "dp", "return"}

DpInv ==
  /\ TypeOK
  /\ clauses \in Databases
  /\ NeverExits
  /\ pc = "idle" => \A v \in Codes : lassigned[v] = Open
  /\ pc = "insert" => InsertInv
  /\ Searching => SearchInv
  /\ pc \in {"propagate", "dp"} => Entails(Len(frames), Depth)
  /\ pc = "propagate" => PendingInv
  /\ pc = "dp" => \A c \in clauses : ~ FalseAt(c, Depth)
  /\ pc = "return" => ReturnInv
  /\ AnswerExact
------------------------------------------------------------------------------
USE SolverAssumption, CallerAssumption DEF Open

(* What literals, codes and signs have to do with each other.              *)
LEMMA LiteralFacts ==
  /\ \A l \in Literals : /\ l \in Int /\ -l \in Literals /\ -(-l) = l
                         /\ Code(l) \in Codes /\ Code(-l) = Code(l)
                         /\ Sign(l) \in {0, 1} /\ Sign(-l) = 1 - Sign(l)
  /\ \A v \in Codes : /\ v \in Literals /\ Code(v) = v /\ Sign(v) = 1
                      /\ -v \in Literals /\ Code(-v) = v /\ Sign(-v) = 0
  /\ \A l, m \in Literals : Code(l) = Code(m) => m = l \/ m = -l
  /\ \A l, m \in Literals : Code(l) = Code(m) /\ Sign(l) = Sign(m) => m = l
<1>1. \A l : l \in Literals <=> l \in Int /\ (l \in 1..NumCodes \/ -l \in 1..NumCodes)
  BY DEF Literals, Codes
<1> QED
  BY <1>1 DEF Codes, Code, Sign

(* A sequence cut off after n elements.                                    *)
LEMMA Cut ==
  ASSUME NEW S, NEW s \in Seq(S), NEW n \in 0..Len(s)
  PROVE  /\ SubSeq(s, 1, n) \in Seq(S)
         /\ Len(SubSeq(s, 1, n)) = n
         /\ \A k \in 1..n : SubSeq(s, 1, n)[k] = s[k]
<1>1. Len(s) \in Nat /\ \A i \in 1..n : s[i] \in S
  BY LenProperties, ElementOfSeq
<1>2. /\ SubSeq(s, 1, n) \in Seq(S)
      /\ Len(SubSeq(s, 1, n)) = IF 1 <= n THEN n - 1 + 1 ELSE 0
      /\ \A k \in 1..n - 1 + 1 : SubSeq(s, 1, n)[k] = s[1 + k - 1]
  BY <1>1, SubSeqProperties
<1> QED
  BY <1>1, <1>2

(* The stack after dp tried a literal, and its type.                       *)
LEMMA DecideStack ==
  ASSUME TypeOK, NEW l \in Literals, NEW entry \in 0..Depth, entry < Capacity, Decide(l, entry)
  PROVE  /\ decision_stack' \in Seq(Literals)
         /\ Depth' = entry + 1
         /\ decision_stack'[entry + 1] = l
         /\ \A k \in 1..entry : decision_stack'[k] = decision_stack[k]
         /\ lassigned' = [Retracted(lassigned, entry + 1) EXCEPT ![Code(l)] = Sign(l)]
         /\ lassigned' \in [Codes -> {-1, 0, 1}]
         /\ idx' = entry + 1 /\ pc' = "propagate" /\ todo' = Containing(-l)
<1> DEFINE low == SubSeq(decision_stack, 1, entry)
<1>1. decision_stack \in Seq(Literals) /\ Depth \in Nat
  BY LenProperties DEF TypeOK, Depth
<1>2. /\ low \in Seq(Literals) /\ Len(low) = entry
      /\ \A k \in 1..entry : low[k] = decision_stack[k]
  BY <1>1, Cut DEF Depth
<1>3. decision_stack' = Append(low, l) /\ Propagating(entry + 1, Append(low, l))
      /\ lassigned' = [Retracted(lassigned, entry + 1) EXCEPT ![Code(l)] = Sign(l)]
  BY <1>1 DEF Decide
<1> HIDE DEF low
<1>4. /\ Append(low, l) \in Seq(Literals) /\ Len(Append(low, l)) = entry + 1
      /\ Append(low, l)[entry + 1] = l
      /\ \A k \in 1..entry : Append(low, l)[k] = low[k]
  BY <1>2, AppendProperties
<1>5. lassigned' \in [Codes -> {-1, 0, 1}]
  BY <1>3, LiteralFacts DEF TypeOK, Retracted
<1> QED
  BY <1>1, <1>2, <1>3, <1>4, <1>5 DEF Depth, Propagating

(* Without its last frame the list of open calls is the same.              *)
LEMMA FrontOfFrames ==
  ASSUME TypeOK, Len(frames) > 0
  PROVE  /\ Callers \in Seq([entry : Nat, dec_v : Codes, negative : BOOLEAN])
         /\ Len(Callers) = Len(frames) - 1
         /\ \A f \in 1..Len(frames) - 1 : Callers[f] = frames[f]
         /\ Innermost = frames[Len(frames)] /\ Len(frames) \in Nat \ {0}
         /\ Innermost \in [entry : Nat, dec_v : Codes, negative : BOOLEAN]
<1>1. /\ frames \in Seq([entry : Nat, dec_v : Codes, negative : BOOLEAN])
      /\ Len(frames) \in Nat \ {0}
  BY LenProperties DEF TypeOK
<1>2. Len(frames) - 1 \in 0..Len(frames) /\ Len(frames) \in 1..Len(frames)
  BY <1>1
<1>3. Innermost \in [entry : Nat, dec_v : Codes, negative : BOOLEAN]
  BY <1>1, <1>2, ElementOfSeq DEF Innermost
<1> DEFINE Calls == [entry : Nat, dec_v : Codes, negative : BOOLEAN]
<1>4. /\ Callers \in Seq(Calls)
      /\ Len(Callers) = Len(frames) - 1
      /\ \A f \in 1..Len(frames) - 1 : Callers[f] = frames[f]
  <2>1. frames \in Seq(Calls)
    BY <1>1
  <2> HIDE DEF Calls
  <2>2. /\ SubSeq(frames, 1, Len(frames) - 1) \in Seq(Calls)
        /\ Len(SubSeq(frames, 1, Len(frames) - 1)) = Len(frames) - 1
        /\ \A f \in 1..Len(frames) - 1 : SubSeq(frames, 1, Len(frames) - 1)[f] = frames[f]
    BY <1>2, <2>1, Cut, ZenonT(60)
  <2> QED
    BY <2>2 DEF Callers
<1>5. Innermost = frames[Len(frames)]
  BY DEF Innermost
<1> QED
  BY <1>1, <1>3, <1>4, <1>5
------------------------------------------------------------------------------
(* The stack has a cell for every entry, and one more while some variable  *)
(* is open: entries have different variables.                              *)
LEMMA RoomLeft ==
  ASSUME TypeOK, InStep(Depth)
  PROVE  /\ Depth <= NumCodes
         /\ (\E v \in Codes : lassigned[v] = Open) => Depth < NumCodes
<1> DEFINE codes == [k \in 1..Depth |-> Code(decision_stack[k])]
<1>1. Depth \in Nat /\ \A k \in 1..Depth : decision_stack[k] \in Literals
  BY LenProperties, ElementOfSeq DEF TypeOK, Depth
<1>2. /\ IsFiniteSet(1..Depth) /\ Cardinality(1..Depth) = Depth
      /\ IsFiniteSet(Codes) /\ Cardinality(Codes) = NumCodes
  <2>1. /\ IsFiniteSet(1..Depth) /\ Cardinality(1..Depth) = IF 1 > Depth THEN 0 ELSE Depth - 1 + 1
    BY <1>1, FS_Interval
  <2>2. /\ IsFiniteSet(1..NumCodes) /\ Cardinality(1..NumCodes) = IF 1 > NumCodes THEN 0 ELSE NumCodes - 1 + 1
    BY FS_Interval
  <2> QED
    BY <1>1, <2>1, <2>2 DEF Codes
<1>3. ASSUME NEW T \in SUBSET Codes, \A k \in 1..Depth : Code(decision_stack[k]) \in T
      PROVE  Depth <= Cardinality(T)
  <2>1. codes \in Injection(1..Depth, T)
    BY <1>1, <1>3 DEF InStep, Injection, IsInjective
  <2>2. IsFiniteSet(T)
    BY <1>2, FS_Subset
  <2> QED
    BY <1>2, <2>1, <2>2, FS_Injection
<1>4. Depth <= NumCodes
  BY <1>1, <1>2, <1>3, LiteralFacts
<1>5. ASSUME NEW v \in Codes, lassigned[v] = Open PROVE Depth < NumCodes
  <2>1. \A k \in 1..Depth : Code(decision_stack[k]) # v
    BY <1>1, <1>5, LiteralFacts, SMTT(30) DEF InStep, Holds
  <2>2. IsFiniteSet(Codes \ {v}) /\ Cardinality(Codes \ {v}) = NumCodes - 1
    BY <1>2, FS_RemoveElement
  <2>3. Depth <= Cardinality(Codes \ {v})
    BY <1>1, <1>3, <2>1, LiteralFacts
  <2> QED
    BY <1>1, <2>2, <2>3
<1> QED
  BY <1>4, <1>5

(* What holds of the last open call of dp.                                 *)
LEMMA LastFrame ==
  ASSUME DpInv, Searching, Len(frames) > 0
  PROVE  /\ Innermost.entry \in 0..Depth - 1 /\ Innermost.entry < Capacity /\ Innermost.dec_v \in Codes
         /\ Innermost.negative \in BOOLEAN
         /\ FrameInv(Len(frames)) /\ Depth \in Nat
<1>1. TypeOK /\ SearchInv
  BY DEF DpInv
<1>2. Innermost = frames[Len(frames)] /\ Len(frames) \in Nat \ {0}
      /\ Innermost \in [entry : Nat, dec_v : Codes, negative : BOOLEAN]
  BY <1>1, FrontOfFrames
<1>3. FrameInv(Len(frames))
  BY <1>1, <1>2 DEF SearchInv
<1>4. Depth \in Nat
  BY <1>1, LenProperties DEF TypeOK, Depth
<1>5. Innermost.entry \in Nat /\ Innermost.entry < Depth
  BY <1>2, <1>3 DEF FrameInv
<1>6. Depth <= NumCodes
  BY <1>1, RoomLeft DEF SearchInv
<1> QED
  BY <1>2, <1>3, <1>4, <1>5, <1>6

(* The sequences of the state, as functions.                               *)
LEMMA StateTypes ==
  ASSUME TypeOK
  PROVE  /\ Depth \in Nat /\ \A k \in 1..Depth : decision_stack[k] \in Literals
         /\ Len(asked) \in Nat /\ \A k \in 1..Len(asked) : asked[k] \in Literals
         /\ Len(frames) \in Nat
         /\ \A f \in 1..Len(frames) :
              frames[f].entry \in Nat /\ frames[f].dec_v \in Codes /\ frames[f].negative \in BOOLEAN
<1>1. /\ decision_stack \in Seq(Literals) /\ asked \in Seq(Literals)
      /\ frames \in Seq([entry : Nat, dec_v : Codes, negative : BOOLEAN])
  BY DEF TypeOK
<1>2. \A f \in 1..Len(frames) : frames[f] \in [entry : Nat, dec_v : Codes, negative : BOOLEAN]
  BY <1>1, ElementOfSeq
<1> QED
  BY <1>1, <1>2, LenProperties, ElementOfSeq DEF Depth

(* What is said about the first m calls and the first n entries stays so   *)
(* as long as these are not touched.                                       *)
LEMMA FramesKept ==
  ASSUME TypeOK, UNCHANGED <<clauses, asked>>,
         NEW n \in 0..Depth, NEW m \in 0..Len(frames), Depth' \in Nat, n <= Depth',
         \A k \in 1..n : decision_stack'[k] = decision_stack[k],
         \A f \in 1..m : frames'[f] = frames[f] /\ frames[f].entry < n /\ FrameInv(f)
  PROVE  /\ Models' = Models
         /\ \A f \in 1..m : FrameInv(f)'
         /\ \A a : Agrees(a, m)' <=> Agrees(a, m)
         /\ \A c : FalseAt(c, n)' <=> FalseAt(c, n)
         /\ Entails(m, n)' <=> Entails(m, n)
<1>1. Models' = Models
  BY DEF Models
<1>2. /\ Depth \in Nat /\ Len(frames) \in Nat
      /\ \A f \in 1..m : frames[f].entry \in Nat
  BY StateTypes
<1>3. ASSUME NEW i \in 0..n, NEW c PROVE FalseAt(c, i)' <=> FalseAt(c, i)
  BY <1>2 DEF FalseAt
<1>4. ASSUME NEW j \in 0..m, NEW a PROVE Agrees(a, j)' <=> Agrees(a, j)
  <2>1. \A f \in 1..j : decision_stack'[frames'[f].entry + 1] = decision_stack[frames[f].entry + 1]
    BY <1>2
  <2> QED
    BY <2>1 DEF Agrees, Holds
<1>5. ASSUME NEW j \in 0..m, NEW i \in 0..n PROVE Entails(j, i)' <=> Entails(j, i)
  <2>1. \A k \in 1..i : decision_stack'[k] = decision_stack[k]
    BY <1>2
  <2>2. \A a : Agrees(a, j)' <=> Agrees(a, j)
    BY <1>4
  <2>3. \A a : (\A k \in 1..i : Holds(a, decision_stack[k]))' <=> \A k \in 1..i : Holds(a, decision_stack[k])
    BY <2>1 DEF Holds
  <2> QED
    BY <1>1, <2>2, <2>3, Zenon DEF Entails
<1>6. ASSUME NEW f \in 1..m PROVE FrameInv(f)'
  <2>1. frames[f].entry \in 0..n /\ f - 1 \in 0..m /\ frames'[f] = frames[f] /\ FrameInv(f)
    BY <1>2
  <2>2. /\ frames[f].entry < Depth'
        /\ decision_stack'[frames[f].entry + 1] = decision_stack[frames[f].entry + 1]
        /\ \A g \in 1..f - 1 : frames'[g] = frames[g]
    BY <1>2, <2>1
  <2>3. (\A c \in clauses : ~ FalseAt(c, frames[f].entry))'
    BY <1>3, <2>1 DEF FrameInv
  <2>4. Entails(f - 1, frames[f].entry)'
    <3>1. Entails(f - 1, frames[f].entry)
      BY <2>1 DEF FrameInv
    <3>2. \A a : Agrees(a, f - 1)' <=> Agrees(a, f - 1)
      BY <1>4, <2>1
    <3> QED
      BY <1>1, <2>1, <3>1, <3>2, SMTT(30) DEF Entails, Holds
  <2>5. (frames[f].negative => \A a \in Models : Agrees(a, f - 1) => ~ Holds(a, frames[f].dec_v))'
    <3>1. frames[f].negative => \A a \in Models : Agrees(a, f - 1) => ~ Holds(a, frames[f].dec_v)
      BY <2>1 DEF FrameInv
    <3>2. \A a : Agrees(a, f - 1)' <=> Agrees(a, f - 1)
      BY <1>4, <2>1
    <3> QED
      BY <1>1, <2>1, <3>1, <3>2 DEF Holds
  <2> QED
    BY <2>1, <2>2, <2>3, <2>4, <2>5 DEF FrameInv
<1> QED
  BY <1>1, <1>2, <1>3, <1>4, <1>5, <1>6
------------------------------------------------------------------------------
(* dp_CNF is entered with an empty array and something to ask.             *)
LEMMA CallStep ==
  ASSUME DpInv, Call PROVE DpInv'
<1> PICK q \in Queries :
      /\ decision_stack' = q /\ asked' = q
      /\ pc' = IF q = <<>> \/ \E v \in Codes : lassigned[v] # Open THEN "exit" ELSE "insert"
  BY DEF Call
<1>1. TypeOK /\ \A v \in Codes : lassigned[v] = Open
  BY DEF DpInv, Call
<1>2. q \in Seq(Literals) /\ q # <<>> /\ Len(q) \in Nat \ {0}
  BY EmptySeq
<1>3. pc' = "insert" /\ idx' = 1 /\ frames' = <<>> /\ todo' = {} /\ UNCHANGED <<clauses, lassigned, sat>>
  BY <1>1, <1>2 DEF Call
<1>4. TypeOK'
  BY <1>1, <1>2, <1>3 DEF TypeOK, Call
<1>5. InsertInv'
  BY <1>1, <1>2, <1>3 DEF InsertInv, InStep, Depth
<1> QED
  BY <1>3, <1>4, <1>5 DEF DpInv, NeverExits, Searching, AnswerExact

(* The first entry is propagated: all that is asked is assigned.           *)
LEMMA EndPreInsertStep ==
  ASSUME DpInv, EndPreInsert PROVE DpInv'
<1>1. TypeOK /\ InsertInv /\ clauses \in Databases /\ pc = "insert" /\ idx > Depth
  BY DEF DpInv, EndPreInsert
<1>2. /\ Depth \in Nat \ {0} /\ idx = Depth + 1
      /\ \A k \in 1..Depth : decision_stack[k] \in Literals
  BY <1>1, StateTypes DEF InsertInv, TypeOK
<1>3. /\ pc' = "propagate" /\ idx' = 1 /\ todo' = Containing(-decision_stack[1]) /\ Depth' = Depth
      /\ UNCHANGED <<clauses, decision_stack, lassigned, frames, sat, asked, calls>>
  BY <1>1, <1>2 DEF EndPreInsert, Propagating, Depth
<1>4. TypeOK'
  BY <1>1, <1>3 DEF TypeOK, Containing
<1>5. SearchInv'
  <2>1. InStep(Depth)'
    BY <1>1, <1>2, <1>3 DEF InsertInv, InStep, Holds
  <2>2. frames' = <<>> /\ Len(frames') = 0
    BY <1>1, <1>3 DEF InsertInv
  <2>3. AskedBelow'
    BY <1>1, <1>3, <2>2 DEF InsertInv, AskedBelow
  <2> QED
    BY <2>1, <2>2, <2>3 DEF SearchInv
<1>6. Entails(Len(frames), Depth)'
  BY <1>1, <1>3 DEF InsertInv, Entails, Agrees, Holds
<1>7. PendingInv'
  <2>1. ASSUME NEW c \in clauses, FalseAt(c, Depth)
        PROVE  \E k \in 1..Depth : -decision_stack[k] \in c /\ (k = 1 => c \in Containing(-decision_stack[1]))
    <3>0. c # {} /\ c \subseteq Literals
      BY <1>1
    <3>1. PICK l \in c : l \in Literals
      BY <3>0
    <3>2. PICK k \in 1..Depth : decision_stack[k] = -l
      BY <2>1 DEF FalseAt
    <3>3. -decision_stack[k] = l
      BY <3>1, <3>2, LiteralFacts
    <3> QED
      BY <3>1, <3>2, <3>3 DEF Containing
  <2> QED
    BY <1>2, <1>3, <2>1 DEF PendingInv, FalseAt, Containing
<1> QED
  BY <1>1, <1>3, <1>4, <1>5, <1>6, <1>7 DEF DpInv, NeverExits, Searching, AnswerExact

(* One entry is inserted, dropped or found contradictory.                  *)
LEMMA PreInsertStep ==
  ASSUME DpInv, PreInsert PROVE DpInv'
<1> DEFINE l == decision_stack[idx]
<1>1. TypeOK /\ InsertInv /\ clauses \in Databases /\ pc = "insert"
  BY DEF DpInv, PreInsert
<1>2. /\ Depth \in Nat \ {0} /\ idx \in 1..Depth /\ l \in Literals
      /\ \A k \in 1..Depth : decision_stack[k] \in Literals
      /\ Len(asked) \in Nat /\ \A k \in 1..Len(asked) : asked[k] \in Literals
      /\ decision_stack \in Seq(Literals) /\ InStep(idx - 1)
      /\ Code(l) \in Codes /\ Sign(l) \in {0, 1}
      /\ lassigned \in [Codes -> {-1, 0, 1}]
  <2>1. Depth \in Nat \ {0} /\ idx \in 1..Depth
    BY <1>1, StateTypes DEF InsertInv, PreInsert, TypeOK
  <2>2. l \in Literals
    BY <1>1, <2>1, StateTypes
  <2> QED
    BY <1>1, <2>1, <2>2, StateTypes, LiteralFacts DEF InsertInv, TypeOK
<1>3. UNCHANGED <<clauses, frames, todo, asked, calls>>
  BY DEF PreInsert
<1>4. CASE /\ lassigned[Code(l)] = Sign(l)
           /\ decision_stack' = WithoutEntry(idx)
           /\ UNCHANGED <<lassigned, idx, pc, sat>>
  <2>4. /\ decision_stack' \in Seq(Literals) /\ Depth' = Depth - 1
        /\ \A k \in 1..Depth - 1 : decision_stack'[k] = IF k < idx THEN decision_stack[k] ELSE decision_stack[k + 1]
    <3>1. decision_stack' \in [1..Depth - 1 -> Literals] /\ Depth - 1 \in Nat
      BY <1>2, <1>4 DEF WithoutEntry
    <3>2. decision_stack' \in Seq(Literals) /\ Depth' = Depth - 1
      BY <3>1 DEF Depth
    <3> QED
      BY <1>4, <3>2 DEF WithoutEntry
  <2>5. PICK j \in 1..idx - 1 : decision_stack[j] = l
    <3>1. PICK j \in 1..idx - 1 : Code(decision_stack[j]) = Code(l)
      BY <1>2, <1>4 DEF InStep
    <3>2. Sign(decision_stack[j]) = Sign(l) /\ decision_stack[j] \in Literals
      BY <1>2, <1>4, <3>1 DEF InStep, Holds
    <3> QED
      BY <1>2, <3>1, <3>2, LiteralFacts, SMTT(30)
  <2>6. TypeOK'
    BY <1>1, <1>3, <1>4, <2>4 DEF TypeOK
  <2>7. InsertInv'
    <3>1. frames' = <<>> /\ idx' <= Depth' + 1 /\ Depth' > 0
      BY <1>1, <1>2, <1>3, <1>4, <2>4, <2>5 DEF InsertInv
    <3>2. \A k \in 1..idx - 1 : decision_stack'[k] = decision_stack[k]
      BY <1>2, <2>4
    <3>3. InStep(idx - 1)'
      BY <1>2, <1>4, <3>2 DEF InStep, Holds
    <3>4. ASSUME NEW k \in 1..Len(asked) PROVE \E i \in 1..Depth' : decision_stack'[i] = asked[k]
      <4>1. PICK i \in 1..Depth : decision_stack[i] = asked[k]
        BY <1>1 DEF InsertInv
      <4>2. CASE i < idx
        <5>1. i \in 1..Depth' /\ decision_stack'[i] = asked[k]
          BY <1>2, <2>4, <4>1, <4>2
        <5> QED
          BY <5>1
      <4>3. CASE i = idx
        <5>1. j \in 1..Depth' /\ decision_stack'[j] = asked[k]
          BY <1>2, <2>4, <2>5, <4>1, <4>3
        <5> QED
          BY <5>1
      <4>4. CASE i > idx
        <5>1. i - 1 \in 1..Depth' /\ decision_stack'[i - 1] = asked[k]
          BY <1>2, <2>4, <4>1, <4>4
        <5> QED
          BY <5>1
      <4> QED
        BY <1>2, <4>2, <4>3, <4>4
    <3>5. ASSUME NEW i \in 1..Depth' PROVE \E k \in 1..Len(asked) : decision_stack'[i] = asked[k]
      <4>1. \E h \in 1..Depth : decision_stack'[i] = decision_stack[h]
        BY <1>2, <2>4
      <4> QED
        BY <1>1, <4>1 DEF InsertInv
    <3> QED
      BY <1>3, <3>1, <3>3, <3>4, <3>5 DEF InsertInv
  <2> QED
    BY <1>1, <1>3, <1>4, <2>6, <2>7 DEF DpInv, NeverExits, Searching, AnswerExact
<1>5. CASE /\ lassigned[Code(l)] = 1 - Sign(l)
           /\ lassigned' = [v \in Codes |-> IF \E k \in 1..idx - 1 : Code(decision_stack[k]) = v
                                            THEN Open ELSE lassigned[v]]
           /\ sat' = FALSE /\ pc' = "idle"
           /\ UNCHANGED <<decision_stack, idx>>
  <2>1. TypeOK'
    BY <1>1, <1>2, <1>3, <1>5 DEF TypeOK
  <2>2. \A v \in Codes : lassigned'[v] = Open
    BY <1>2, <1>5 DEF InStep
  <2>3. PICK j \in 1..idx - 1 : Code(decision_stack[j]) = Code(l)
    BY <1>2, <1>5 DEF InStep
  <2>4. Sign(decision_stack[j]) = 1 - Sign(l)
    BY <1>2, <1>5, <2>3 DEF InStep, Holds
  <2>5. PICK k1, k2 \in 1..Len(asked) : decision_stack[j] = asked[k1] /\ l = asked[k2]
    <3>1. j \in 1..Depth /\ idx \in 1..Depth
      BY <1>2
    <3>2. \E k1 \in 1..Len(asked) : decision_stack[j] = asked[k1]
      BY <1>1, <3>1 DEF InsertInv
    <3>3. \E k2 \in 1..Len(asked) : l = asked[k2]
      BY <1>1, <3>1 DEF InsertInv
    <3> QED
      BY <3>2, <3>3
  <2>6. \A a : ~ (Holds(a, asked[k1]) /\ Holds(a, asked[k2]))
    BY <1>2, <2>3, <2>4, <2>5 DEF Holds
  <2>7. AnswerExact'
    BY <1>3, <1>5, <2>6 DEF AnswerExact, Holds
  <2> QED
    BY <1>1, <1>3, <1>5, <2>1, <2>2, <2>7 DEF DpInv, NeverExits, Searching
<1>6. CASE /\ lassigned[Code(l)] = Open
           /\ lassigned' = [lassigned EXCEPT ![Code(l)] = Sign(l)]
           /\ idx' = idx + 1
           /\ UNCHANGED <<decision_stack, pc, sat>>
  <2>1. TypeOK'
    BY <1>1, <1>2, <1>3, <1>6 DEF TypeOK
  <2>2. \A k \in 1..Depth : Code(decision_stack[k]) \in Codes /\ Sign(decision_stack[k]) \in {0, 1}
    BY <1>2, LiteralFacts
  <2>3. InStep(idx - 1)'
    <3>1. \A k \in 1..idx - 1 : lassigned[Code(decision_stack[k])] = Sign(decision_stack[k])
      BY <1>2 DEF InStep, Holds
    <3>2. \A k \in 1..idx - 1 : Code(decision_stack[k]) # Code(l)
      BY <1>2, <1>6, <2>2, <3>1
    <3>3. \A k \in 1..idx : lassigned'[Code(decision_stack[k])] = Sign(decision_stack[k])
      BY <1>2, <1>6, <2>2, <3>1, <3>2
    <3>4. \A j, k \in 1..idx : Code(decision_stack[j]) = Code(decision_stack[k]) => j = k
      BY <1>2, <3>2 DEF InStep
    <3>5. \A v \in Codes : lassigned'[v] # Open => \E k \in 1..idx : Code(decision_stack[k]) = v
      BY <1>2, <1>6 DEF InStep
    <3> QED
      BY <1>2, <1>6, <3>3, <3>4, <3>5 DEF InStep, Holds
  <2>4. InsertInv'
    BY <1>1, <1>2, <1>3, <1>6, <2>3 DEF InsertInv, Depth
  <2> QED
    BY <1>1, <1>3, <1>6, <2>1, <2>4 DEF DpInv, NeverExits, Searching, AnswerExact
<1> QED
  BY <1>4, <1>5, <1>6 DEF PreInsert
------------------------------------------------------------------------------
(* What is said about stack and frames stays when neither is touched.      *)
LEMMA SearchUnchanged ==
  ASSUME UNCHANGED <<clauses, decision_stack, lassigned, frames, asked>>
  PROVE  /\ SearchInv' <=> SearchInv
         /\ Entails(Len(frames), Depth)' <=> Entails(Len(frames), Depth)
         /\ \A c : FalseAt(c, Depth)' <=> FalseAt(c, Depth)
         /\ \A a : Agrees(a, Len(frames))' <=> Agrees(a, Len(frames))
         /\ Models' = Models /\ Depth' = Depth
<1>1. Models' = Models /\ Depth' = Depth
  BY DEF Models, Depth
<1>2. \A c, n : FalseAt(c, n)' <=> FalseAt(c, n)
  BY DEF FalseAt
<1>3. \A a, m : Agrees(a, m)' <=> Agrees(a, m)
  BY DEF Agrees, Holds
<1>4. \A m, n : Entails(m, n)' <=> Entails(m, n)
  BY <1>1, <1>3 DEF Entails, Holds
<1>5. \A f : FrameInv(f)' <=> FrameInv(f)
  BY <1>1, <1>2, <1>3, <1>4 DEF FrameInv, Holds
<1>6. InStep(Depth)' <=> InStep(Depth)
  BY <1>1 DEF InStep, Holds
<1>7. AskedBelow' <=> AskedBelow
  BY <1>1 DEF AskedBelow
<1> QED
  BY <1>1, <1>2, <1>3, <1>4, <1>5, <1>6, <1>7 DEF SearchInv

(* A clause is contradicted by the stack exactly when the array says so.   *)
LEMMA FalseClauses ==
  ASSUME TypeOK, InStep(Depth), NEW c \in SUBSET Literals
  PROVE  /\ FalseAt(c, Depth) <=> ~ Satisfied(c) /\ OpenLiterals(c) = {}
         /\ ~ Satisfied(c) => \A l \in c \ OpenLiterals(c) : \E k \in 1..Depth : decision_stack[k] = -l
<1>1. \A k \in 1..Depth : decision_stack[k] \in Literals
  BY StateTypes
<1>2. ASSUME NEW l \in c, NEW k \in 1..Depth, decision_stack[k] = -l
      PROVE  lassigned[Code(l)] = 1 - Sign(l)
  <2>1. Holds(lassigned, decision_stack[k])
    BY DEF InStep
  <2>2. Code(-l) = Code(l) /\ Sign(-l) = 1 - Sign(l)
    BY LiteralFacts
  <2> QED
    BY <1>2, <2>1, <2>2 DEF Holds
<1>3. FalseAt(c, Depth) => ~ Satisfied(c) /\ OpenLiterals(c) = {}
  <2> SUFFICES ASSUME FalseAt(c, Depth), NEW l \in c
               PROVE  lassigned[Code(l)] # Sign(l) /\ lassigned[Code(l)] # Open
    BY DEF Satisfied, OpenLiterals
  <2>1. PICK k \in 1..Depth : decision_stack[k] = -l
    BY DEF FalseAt
  <2> QED
    BY <1>2, <2>1, LiteralFacts
<1>4. ASSUME ~ Satisfied(c), NEW l \in c \ OpenLiterals(c)
      PROVE  \E k \in 1..Depth : decision_stack[k] = -l
  <2>1. Code(l) \in Codes /\ lassigned[Code(l)] # Open /\ l \in Literals
    BY <1>4, LiteralFacts DEF OpenLiterals
  <2>2. PICK k \in 1..Depth : Code(decision_stack[k]) = Code(l)
    BY <2>1 DEF InStep
  <2>3. decision_stack[k] # l
    <3>1. Holds(lassigned, decision_stack[k])
      BY DEF InStep
    <3> QED
      BY <1>4, <3>1 DEF Satisfied, Holds
  <2>4. decision_stack[k] = l \/ decision_stack[k] = -l
    BY <1>1, <2>1, <2>2, LiteralFacts
  <2> QED
    BY <2>3, <2>4
<1> QED
  BY <1>3, <1>4 DEF FalseAt

(* A literal whose variable is open is pushed and assigned.                *)
LEMMA PushInStep ==
  ASSUME TypeOK, InStep(Depth), NEW l \in Literals, lassigned[Code(l)] = Open,
         lassigned' = [lassigned EXCEPT ![Code(l)] = Sign(l)],
         decision_stack' = Append(decision_stack, l)
  PROVE  /\ Depth' = Depth + 1 /\ decision_stack' \in Seq(Literals)
         /\ \A k \in 1..Depth : decision_stack'[k] = decision_stack[k]
         /\ decision_stack'[Depth + 1] = l
         /\ lassigned' \in [Codes -> {-1, 0, 1}]
         /\ InStep(Depth)'
<1>1. /\ Depth \in Nat /\ Code(l) \in Codes /\ Sign(l) \in {0, 1}
      /\ decision_stack \in Seq(Literals) /\ lassigned \in [Codes -> {-1, 0, 1}]
      /\ \A k \in 1..Depth : /\ Code(decision_stack[k]) \in Codes
                              /\ Sign(decision_stack[k]) \in {0, 1}
  BY StateTypes, LiteralFacts DEF TypeOK
<1>2. /\ Depth' = Depth + 1 /\ decision_stack' \in Seq(Literals)
      /\ \A k \in 1..Depth : decision_stack'[k] = decision_stack[k]
      /\ decision_stack'[Depth + 1] = l
  BY <1>1, AppendProperties DEF Depth
<1>3. \A k \in 1..Depth : lassigned[Code(decision_stack[k])] = Sign(decision_stack[k])
  BY DEF InStep, Holds
<1>4. \A k \in 1..Depth : Code(decision_stack[k]) # Code(l)
  BY <1>1, <1>3
<1>5. \A k \in 1..Depth + 1 : lassigned'[Code(decision_stack'[k])] = Sign(decision_stack'[k])
  BY <1>1, <1>2, <1>3, <1>4
<1>6. \A j, k \in 1..Depth + 1 : Code(decision_stack'[j]) = Code(decision_stack'[k]) => j = k
  BY <1>1, <1>2, <1>4 DEF InStep
<1>7. ASSUME NEW v \in Codes, lassigned'[v] # Open
      PROVE  \E k \in 1..Depth + 1 : Code(decision_stack'[k]) = v
  <2>1. CASE v = Code(l)
    <3>1. Depth + 1 \in 1..Depth + 1 /\ Code(decision_stack'[Depth + 1]) = v
      BY <1>1, <1>2, <2>1
    <3> QED
      BY <3>1
  <2>2. CASE v # Code(l)
    <3>1. lassigned[v] # Open
      BY <1>1, <1>7, <2>2
    <3>2. PICK k \in 1..Depth : Code(decision_stack[k]) = v
      BY <3>1 DEF InStep
    <3>3. decision_stack'[k] = decision_stack[k]
      BY <1>2
    <3>4. k \in 1..Depth + 1
      BY <1>1
    <3> QED
      BY <3>2, <3>3, <3>4, Zenon
  <2> QED
    BY <2>1, <2>2
<1> QED
  BY <1>1, <1>2, <1>5, <1>6, <1>7 DEF InStep, Holds

(* One clause: nothing to do, a contradiction, or a literal that every     *)
(* model has to make true.                                                 *)
LEMMA LookAtClauseStep ==
  ASSUME DpInv, LookAtClause PROVE DpInv'
<1>1. /\ TypeOK /\ SearchInv /\ PendingInv /\ Entails(Len(frames), Depth)
      /\ clauses \in Databases /\ pc = "propagate" /\ InStep(Depth)
  BY DEF DpInv, LookAtClause, Searching, SearchInv
<1>2. UNCHANGED <<clauses, frames, idx, asked, calls>>
  BY DEF LookAtClause
<1>3. /\ Depth \in Nat /\ idx \in Nat
      /\ \A k \in 1..Depth : decision_stack[k] \in Literals
  BY <1>1, StateTypes DEF TypeOK
<1>4. PICK c \in todo :
       /\ todo' = todo \ {c}
       /\ \/ /\ Satisfied(c) \/ Cardinality(OpenLiterals(c)) > 1
             /\ UNCHANGED <<decision_stack, lassigned, pc, sat>>
          \/ /\ ~ Satisfied(c) /\ OpenLiterals(c) = {}
             /\ pc' = "return" /\ sat' = FALSE
             /\ UNCHANGED <<decision_stack, lassigned>>
          \/ /\ ~ Satisfied(c)
             /\ \E l \in OpenLiterals(c) :
                  /\ OpenLiterals(c) = {l}
                  /\ IF Depth = Capacity
                     THEN pc' = "exit" /\ UNCHANGED <<decision_stack, lassigned>>
                     ELSE /\ lassigned' = [lassigned EXCEPT ![Code(l)] = Sign(l)]
                          /\ decision_stack' = Append(decision_stack, l)
                          /\ UNCHANGED pc
             /\ UNCHANGED sat
  BY DEF LookAtClause
<1>5. c \in clauses /\ c \in SUBSET Literals /\ todo' \subseteq clauses /\ todo' \in SUBSET SUBSET Literals
  BY <1>1, <1>4 DEF PendingInv, TypeOK
<1>6. CASE /\ Satisfied(c) \/ Cardinality(OpenLiterals(c)) > 1
           /\ UNCHANGED <<decision_stack, lassigned, pc, sat>>
  <2>1. TypeOK'
    BY <1>1, <1>2, <1>5, <1>6 DEF TypeOK
  <2>2. ~ FalseAt(c, Depth)
    <3>1. Cardinality({}) = 0
      BY FS_EmptySet
    <3>2. ~ Satisfied(c) => OpenLiterals(c) # {}
      <4>1. OpenLiterals(c) = {} => Cardinality(OpenLiterals(c)) = 0
        BY <3>1, Zenon
      <4>2. ~ (0 > 1)
        OBVIOUS
      <4> QED
        BY <1>6, <4>1, <4>2, Zenon
    <3>3. FalseAt(c, Depth) => ~ Satisfied(c) /\ OpenLiterals(c) = {}
      BY <1>1, <1>5, FalseClauses
    <3> QED
      BY <3>2, <3>3, Zenon
  <2>3. SearchInv' /\ Entails(Len(frames), Depth)' /\ Depth' = Depth /\ \A d : FalseAt(d, Depth)' <=> FalseAt(d, Depth)
    BY <1>1, <1>2, <1>6, SearchUnchanged
  <2>4. PendingInv'
    BY <1>1, <1>2, <1>4, <1>5, <1>6, <2>2, <2>3 DEF PendingInv
  <2> QED
    BY <1>1, <1>2, <1>6, <2>1, <2>3, <2>4 DEF DpInv, NeverExits, Searching, AnswerExact
<1>7. CASE /\ ~ Satisfied(c) /\ OpenLiterals(c) = {}
           /\ pc' = "return" /\ sat' = FALSE
           /\ UNCHANGED <<decision_stack, lassigned>>
  <2>1. TypeOK'
    BY <1>1, <1>2, <1>5, <1>7 DEF TypeOK
  <2>2. FalseAt(c, Depth)
    BY <1>1, <1>5, <1>7, FalseClauses
  <2>3. ASSUME NEW a \in Models, Agrees(a, Len(frames)) PROVE FALSE
    <3>1. PICK l \in c : Holds(a, l)
      BY <1>5 DEF Models
    <3>2. PICK k \in 1..Depth : decision_stack[k] = -l
      BY <2>2 DEF FalseAt
    <3>3. Holds(a, -l)
      BY <1>1, <2>3, <3>2 DEF Entails
    <3>4. l \in Literals
      BY <1>5
    <3> QED
      BY <3>1, <3>3, <3>4, LiteralFacts DEF Holds
  <2>4. SearchInv' /\ (\A a : Agrees(a, Len(frames))' <=> Agrees(a, Len(frames))) /\ Models' = Models
    BY <1>1, <1>2, <1>7, SearchUnchanged
  <2>5. ReturnInv'
    BY <1>7, <2>3, <2>4 DEF ReturnInv
  <2> QED
    BY <1>1, <1>2, <1>7, <2>1, <2>4, <2>5 DEF DpInv, NeverExits, Searching, AnswerExact
<1>8. ASSUME ~ Satisfied(c), NEW l \in OpenLiterals(c), OpenLiterals(c) = {l}, UNCHANGED sat,
             IF Depth = Capacity
             THEN pc' = "exit" /\ UNCHANGED <<decision_stack, lassigned>>
             ELSE /\ lassigned' = [lassigned EXCEPT ![Code(l)] = Sign(l)]
                  /\ decision_stack' = Append(decision_stack, l)
                  /\ UNCHANGED pc
      PROVE  DpInv'
  <2>1. l \in c /\ l \in Literals /\ lassigned[Code(l)] = Open
    BY <1>5 DEF OpenLiterals
  <2>2. Depth < Capacity
    BY <1>1, <1>3, <2>1, RoomLeft, LiteralFacts
  <2>3. /\ lassigned' = [lassigned EXCEPT ![Code(l)] = Sign(l)]
        /\ decision_stack' = Append(decision_stack, l) /\ UNCHANGED pc
    BY <1>3, <1>8, <2>2
  <2>4. /\ Depth' = Depth + 1 /\ decision_stack' \in Seq(Literals)
        /\ \A k \in 1..Depth : decision_stack'[k] = decision_stack[k]
        /\ decision_stack'[Depth + 1] = l
        /\ lassigned' \in [Codes -> {-1, 0, 1}] /\ InStep(Depth)'
    BY <1>1, <2>1, <2>3, PushInStep
  <2>5. TypeOK'
    BY <1>1, <1>2, <1>5, <1>8, <2>3, <2>4 DEF TypeOK
  <2>6. /\ Len(frames) \in Nat
        /\ \A f \in 1..Len(frames) : frames'[f] = frames[f] /\ frames[f].entry < Depth /\ FrameInv(f)
    BY <1>1, <1>2, StateTypes DEF SearchInv, FrameInv
  <2>7. /\ Models' = Models
        /\ \A f \in 1..Len(frames) : FrameInv(f)'
        /\ \A a : Agrees(a, Len(frames))' <=> Agrees(a, Len(frames))
    <3>1. UNCHANGED <<clauses, asked>> /\ Depth \in 0..Depth /\ Len(frames) \in 0..Len(frames)
          /\ Depth' \in Nat /\ Depth <= Depth' /\ frames' = frames
      BY <1>2, <1>3, <2>4, <2>6
    <3> QED
      BY <1>1, <2>4, <2>6, <3>1, FramesKept
  <2>8. AskedBelow'
    BY <1>1, <1>2, <1>3, <2>4 DEF SearchInv, AskedBelow
  <2>9. SearchInv'
    BY <1>2, <2>4, <2>7, <2>8 DEF SearchInv
  <2>10. Entails(Len(frames), Depth)'
    <3>1. ASSUME NEW a \in Models, Agrees(a, Len(frames)) PROVE Holds(a, l)
      <4>1. PICK m \in c : Holds(a, m)
        BY <1>5 DEF Models
      <4>2. CASE m = l
        BY <4>1, <4>2
      <4>3. CASE m # l
        <5>1. PICK k \in 1..Depth : decision_stack[k] = -m
          BY <1>1, <1>5, <1>8, <4>3, FalseClauses
        <5>2. Holds(a, -m) /\ m \in Literals
          BY <1>1, <1>5, <3>1, <5>1 DEF Entails
        <5> QED
          BY <4>1, <5>2, LiteralFacts DEF Holds
      <4> QED
        BY <4>2, <4>3
    <3>2. ASSUME NEW a \in Models, Agrees(a, Len(frames)), NEW k \in 1..Depth + 1
          PROVE  Holds(a, decision_stack'[k])
      BY <1>1, <1>3, <2>4, <3>1, <3>2 DEF Entails
    <3> QED
      BY <1>2, <2>4, <2>7, <3>2 DEF Entails, Holds
  <2>11. PendingInv'
    <3>1. ASSUME NEW d \in clauses, FalseAt(d, Depth)'
          PROVE  \E k \in idx..Depth + 1 : -decision_stack'[k] \in d /\ (k = idx => d \in todo \ {c})
      <4>1. CASE FalseAt(d, Depth)
        <5>1. PICK k \in idx..Depth : -decision_stack[k] \in d /\ (k = idx => d \in todo)
          BY <1>1, <4>1 DEF PendingInv
        <5>2. d # c
          BY <1>1, <1>5, <1>8, <4>1, FalseClauses
        <5>3. k \in idx..Depth + 1 /\ k \in 1..Depth
          BY <1>1, <1>3 DEF TypeOK
        <5> QED
          BY <2>4, <5>1, <5>2, <5>3
      <4>2. CASE ~ FalseAt(d, Depth)
        <5>1. PICK m \in d : ~ \E k \in 1..Depth : decision_stack[k] = -m
          BY <4>2 DEF FalseAt
        <5>2. decision_stack'[Depth + 1] = -m /\ m \in Literals
          BY <1>1, <1>3, <2>4, <3>1, <5>1 DEF FalseAt, TypeOK
        <5>3. -decision_stack'[Depth + 1] = m
          BY <5>2, LiteralFacts
        <5>4. Depth + 1 \in idx..Depth + 1 /\ Depth + 1 # idx
          BY <1>1, <1>3 DEF PendingInv
        <5> QED
          BY <5>1, <5>3, <5>4
      <4> QED
        BY <4>1, <4>2
    <3>2. idx' <= Depth' /\ todo' = todo \ {c}
      BY <1>1, <1>2, <1>3, <1>4, <2>4 DEF PendingInv
    <3> QED
      BY <1>2, <1>5, <2>4, <3>1, <3>2 DEF PendingInv
  <2> QED
    BY <1>1, <1>2, <1>8, <2>3, <2>5, <2>9, <2>10, <2>11 DEF DpInv, NeverExits, Searching, AnswerExact
<1> QED
  BY <1>4, <1>6, <1>7, <1>8

(* The next entry is propagated, or all of them are.                       *)
LEMMA NextEntryStep ==
  ASSUME DpInv, NextEntry PROVE DpInv'
<1>1. /\ TypeOK /\ SearchInv /\ PendingInv /\ Entails(Len(frames), Depth)
      /\ clauses \in Databases /\ pc = "propagate" /\ todo = {}
  BY DEF DpInv, NextEntry, Searching
<1>2. UNCHANGED <<clauses, decision_stack, lassigned, frames, sat, asked, calls>>
  BY DEF NextEntry
<1>3. Depth \in Nat /\ idx \in Nat \ {0}
  BY <1>1, StateTypes DEF TypeOK
<1>4. /\ SearchInv' /\ Entails(Len(frames), Depth)' /\ Depth' = Depth
      /\ \A d : FalseAt(d, Depth)' <=> FalseAt(d, Depth)
  BY <1>1, <1>2, SearchUnchanged
<1>5. ASSUME NEW d \in clauses, FalseAt(d, Depth)
      PROVE  \E k \in idx + 1..Depth : -decision_stack[k] \in d
  <2>1. PICK k \in idx..Depth : -decision_stack[k] \in d /\ (k = idx => d \in todo)
    BY <1>1, <1>5 DEF PendingInv
  <2>2. k \in idx + 1..Depth
    BY <1>1, <1>3, <2>1
  <2> QED
    BY <2>1, <2>2
<1>6. CASE idx < Depth
  <2>1. idx' = idx + 1 /\ todo' = Containing(-decision_stack[idx + 1]) /\ pc' = "propagate"
    BY <1>3, <1>6 DEF NextEntry, Propagating, Depth
  <2>2. TypeOK'
    BY <1>1, <1>2, <1>3, <2>1 DEF TypeOK, Containing
  <2>3. PendingInv'
    BY <1>2, <1>3, <1>4, <1>5, <1>6, <2>1 DEF PendingInv, Containing
  <2> QED
    BY <1>1, <1>2, <1>4, <2>1, <2>2, <2>3 DEF DpInv, NeverExits, Searching, AnswerExact
<1>7. CASE ~ (idx < Depth)
  <2>1. pc' = "dp" /\ UNCHANGED <<idx, todo>>
    BY <1>7 DEF NextEntry
  <2>2. TypeOK'
    BY <1>1, <1>2, <2>1 DEF TypeOK
  <2>3. (\A c \in clauses : ~ FalseAt(c, Depth))'
    BY <1>2, <1>3, <1>4, <1>5, <1>7
  <2> QED
    BY <1>1, <1>2, <1>4, <2>1, <2>2, <2>3 DEF DpInv, NeverExits, Searching, AnswerExact
<1> QED
  BY <1>6, <1>7
------------------------------------------------------------------------------
(* dp tries a literal whose variable none of the entries it keeps has: the *)
(* array and the stack stay in step, and what no longer holds is pending.  *)
LEMMA DecideInStep ==
  ASSUME TypeOK, InStep(Depth), NEW l \in Literals, NEW entry \in 0..Depth, entry < Capacity,
         Decide(l, entry), UNCHANGED clauses,
         \A k \in 1..entry : Code(decision_stack[k]) # Code(l),
         \A c \in clauses : ~ FalseAt(c, entry)
  PROVE  InStep(Depth)' /\ PendingInv'
<1>1. /\ decision_stack' \in Seq(Literals) /\ Depth' = entry + 1 /\ decision_stack'[entry + 1] = l
      /\ \A k \in 1..entry : decision_stack'[k] = decision_stack[k]
      /\ lassigned' = [Retracted(lassigned, entry + 1) EXCEPT ![Code(l)] = Sign(l)]
      /\ idx' = entry + 1 /\ pc' = "propagate" /\ todo' = Containing(-l)
  BY DecideStack
<1>2. /\ Depth \in Nat /\ entry \in Nat /\ Code(l) \in Codes
      /\ \A k \in 1..Depth : Code(decision_stack[k]) \in Codes
  BY StateTypes, LiteralFacts
<1>3. /\ \A k \in 1..Depth : lassigned[Code(decision_stack[k])] = Sign(decision_stack[k])
      /\ \A j, k \in 1..Depth : Code(decision_stack[j]) = Code(decision_stack[k]) => j = k
      /\ \A v \in Codes : lassigned[v] # Open => \E k \in 1..Depth : Code(decision_stack[k]) = v
  BY DEF InStep, Holds
<1>4. ASSUME NEW k \in 1..entry
      PROVE  lassigned'[Code(decision_stack'[k])] = Sign(decision_stack'[k])
  <2>1. k \in 1..Depth /\ \A j \in entry + 1..Depth : j \in 1..Depth /\ j # k
    BY <1>2
  <2>2. ~ \E j \in entry + 1..Depth : Code(decision_stack[j]) = Code(decision_stack[k])
    BY <1>3, <2>1
  <2>3. Retracted(lassigned, entry + 1)[Code(decision_stack[k])] = lassigned[Code(decision_stack[k])]
    BY <1>2, <2>1, <2>2 DEF Retracted
  <2>4. lassigned'[Code(decision_stack[k])] = lassigned[Code(decision_stack[k])]
    BY <1>1, <1>2, <2>1, <2>3 DEF Retracted
  <2> QED
    BY <1>1, <1>3, <2>1, <2>4
<1>5. lassigned'[Code(l)] = Sign(l)
  BY <1>1, <1>2 DEF Retracted
<1>6. \A k \in 1..entry + 1 : lassigned'[Code(decision_stack'[k])] = Sign(decision_stack'[k])
  <2> SUFFICES ASSUME NEW k \in 1..entry + 1
               PROVE  lassigned'[Code(decision_stack'[k])] = Sign(decision_stack'[k])
    OBVIOUS
  <2>1. k \in 1..entry \/ k = entry + 1
    BY <1>2
  <2> QED
    BY <1>1, <1>4, <1>5, <2>1
<1>7. ASSUME NEW j \in 1..entry + 1, NEW k \in 1..entry + 1,
             Code(decision_stack'[j]) = Code(decision_stack'[k])
      PROVE  j = k
  <2>1. /\ j \in 1..entry \/ j = entry + 1
        /\ k \in 1..entry \/ k = entry + 1
        /\ \A i \in 1..entry : i \in 1..Depth
    BY <1>2
  <2>2. CASE j \in 1..entry /\ k \in 1..entry
    <3>1. Code(decision_stack[j]) = Code(decision_stack[k])
      BY <1>1, <1>7, <2>2
    <3> QED
      BY <1>3, <2>1, <2>2, <3>1
  <2> QED
    BY <1>1, <1>7, <2>1, <2>2
<1>8. ASSUME NEW v \in Codes, lassigned'[v] # Open
      PROVE  \E k \in 1..entry + 1 : Code(decision_stack'[k]) = v
  <2>1. entry + 1 \in 1..entry + 1 /\ \A k \in 1..entry : k \in 1..entry + 1
    BY <1>2
  <2>2. CASE v = Code(l)
    BY <1>1, <2>1, <2>2
  <2>3. CASE v # Code(l)
    <3>1. Retracted(lassigned, entry + 1)[v] # Open
      BY <1>1, <1>8, <2>3 DEF Retracted
    <3>2. lassigned[v] # Open /\ ~ \E k \in entry + 1..Depth : Code(decision_stack[k]) = v
      BY <3>1 DEF Retracted
    <3>3. PICK k \in 1..Depth : Code(decision_stack[k]) = v
      BY <1>3, <3>2
    <3>4. k \in 1..entry
      BY <1>2, <3>2, <3>3
    <3>5. k \in 1..entry + 1 /\ decision_stack'[k] = decision_stack[k]
      BY <1>1, <2>1, <3>4
    <3> QED
      BY <3>3, <3>5, Zenon
  <2> QED
    BY <2>2, <2>3
<1>9. InStep(Depth)'
  BY <1>1, <1>6, <1>7, <1>8 DEF InStep, Holds
<1>10. ASSUME NEW c \in clauses, FalseAt(c, entry + 1)'
       PROVE  -l \in c
  <2>1. PICK m \in c : ~ \E k \in 1..entry : decision_stack[k] = -m
    BY DEF FalseAt
  <2>2. PICK k \in 1..entry + 1 : decision_stack'[k] = -m
    BY <1>10 DEF FalseAt
  <2>3. k = entry + 1
    BY <1>1, <1>2, <2>1, <2>2
  <2>4. l = -m /\ m \in Literals
    BY <1>1, <2>2, <2>3 DEF TypeOK
  <2> QED
    BY <2>4, LiteralFacts
<1>11. PendingInv'
  <2>1. idx' <= Depth' /\ todo' \subseteq clauses'
    BY <1>1, <1>2 DEF Containing
  <2>2. ASSUME NEW c \in clauses, FalseAt(c, Depth)'
        PROVE  \E k \in idx'..Depth' : -decision_stack'[k] \in c /\ (k = idx' => c \in todo')
    <3>1. FalseAt(c, entry + 1)'
      BY <1>1, <2>2 DEF FalseAt
    <3>2. -l \in c
      BY <1>10, <3>1
    <3>3. entry + 1 \in idx'..Depth' /\ -decision_stack'[entry + 1] \in c /\ c \in todo'
      BY <1>1, <1>2, <3>2 DEF Containing
    <3> QED
      BY <3>3
  <2> QED
    BY <2>1, <2>2 DEF PendingInv
<1> QED
  BY <1>9, <1>11

(* Agreeing with one more open call is making true what it tries.          *)
LEMMA AgreesWithNext ==
  ASSUME NEW m \in Nat, NEW a
  PROVE  Agrees(a, m + 1) <=> Agrees(a, m) /\ Holds(a, decision_stack[frames[m + 1].entry + 1])
<1>1. \A f : f \in 1..m + 1 <=> f \in 1..m \/ f = m + 1
  OBVIOUS
<1> QED
  BY <1>1 DEF Agrees

(* What holds after dp tries a literal in its m + 1st open call, given     *)
(* what holds of the m calls and e entries it keeps.                       *)
LEMMA DecideKeeps ==
  ASSUME TypeOK, SearchInv, UNCHANGED <<clauses, asked>>,
         NEW l \in Literals, NEW e \in 0..Depth, e < Capacity, Decide(l, e),
         NEW m \in 0..Len(frames), \A f \in 1..m : frames[f].entry < e,
         Len(frames') = m + 1, \A f \in 1..m : frames'[f] = frames[f],
         NEW call \in [entry : Nat, dec_v : Codes, negative : BOOLEAN],
         frames'[m + 1] = call, call.entry = e,
         l = (IF call.negative THEN -call.dec_v ELSE call.dec_v),
         call.negative => \A a \in Models : Agrees(a, m) => ~ Holds(a, call.dec_v),
         \A k \in 1..e : Code(decision_stack[k]) # Code(l),
         \A c \in clauses : ~ FalseAt(c, e),
         Entails(m, e),
         \A k \in 1..Len(asked) : \E j \in 1..e :
            decision_stack[j] = asked[k] /\ \A f \in 1..m : j <= frames[f].entry
  PROVE  SearchInv' /\ PendingInv' /\ Entails(Len(frames), Depth)'
<1>1. /\ decision_stack' \in Seq(Literals) /\ Depth' = e + 1 /\ decision_stack'[e + 1] = l
      /\ \A k \in 1..e : decision_stack'[k] = decision_stack[k]
  BY DecideStack
<1>2. /\ Depth \in Nat /\ e \in Nat /\ Len(frames) \in Nat /\ m \in Nat
      /\ \A f \in 1..m : frames[f].entry \in Nat
  BY StateTypes
<1>3. InStep(Depth)' /\ PendingInv'
  BY DecideInStep DEF SearchInv
<1>4. /\ Models' = Models
      /\ \A f \in 1..m : FrameInv(f)'
      /\ \A a : Agrees(a, m)' <=> Agrees(a, m)
      /\ \A c : FalseAt(c, e)' <=> FalseAt(c, e)
      /\ Entails(m, e)' <=> Entails(m, e)
  <2>1. Depth' \in Nat /\ e <= Depth'
    BY <1>1, <1>2
  <2>2. \A f \in 1..m : frames'[f] = frames[f] /\ frames[f].entry < e /\ FrameInv(f)
    BY <1>2 DEF SearchInv
  <2> QED
    BY <1>1, <2>1, <2>2, FramesKept
<1>5. FrameInv(m + 1)'
  <2>1. /\ frames'[m + 1].entry < Depth'
        /\ \A g \in 1..(m + 1) - 1 : frames'[g].entry < frames'[m + 1].entry
    <3>1. (m + 1) - 1 = m /\ e < Depth'
      BY <1>1, <1>2
    <3>2. \A g \in 1..m : frames'[g].entry < e
      OBVIOUS
    <3> QED
      BY <3>1, <3>2
  <2>2. decision_stack'[frames'[m + 1].entry + 1] =
          IF frames'[m + 1].negative THEN -frames'[m + 1].dec_v ELSE frames'[m + 1].dec_v
    BY <1>1
  <2>3. (\A c \in clauses : ~ FalseAt(c, frames[m + 1].entry))'
    BY <1>4
  <2>4. Entails((m + 1) - 1, frames[m + 1].entry)'
    <3>1. (m + 1) - 1 = m
      BY <1>2
    <3> QED
      BY <1>4, <3>1
  <2>5. (frames[m + 1].negative =>
          \A a \in Models : Agrees(a, (m + 1) - 1) => ~ Holds(a, frames[m + 1].dec_v))'
    <3>1. (m + 1) - 1 = m
      BY <1>2
    <3> QED
      BY <1>4, <3>1 DEF Holds
  <2> QED
    BY <2>1, <2>2, <2>3, <2>4, <2>5 DEF FrameInv
<1>6. AskedBelow'
  <2> SUFFICES ASSUME NEW k \in 1..Len(asked)
               PROVE  \E j \in 1..Depth' :
                        decision_stack'[j] = asked[k] /\ \A f \in 1..Len(frames') : j <= frames'[f].entry
    BY DEF AskedBelow
  <2>1. PICK j \in 1..e : decision_stack[j] = asked[k] /\ \A f \in 1..m : j <= frames[f].entry
    OBVIOUS
  <2>2. j \in 1..Depth' /\ decision_stack'[j] = asked[k]
    BY <1>1, <1>2, <2>1
  <2>3. \A f \in 1..m + 1 : f \in 1..m \/ f = m + 1
    BY <1>2
  <2>4. \A f \in 1..m + 1 : j <= frames'[f].entry
    BY <1>2, <2>1, <2>3
  <2> QED
    BY <2>2, <2>4
<1>7. SearchInv'
  <2>1. \A f \in 1..m + 1 : f \in 1..m \/ f = m + 1
    BY <1>2
  <2> QED
    BY <1>3, <1>4, <1>5, <1>6, <2>1 DEF SearchInv
<1>8. Entails(Len(frames), Depth)'
  <2> SUFFICES ASSUME NEW a \in Models', Agrees(a, m + 1)', NEW k \in 1..e + 1
               PROVE  Holds(a, decision_stack'[k])
    BY <1>1 DEF Entails, Holds
  <2>1. Agrees(a, m)' /\ Holds(a, decision_stack'[e + 1])
    BY <1>1, <1>2 DEF Agrees, Holds
  <2>2. k \in 1..e \/ k = e + 1
    BY <1>2
  <2>3. CASE k \in 1..e
    BY <1>1, <1>4, <2>1, <2>3 DEF Entails, Holds
  <2> QED
    BY <2>1, <2>2, <2>3
<1> QED
  BY <1>3, <1>7, <1>8

(* dp is entered: an assignment of all variables is a model, otherwise a   *)
(* call is opened that tries a variable.                                   *)
LEMMA EnterDpStep ==
  ASSUME DpInv, EnterDp PROVE DpInv'
<1>1. /\ TypeOK /\ SearchInv /\ InStep(Depth) /\ AskedBelow /\ Entails(Len(frames), Depth)
      /\ clauses \in Databases /\ pc = "dp" /\ \A c \in clauses : ~ FalseAt(c, Depth)
  BY DEF DpInv, EnterDp, Searching, SearchInv
<1>2. UNCHANGED <<clauses, asked, calls>>
  BY DEF EnterDp
<1>3. /\ Depth \in Nat /\ Len(frames) \in Nat
      /\ frames \in Seq([entry : Nat, dec_v : Codes, negative : BOOLEAN])
  BY <1>1, StateTypes DEF TypeOK
<1>4. CASE /\ \A v \in Codes : lassigned[v] # Open
           /\ sat' = TRUE /\ pc' = "return"
           /\ UNCHANGED <<decision_stack, lassigned, frames, idx, todo>>
  <2>1. TypeOK'
    BY <1>1, <1>2, <1>4 DEF TypeOK
  <2>2. SearchInv' /\ Models' = Models
    BY <1>1, <1>2, <1>4, SearchUnchanged
  <2>3. lassigned \in Models
    <3>1. lassigned \in [Codes -> {0, 1}]
      BY <1>1, <1>4 DEF TypeOK
    <3>2. ASSUME NEW c \in clauses PROVE \E l \in c : Holds(lassigned, l)
      <4>1. c \in SUBSET Literals
        BY <1>1
      <4>2. OpenLiterals(c) = {}
        BY <1>4, <4>1, LiteralFacts DEF OpenLiterals
      <4>3. Satisfied(c)
        BY <1>1, <4>1, <4>2, FalseClauses
      <4> QED
        BY <4>3 DEF Satisfied, Holds
    <3> QED
      BY <3>1, <3>2 DEF Models
  <2>4. \A k \in 1..Len(asked) : Holds(lassigned, asked[k])
    BY <1>1 DEF AskedBelow, InStep
  <2>5. ReturnInv'
    BY <1>2, <1>4, <2>2, <2>3, <2>4 DEF ReturnInv, Holds
  <2> QED
    BY <1>1, <1>2, <1>4, <2>1, <2>2, <2>5 DEF DpInv, NeverExits, Searching, AnswerExact
<1>5. ASSUME NEW v \in Codes, lassigned[v] = Open, Decide(v, Depth), UNCHANGED sat,
             frames' = Append(frames, [entry |-> Depth, dec_v |-> v, negative |-> FALSE])
      PROVE  DpInv'
  <2>1. PICK e \in Nat, m \in Nat : e = Depth /\ m = Len(frames)
    BY <1>3
  <2> DEFINE call == [entry |-> e, dec_v |-> v, negative |-> FALSE]
  <2>2. Depth < Capacity /\ v \in Literals /\ Code(v) = v
    <3>1. Depth < NumCodes
      BY <1>1, <1>5, RoomLeft
    <3>2. Depth < Capacity
      BY <1>3, <3>1
    <3> QED
      BY <3>2, LiteralFacts
  <2>3. Decide(v, e)
    BY <1>5, <2>1
  <2>4. /\ frames' \in Seq([entry : Nat, dec_v : Codes, negative : BOOLEAN])
        /\ Len(frames') = m + 1 /\ frames'[m + 1] = call
        /\ \A f \in 1..m : frames'[f] = frames[f]
    BY <1>3, <1>5, <2>1, AppendProperties
  <2>5. /\ decision_stack' \in Seq(Literals) /\ lassigned' \in [Codes -> {-1, 0, 1}]
        /\ idx' = e + 1 /\ pc' = "propagate" /\ todo' = Containing(-v)
    BY <1>1, <2>1, <2>2, <2>3, DecideStack
  <2>6. TypeOK'
    BY <1>1, <1>2, <1>5, <2>1, <2>4, <2>5 DEF TypeOK, Containing
  <2>7. \A k \in 1..e : Code(decision_stack[k]) # Code(v)
    <3>1. \A k \in 1..e : decision_stack[k] \in Literals
      BY <1>1, <2>1, StateTypes
    <3>2. \A k \in 1..e : Sign(decision_stack[k]) \in {0, 1}
      BY <3>1, LiteralFacts
    <3>3. \A k \in 1..e : lassigned[Code(decision_stack[k])] # Open
      BY <1>1, <2>1, <3>2 DEF InStep, Holds
    <3> QED
      BY <1>5, <2>2, <3>3
  <2>8. \A f \in 1..m : frames[f].entry < e
    BY <1>1, <2>1 DEF SearchInv, FrameInv
  <2>9. \A k \in 1..Len(asked) : \E j \in 1..e :
          decision_stack[j] = asked[k] /\ \A f \in 1..m : j <= frames[f].entry
    BY <1>1, <2>1 DEF AskedBelow
  <2>10. SearchInv' /\ PendingInv' /\ Entails(Len(frames), Depth)'
    <3>1. /\ call \in [entry : Nat, dec_v : Codes, negative : BOOLEAN]
          /\ call.entry = e /\ call.negative = FALSE /\ call.dec_v = v
      OBVIOUS
    <3>2. e \in 0..Depth /\ e < Capacity /\ m \in 0..Len(frames)
      BY <2>1, <2>2
    <3>3. (\A c \in clauses : ~ FalseAt(c, e)) /\ Entails(m, e)
      BY <1>1, <2>1
    <3> HIDE DEF call
    <3> QED
      BY <1>1, <1>2, <2>2, <2>3, <2>4, <2>7, <2>8, <2>9, <3>1, <3>2, <3>3, DecideKeeps
  <2> QED
    BY <1>1, <1>2, <1>5, <2>5, <2>6, <2>10 DEF DpInv, NeverExits, Searching, AnswerExact
<1> QED
  BY <1>4, <1>5 DEF EnterDp

(* The call as Retry leaves it: the same one, in its second branch.        *)
LEMMA SecondBranch ==
  ASSUME NEW call \in [entry : Nat, dec_v : Codes, negative : BOOLEAN]
  PROVE  /\ [call EXCEPT !.negative = TRUE] \in [entry : Nat, dec_v : Codes, negative : BOOLEAN]
         /\ [call EXCEPT !.negative = TRUE].entry = call.entry
         /\ [call EXCEPT !.negative = TRUE].dec_v = call.dec_v
         /\ [call EXCEPT !.negative = TRUE].negative = TRUE
  OBVIOUS

(* The first branch failed, which rules it out for the second.             *)
LEMMA RetryStep ==
  ASSUME DpInv, Retry PROVE DpInv'
<1>1. /\ TypeOK /\ SearchInv /\ InStep(Depth) /\ AskedBelow /\ ReturnInv /\ ~ sat
      /\ clauses \in Databases /\ pc = "return" /\ Searching /\ Len(frames) > 0 /\ ~ Innermost.negative
  BY DEF DpInv, Retry, Searching, SearchInv
<1>2. UNCHANGED <<clauses, sat, asked, calls>> /\ Decide(-Innermost.dec_v, Innermost.entry)
      /\ frames' = Append(Callers, [Innermost EXCEPT !.negative = TRUE])
  BY DEF Retry
<1>3. /\ Innermost.entry \in 0..Depth - 1 /\ Innermost.entry < Capacity /\ Innermost.dec_v \in Codes
      /\ FrameInv(Len(frames)) /\ Depth \in Nat
  BY <1>1, LastFrame
<1>4. /\ Callers \in Seq([entry : Nat, dec_v : Codes, negative : BOOLEAN])
      /\ Len(Callers) = Len(frames) - 1
      /\ \A f \in 1..Len(frames) - 1 : Callers[f] = frames[f]
      /\ Innermost = frames[Len(frames)] /\ Len(frames) \in Nat \ {0}
  BY <1>1, FrontOfFrames
<1>5. PICK e \in Nat, m \in Nat, v \in Codes :
        e = Innermost.entry /\ m = Len(frames) - 1 /\ v = Innermost.dec_v
  BY <1>3, <1>4
<1> DEFINE call == [Innermost EXCEPT !.negative = TRUE]
<1>7. /\ call \in [entry : Nat, dec_v : Codes, negative : BOOLEAN]
      /\ call.entry = e /\ call.negative = TRUE /\ call.dec_v = v
  <2>1. Innermost \in [entry : Nat, dec_v : Codes, negative : BOOLEAN]
    BY <1>1, FrontOfFrames
  <2> QED
    BY <1>5, <2>1, SecondBranch
<1>6. frames' = Append(Callers, call)
  BY <1>2
<1> HIDE DEF call
<1>8. /\ frames' \in Seq([entry : Nat, dec_v : Codes, negative : BOOLEAN])
      /\ Len(frames') = m + 1 /\ frames'[m + 1] = call
      /\ \A f \in 1..m : frames'[f] = frames[f]
  <2>1. frames' = Append(Callers, call) /\ Len(Callers) = m /\ \A f \in 1..m : Callers[f] = frames[f]
    BY <1>4, <1>5, <1>6
  <2> QED
    BY <1>4, <1>7, <2>1, AppendProperties
<1>9. PICK l \in Literals : l = -v /\ Code(l) = v /\ v \in Literals /\ Code(v) = v /\ -l = v
  BY LiteralFacts
<1>10. Decide(l, e) /\ e \in 0..Depth /\ e < Capacity /\ e + 1 \in 1..Depth
  BY <1>2, <1>3, <1>5, <1>9
<1>11. /\ frames[m + 1].entry = e /\ frames[m + 1].dec_v = v /\ m + 1 = Len(frames)
       /\ decision_stack[e + 1] = v
  BY <1>1, <1>3, <1>4, <1>5 DEF FrameInv
<1>12. TypeOK' /\ pc' = "propagate"
  <2>1. /\ decision_stack' \in Seq(Literals) /\ lassigned' \in [Codes -> {-1, 0, 1}]
        /\ idx' = e + 1 /\ pc' = "propagate" /\ todo' = Containing(-l)
    BY <1>1, <1>9, <1>10, DecideStack
  <2> QED
    BY <1>1, <1>2, <1>5, <1>8, <2>1, SMTT(30) DEF TypeOK, Containing
<1>13. SearchInv' /\ PendingInv' /\ Entails(Len(frames), Depth)'
  <2>1. \A f \in 1..m : frames[f].entry < e
    BY <1>3, <1>5, <1>11 DEF FrameInv
  <2>2. \A a \in Models : Agrees(a, m) => ~ Holds(a, v)
    <3> SUFFICES ASSUME NEW a \in Models, Agrees(a, m) PROVE ~ Holds(a, v)
      OBVIOUS
    <3>1. ~ Agrees(a, m + 1)
      BY <1>1, <1>11 DEF ReturnInv
    <3>2. Agrees(a, m + 1) <=> Agrees(a, m) /\ Holds(a, decision_stack[frames[m + 1].entry + 1])
      BY <1>5, AgreesWithNext
    <3> QED
      BY <1>11, <3>1, <3>2
  <2>3. \A k \in 1..e : Code(decision_stack[k]) # Code(l)
    <3>1. Code(decision_stack[e + 1]) = Code(l)
      BY <1>9, <1>11
    <3>2. \A k \in 1..e : k \in 1..Depth /\ k # e + 1
      BY <1>3, <1>10
    <3>3. \A j, k \in 1..Depth : Code(decision_stack[j]) = Code(decision_stack[k]) => j = k
      BY <1>1 DEF InStep
    <3>4. e + 1 \in 1..Depth
      BY <1>10
    <3> QED
      BY <3>1, <3>2, <3>3, <3>4
  <2>4. (\A c \in clauses : ~ FalseAt(c, e)) /\ Entails(m, e)
    BY <1>3, <1>5, <1>11 DEF FrameInv
  <2>5. \A k \in 1..Len(asked) : \E j \in 1..e :
          decision_stack[j] = asked[k] /\ \A f \in 1..m : j <= frames[f].entry
    <3> SUFFICES ASSUME NEW k \in 1..Len(asked)
                 PROVE  \E j \in 1..e : decision_stack[j] = asked[k] /\ \A f \in 1..m : j <= frames[f].entry
      OBVIOUS
    <3>1. PICK j \in 1..Depth : decision_stack[j] = asked[k] /\ \A f \in 1..Len(frames) : j <= frames[f].entry
      BY <1>1 DEF AskedBelow
    <3>2. j <= e /\ \A f \in 1..m : j <= frames[f].entry
      BY <1>4, <1>5, <1>11, <3>1
    <3>3. j \in 1..e
      BY <1>5, <3>2
    <3> QED
      BY <3>1, <3>2, <3>3
  <2>6. m \in 0..Len(frames)
    BY <1>4, <1>5
  <2>7. l = (IF call.negative THEN -call.dec_v ELSE call.dec_v)
        /\ (call.negative => \A a \in Models : Agrees(a, m) => ~ Holds(a, call.dec_v))
    BY <1>7, <1>9, <2>2
  <2>8. TypeOK /\ SearchInv /\ UNCHANGED <<clauses, asked>>
    BY <1>1, <1>2
  <2>9. Decide(l, e) /\ e \in 0..Depth /\ e < Capacity
    BY <1>10
  <2>10. Len(frames') = m + 1 /\ frames'[m + 1] = call /\ \A f \in 1..m : frames'[f] = frames[f]
    BY <1>8
  <2>11. call \in [entry : Nat, dec_v : Codes, negative : BOOLEAN] /\ call.entry = e
    BY <1>7
  <2> QED
    BY <1>9, <2>1, <2>3, <2>4, <2>5, <2>6, <2>7, <2>8, <2>9, <2>10, <2>11, DecideKeeps
<1> QED
  BY <1>1, <1>2, <1>12, <1>13 DEF DpInv, NeverExits, Searching, AnswerExact

(* The entries above the first e are taken back: the array and the stack   *)
(* stay in step.                                                           *)
LEMMA RetractInStep ==
  ASSUME TypeOK, InStep(Depth), NEW e \in 0..Depth,
         decision_stack' = SubSeq(decision_stack, 1, e),
         lassigned' = Retracted(lassigned, e + 1)
  PROVE  /\ decision_stack' \in Seq(Literals) /\ Depth' = e
         /\ \A k \in 1..e : decision_stack'[k] = decision_stack[k]
         /\ lassigned' \in [Codes -> {-1, 0, 1}]
         /\ InStep(Depth)'
<1>1. /\ decision_stack' \in Seq(Literals) /\ Depth' = e
      /\ \A k \in 1..e : decision_stack'[k] = decision_stack[k]
  BY Cut DEF Depth, TypeOK
<1>2. /\ Depth \in Nat /\ e \in Nat
      /\ \A k \in 1..Depth : Code(decision_stack[k]) \in Codes
  BY StateTypes, LiteralFacts
<1>3. /\ \A k \in 1..Depth : lassigned[Code(decision_stack[k])] = Sign(decision_stack[k])
      /\ \A j, k \in 1..Depth : Code(decision_stack[j]) = Code(decision_stack[k]) => j = k
      /\ \A v \in Codes : lassigned[v] # Open => \E k \in 1..Depth : Code(decision_stack[k]) = v
  BY DEF InStep, Holds
<1>4. lassigned' \in [Codes -> {-1, 0, 1}]
  BY DEF TypeOK, Retracted
<1>5. ASSUME NEW k \in 1..e
      PROVE  lassigned'[Code(decision_stack'[k])] = Sign(decision_stack'[k])
  <2>1. k \in 1..Depth /\ \A j \in e + 1..Depth : j \in 1..Depth /\ j # k
    BY <1>2
  <2>2. ~ \E j \in e + 1..Depth : Code(decision_stack[j]) = Code(decision_stack[k])
    BY <1>3, <2>1
  <2>3. Retracted(lassigned, e + 1)[Code(decision_stack[k])] = lassigned[Code(decision_stack[k])]
    BY <1>2, <2>1, <2>2 DEF Retracted
  <2> QED
    BY <1>1, <1>3, <2>1, <2>3
<1>6. ASSUME NEW j \in 1..e, NEW k \in 1..e, Code(decision_stack'[j]) = Code(decision_stack'[k])
      PROVE  j = k
  <2>1. j \in 1..Depth /\ k \in 1..Depth /\ Code(decision_stack[j]) = Code(decision_stack[k])
    BY <1>1, <1>2, <1>6
  <2> QED
    BY <1>3, <2>1
<1>7. ASSUME NEW v \in Codes, lassigned'[v] # Open
      PROVE  \E k \in 1..e : Code(decision_stack'[k]) = v
  <2>1. lassigned[v] # Open /\ ~ \E k \in e + 1..Depth : Code(decision_stack[k]) = v
    BY <1>7 DEF Retracted
  <2>2. PICK k \in 1..Depth : Code(decision_stack[k]) = v
    BY <1>3, <2>1
  <2>3. k \in 1..e
    BY <1>2, <2>1, <2>2
  <2> QED
    BY <1>1, <2>2, <2>3
<1> QED
  BY <1>1, <1>4, <1>5, <1>6, <1>7 DEF InStep, Holds

(* Both branches failed, so no model agrees with the calls that stay open. *)
LEMMA FailFrameStep ==
  ASSUME DpInv, FailFrame PROVE DpInv'
<1>1. /\ TypeOK /\ SearchInv /\ InStep(Depth) /\ AskedBelow /\ ReturnInv /\ ~ sat
      /\ clauses \in Databases /\ pc = "return" /\ Searching /\ Len(frames) > 0 /\ Innermost.negative
  BY DEF DpInv, FailFrame, Searching, SearchInv
<1>2. /\ UNCHANGED <<clauses, idx, todo, pc, sat, asked, calls>>
      /\ lassigned' = Retracted(lassigned, Innermost.entry + 1)
      /\ decision_stack' = SubSeq(decision_stack, 1, Innermost.entry)
      /\ frames' = Callers
  BY DEF FailFrame
<1>3. /\ Innermost.entry \in 0..Depth - 1 /\ Innermost.dec_v \in Codes /\ FrameInv(Len(frames)) /\ Depth \in Nat
  BY <1>1, LastFrame
<1>4. /\ Callers \in Seq([entry : Nat, dec_v : Codes, negative : BOOLEAN])
      /\ Len(Callers) = Len(frames) - 1
      /\ \A f \in 1..Len(frames) - 1 : Callers[f] = frames[f]
      /\ Innermost = frames[Len(frames)] /\ Len(frames) \in Nat \ {0}
  BY <1>1, FrontOfFrames
<1>5. PICK e \in Nat, m \in Nat, v \in Codes :
        e = Innermost.entry /\ m = Len(frames) - 1 /\ v = Innermost.dec_v
  BY <1>3, <1>4
<1>6. /\ frames' \in Seq([entry : Nat, dec_v : Codes, negative : BOOLEAN]) /\ Len(frames') = m
      /\ \A f \in 1..m : frames'[f] = frames[f]
  BY <1>2, <1>4, <1>5
<1>7. /\ e \in 0..Depth /\ e + 1 \in 1..Depth /\ m \in 0..Len(frames) /\ m + 1 = Len(frames)
      /\ frames[m + 1].entry = e /\ frames[m + 1].dec_v = v
      /\ decision_stack[e + 1] = -v
  BY <1>1, <1>3, <1>4, <1>5, SMTT(30) DEF FrameInv
<1>8. /\ decision_stack' \in Seq(Literals) /\ Depth' = e
      /\ \A k \in 1..e : decision_stack'[k] = decision_stack[k]
      /\ lassigned' \in [Codes -> {-1, 0, 1}]
      /\ InStep(Depth)'
  BY <1>1, <1>2, <1>5, <1>7, RetractInStep
<1>9. TypeOK'
  BY <1>1, <1>2, <1>6, <1>8 DEF TypeOK
<1>10. \A f \in 1..m : frames[f].entry < e /\ FrameInv(f)
  <2>1. \A f \in 1..m : frames[f].entry < e
    BY <1>3, <1>5, <1>7 DEF FrameInv
  <2>2. \A f \in 1..m : FrameInv(f)
    BY <1>1, <1>5, <1>7 DEF SearchInv
  <2> QED
    BY <2>1, <2>2
<1>11. /\ Models' = Models
       /\ \A f \in 1..m : FrameInv(f)'
       /\ \A a : Agrees(a, m)' <=> Agrees(a, m)
  <2>1. TypeOK /\ UNCHANGED <<clauses, asked>> /\ Depth' \in Nat /\ e <= Depth'
    BY <1>1, <1>2, <1>8
  <2>2. \A f \in 1..m : frames'[f] = frames[f] /\ frames[f].entry < e /\ FrameInv(f)
    BY <1>6, <1>10
  <2> QED
    BY <1>7, <1>8, <2>1, <2>2, FramesKept
<1>12. AskedBelow'
  <2> SUFFICES ASSUME NEW k \in 1..Len(asked)
               PROVE  \E j \in 1..e : decision_stack'[j] = asked[k] /\ \A f \in 1..m : j <= frames'[f].entry
    BY <1>2, <1>6, <1>8, ZenonT(60) DEF AskedBelow
  <2>1. PICK j \in 1..Depth : decision_stack[j] = asked[k] /\ \A f \in 1..Len(frames) : j <= frames[f].entry
    BY <1>1 DEF AskedBelow
  <2>2. j \in 1..e
    BY <1>4, <1>7, <2>1
  <2>3. \A f \in 1..m : j <= frames'[f].entry
    BY <1>6, <1>7, <2>1
  <2> QED
    BY <1>8, <2>1, <2>2, <2>3
<1>13. SearchInv'
  BY <1>6, <1>8, <1>11, <1>12 DEF SearchInv
<1>14. \A a \in Models : ~ Agrees(a, m)
  <2> SUFFICES ASSUME NEW a \in Models, Agrees(a, m) PROVE FALSE
    OBVIOUS
  <2>1. ~ Holds(a, v)
    <3>1. frames[m + 1].negative /\ (m + 1) - 1 = m
      BY <1>1, <1>4, <1>7
    <3>2. frames[m + 1].negative =>
            \A b \in Models : Agrees(b, (m + 1) - 1) => ~ Holds(b, frames[m + 1].dec_v)
      BY <1>3, <1>7 DEF FrameInv
    <3> QED
      BY <1>7, <3>1, <3>2
  <2>2. ~ Holds(a, -v)
    <3>1. ~ Agrees(a, m + 1)
      BY <1>1, <1>7 DEF ReturnInv
    <3> QED
      BY <1>5, <1>7, <3>1, AgreesWithNext
  <2>3. a[v] \in {0, 1}
    BY DEF Models
  <2> QED
    BY <2>1, <2>2, <2>3, LiteralFacts DEF Holds
<1>15. ReturnInv'
  BY <1>1, <1>2, <1>6, <1>11, <1>14 DEF ReturnInv
<1> QED
  BY <1>1, <1>2, <1>9, <1>13, <1>15 DEF DpInv, NeverExits, Searching, AnswerExact

(* A call that found a model returns and leaves all as it is.              *)
LEMMA SolveFrameStep ==
  ASSUME DpInv, SolveFrame PROVE DpInv'
<1>1. /\ TypeOK /\ SearchInv /\ InStep(Depth) /\ AskedBelow /\ ReturnInv /\ sat
      /\ clauses \in Databases /\ pc = "return" /\ Searching /\ Len(frames) > 0
  BY DEF DpInv, SolveFrame, Searching, SearchInv
<1>2. UNCHANGED <<clauses, decision_stack, lassigned, idx, todo, pc, sat, asked, calls>>
      /\ frames' = Callers
  BY DEF SolveFrame
<1>3. /\ Callers \in Seq([entry : Nat, dec_v : Codes, negative : BOOLEAN])
      /\ Len(Callers) = Len(frames) - 1
      /\ \A f \in 1..Len(frames) - 1 : Callers[f] = frames[f]
      /\ Len(frames) \in Nat \ {0} /\ Depth \in Nat
  BY <1>1, FrontOfFrames, StateTypes
<1>4. PICK m \in Nat : m = Len(frames) - 1
  BY <1>3
<1>5. /\ frames' \in Seq([entry : Nat, dec_v : Codes, negative : BOOLEAN]) /\ Len(frames') = m
      /\ \A f \in 1..m : frames'[f] = frames[f] /\ f \in 1..Len(frames)
      /\ m \in 0..Len(frames)
  BY <1>2, <1>3, <1>4
<1>6. TypeOK'
  BY <1>1, <1>2, <1>5 DEF TypeOK
<1>7. Models' = Models /\ \A f \in 1..m : FrameInv(f)'
  <2>1. PICK n \in 0..Depth : n = Depth
    BY <1>3
  <2>2. TypeOK /\ UNCHANGED <<clauses, asked>> /\ Depth' \in Nat /\ n <= Depth'
    BY <1>1, <1>2, <1>3, <2>1 DEF Depth
  <2>3. \A f \in 1..m : frames'[f] = frames[f] /\ frames[f].entry < n /\ FrameInv(f)
    BY <1>1, <1>5, <2>1 DEF SearchInv, FrameInv
  <2>4. \A k \in 1..n : decision_stack'[k] = decision_stack[k]
    BY <1>2
  <2> QED
    BY <1>5, <2>2, <2>3, <2>4, FramesKept
<1>8. InStep(Depth)' /\ Depth' = Depth
  BY <1>1, <1>2 DEF InStep, Holds, Depth
<1>9. AskedBelow'
  <2> SUFFICES ASSUME NEW k \in 1..Len(asked)
               PROVE  \E j \in 1..Depth : decision_stack[j] = asked[k] /\ \A f \in 1..m : j <= frames'[f].entry
    BY <1>2, <1>5, <1>8 DEF AskedBelow
  <2>1. PICK j \in 1..Depth : decision_stack[j] = asked[k] /\ \A f \in 1..Len(frames) : j <= frames[f].entry
    BY <1>1 DEF AskedBelow
  <2>2. \A f \in 1..m : j <= frames'[f].entry
    BY <1>5, <2>1
  <2> QED
    BY <2>1, <2>2
<1>10. SearchInv'
  BY <1>5, <1>7, <1>8, <1>9 DEF SearchInv
<1>11. ReturnInv'
  BY <1>1, <1>2, <1>7 DEF ReturnInv, Holds
<1> QED
  BY <1>1, <1>2, <1>6, <1>10, <1>11 DEF DpInv, NeverExits, Searching, AnswerExact

(* With no call left dp_CNF empties the array, and the answer is right.    *)
LEMMA ReturnStep ==
  ASSUME DpInv, Return PROVE DpInv'
<1>1. /\ TypeOK /\ InStep(Depth) /\ ReturnInv /\ clauses \in Databases /\ frames = <<>>
  BY DEF DpInv, Return, Searching, SearchInv
<1>2. /\ UNCHANGED <<clauses, frames, idx, todo, sat, asked, calls>>
      /\ lassigned' = Retracted(lassigned, 1) /\ decision_stack' = <<>> /\ pc' = "idle"
  BY DEF Return
<1>3. \A v \in Codes : lassigned'[v] = Open
  BY <1>1, <1>2 DEF Retracted, InStep
<1>4. TypeOK'
  <2>1. lassigned' \in [Codes -> {-1, 0, 1}]
    BY <1>1, <1>2 DEF TypeOK, Retracted
  <2>2. decision_stack' \in Seq(Literals)
    BY <1>2
  <2> QED
    BY <1>1, <1>2, <2>1, <2>2 DEF TypeOK
<1>5. sat = \E a \in Models : \A k \in 1..Len(asked) : Holds(a, asked[k])
  <2>1. \A a : Agrees(a, Len(frames)) <=> \A k \in 1..Len(asked) : Holds(a, asked[k])
    BY <1>1 DEF Agrees
  <2>2. sat \in BOOLEAN
    BY <1>1 DEF TypeOK
  <2>3. ASSUME sat PROVE \E a \in Models : \A k \in 1..Len(asked) : Holds(a, asked[k])
    BY <1>1, <2>3 DEF ReturnInv
  <2>4. ASSUME ~ sat PROVE ~ \E a \in Models : \A k \in 1..Len(asked) : Holds(a, asked[k])
    <3>1. \A a \in Models : ~ Agrees(a, Len(frames))
      BY <1>1, <2>4 DEF ReturnInv
    <3> QED
      BY <2>1, <3>1
  <2> QED
    BY <2>2, <2>3, <2>4, Zenon
<1>6. AnswerExact'
  <2>1. Models' = Models
    BY <1>2 DEF Models
  <2> QED
    BY <1>2, <1>5, <2>1 DEF AnswerExact, Holds
<1> QED
  BY <1>1, <1>2, <1>3, <1>4, <1>6 DEF DpInv, NeverExits, Searching
------------------------------------------------------------------------------
(* The test has not been called yet.                                       *)
LEMMA InitInv ==
  ASSUME Init PROVE DpInv
<1>1. TypeOK
  <2>1. clauses \in SUBSET SUBSET Literals
    BY DEF Init
  <2>2. lassigned \in [Codes -> {-1, 0, 1}]
    BY DEF Init
  <2>3. /\ decision_stack \in Seq(Literals) /\ asked \in Seq(Literals)
        /\ frames \in Seq([entry : Nat, dec_v : Codes, negative : BOOLEAN])
    BY DEF Init
  <2>4. idx \in Nat \ {0} /\ todo \in SUBSET SUBSET Literals /\ calls \in Nat
    BY DEF Init
  <2>5. pc \in {"idle", "insert", "propagate", "dp", "return", "exit"}
    BY DEF Init
  <2>6. sat \in BOOLEAN
    BY Zenon DEF Init
  <2> QED
    BY <2>1, <2>2, <2>3, <2>4, <2>5, <2>6 DEF TypeOK
<1> QED
  BY <1>1 DEF Init, DpInv, NeverExits, Searching, AnswerExact

(* No step of the test takes the invariant away.                           *)
LEMMA NextInv ==
  ASSUME DpInv, [Next]_vars PROVE DpInv'
<1>1. CASE Call
  BY <1>1, CallStep
<1>2. CASE PreInsert
  BY <1>2, PreInsertStep
<1>3. CASE EndPreInsert
  BY <1>3, EndPreInsertStep
<1>4. CASE LookAtClause
  BY <1>4, LookAtClauseStep
<1>5. CASE NextEntry
  BY <1>5, NextEntryStep
<1>6. CASE EnterDp
  BY <1>6, EnterDpStep
<1>7. CASE Retry
  BY <1>7, RetryStep
<1>8. CASE FailFrame
  BY <1>8, FailFrameStep
<1>9. CASE SolveFrame
  BY <1>9, SolveFrameStep
<1>10. CASE Return
  BY <1>10, ReturnStep
<1>11. CASE UNCHANGED vars
  <2>1. UNCHANGED <<clauses, decision_stack, lassigned, frames, idx, todo, pc, sat, asked, calls>>
    BY <1>11 DEF vars
  <2>2. TypeOK' /\ NeverExits' /\ AnswerExact' /\ (Searching' <=> Searching) /\ Models' = Models
    BY <2>1 DEF DpInv, TypeOK, NeverExits, AnswerExact, Models, Holds, Searching
  <2>3. (pc = "insert" => InsertInv)'
    BY <2>1 DEF DpInv, InsertInv, InStep, Holds, Depth
  <2>4. Searching' => SearchInv'
    BY <2>1, <2>2, SearchUnchanged DEF DpInv
  <2>5. (pc \in {"propagate", "dp"} => Entails(Len(frames), Depth))'
    BY <2>1, <2>2 DEF DpInv, Entails, Agrees, Holds, Depth
  <2>6. (pc = "propagate" => PendingInv)'
    BY <2>1 DEF DpInv, PendingInv, FalseAt, Depth
  <2>7. (pc = "dp" => \A c \in clauses : ~ FalseAt(c, Depth))'
    BY <2>1 DEF DpInv, FalseAt, Depth
  <2>8. (pc = "return" => ReturnInv)'
    BY <2>1, <2>2 DEF DpInv, ReturnInv, Agrees, Holds
  <2> QED
    BY <2>1, <2>2, <2>3, <2>4, <2>5, <2>6, <2>7, <2>8 DEF DpInv
<1> QED
  BY <1>1, <1>2, <1>3, <1>4, <1>5, <1>6, <1>7, <1>8, <1>9, <1>10, <1>11 DEF Next

(* The invariant holds in every state of the test.                         *)
THEOREM Invariant == dp_CNF => []DpInv
<1>1. Init => DpInv
  BY InitInv
<1>2. DpInv /\ [Next]_vars => DpInv'
  BY NextInv
<1> QED
  BY <1>1, <1>2, PTL DEF dp_CNF

(* The answer of dp_CNF is TRUE exactly when some assignment satisfies the *)
(* clauses and what the caller asked, call after call, for every number of *)
(* variables and every database without an empty clause.                   *)
THEOREM AnswersRight == dp_CNF => []AnswerExact
<1>1. DpInv => AnswerExact
  BY DEF DpInv
<1> QED
  BY <1>1, Invariant, PTL

(* dp_CNF never meets an assignment its last call left, and the decision   *)
(* stack, with a cell for each variable, never runs out of cells.          *)
THEOREM ExitsUnreached == dp_CNF => []NeverExits
<1>1. DpInv => NeverExits
  BY DEF DpInv
<1> QED
  BY <1>1, Invariant, PTL

(* While the test searches, lassigned holds the entries of the decision    *)
(* stack, each variable once, and nothing else.                            *)
THEOREM ArrayFollowsStack == dp_CNF => []StackMatches
<1>1. DpInv => StackMatches
  BY DEF DpInv, StackMatches, Searching, SearchInv, InStep
<1> QED
  BY <1>1, Invariant, PTL

(* Unit propagation assigns only what the clauses, what was asked and the  *)
(* literals tried entail.                                                  *)
THEOREM OnlyEntailed == dp_CNF => []PropagationEntailed
<1>1. DpInv => PropagationEntailed
  <2> SUFFICES ASSUME DpInv, pc \in {"propagate", "dp"}, NEW a \in Models,
                      \A k \in 1..Len(asked) : Holds(a, asked[k]),
                      \A l \in Tried : Holds(a, l)
               PROVE  \A k \in 1..Depth : Holds(a, decision_stack[k])
    BY DEF PropagationEntailed
  <2>1. Agrees(a, Len(frames))
    BY DEF Agrees, Tried
  <2> QED
    BY <2>1 DEF DpInv, Entails
<1> QED
  BY <1>1, Invariant, PTL

(* Types are kept.                                                         *)
THEOREM TypesKept == dp_CNF => []TypeOK
<1>1. DpInv => TypeOK
  BY DEF DpInv
<1> QED
  BY <1>1, Invariant, PTL
===============================================================================
