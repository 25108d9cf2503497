----------------------------- MODULE ClauseBase -----------------------------
(***************************************************************************)
(* The clause database of Contingent-FF.  Literals about a fact at a time  *)
(* step are given integer codes when they first occur, and every code has  *)
(* two lists of the clauses it occurs in.  The clauses of the initial      *)
(* state are fixed; those about a search path are put behind them and      *)
(* undone after each use, twice nested or more in the stagnation tests.    *)
(* Nothing is freed: a list is cut by moving its end back, and the cells   *)
(* beyond keep old clause numbers until they are written again.            *)
(***************************************************************************)
EXTENDS Integers, Sequences, FiniteSets, SequencesExt

CONSTANTS TimedFacts,    \* facts at time steps
          Pool,          \* clauses that may be made: sequences of timed literals
          MaxCodes,      \* (1 + MAX_PLAN_LENGTH) * gmax_CNFU
          MaxBatch,      \* clauses made at once
          MaxNesting,    \* bound on the extensions open at once
          MaxTests       \* bound on the extensions of one behaviour

Signs == {"pos", "neg"}
TimedLiteral == [f : TimedFacts, sign : Signs]

(* A clause has each of its literals once: those made from hitting sets    *)
(* are checked "to avoid redundancies", and a disjunction of the problem   *)
(* file is taken to be written without repeating a literal.                *)
ASSUME ClauseAssumption ==
  /\ \A clause \in Pool :
       /\ clause \in Seq(TimedLiteral)
       /\ \A i, j \in DOMAIN clause : clause[i] = clause[j] => i = j
  /\ MaxCodes \in Nat /\ MaxBatch \in Nat /\ MaxNesting \in Nat /\ MaxTests \in Nat

VARIABLES gclauses,  \* encoded clauses: sequences of non-zero integers
          gcodes,    \* code of each timed fact, -1 for none
          gcf_gct,   \* timed fact of each code ever used
          lists,     \* of each code and sign: cells, index of end, of fixed
          gnum_c, gnum_fixed_c, gnum_fixed_clauses,
          tests,     \* extensions made so far
          saved,     \* what the open extensions have to restore
          base_pc

base_vars == <<gclauses, gcodes, gcf_gct, lists, gnum_c, gnum_fixed_c, gnum_fixed_clauses, tests, saved, base_pc>>

CodeRange == 1..MaxCodes
EndOfList == -1
\* new_MemberList of the end dummy; the start dummy is never written.
Unallocated == [cells |-> <<>>, end |-> 0, fixed |-> 0]
Allocated == [cells |-> <<EndOfList>>, end |-> 1, fixed |-> 1]

BaseInit ==
  /\ gclauses = <<>>
  /\ gcodes = [x \in TimedFacts |-> -1]
  /\ gcf_gct = [i \in CodeRange |-> "none"]
  /\ lists = [i \in CodeRange |-> [sign \in Signs |-> Unallocated]]
  /\ gnum_c = 0 /\ gnum_fixed_c = 0 /\ gnum_fixed_clauses = 0
  /\ tests = 0 /\ saved = <<>>
  /\ base_pc = "start"

(* A clause number goes into the cell at end; a new cell is needed when    *)
(* that one is the last of the allocation.                                 *)
WithClause(list, c) ==
  [list EXCEPT !.cells = IF @[list.end] = EndOfList THEN SubSeq(@, 1, list.end - 1) \o <<c, EndOfList>>
                         ELSE [@ EXCEPT ![list.end] = c],
               !.end = @ + 1]

Prepared(ls, v) ==
  IF ls[v]["pos"].cells = <<>> THEN [ls EXCEPT ![v] = [sign \in Signs |-> Allocated]] ELSE ls

insert_dynamic_membership(ls, v, sign, c) ==
  LET ready == Prepared(ls, v) IN [ready EXCEPT ![v][sign] = WithClause(ready[v][sign], c)]

insert_fixed_membership(ls, v, sign, c) ==
  LET longer == insert_dynamic_membership(ls, v, sign, c)
  IN  [longer EXCEPT ![v][sign].fixed = longer[v][sign].end]

Coded(v, sign) == IF sign = "neg" THEN -v ELSE v

(* One literal of the last clause is encoded: its code, made if there is   *)
(* none yet, its place in the clause, and the list the clause now is in.   *)
(* A code above MaxCodes ends the planner.                                 *)
EncodeLiteral(b, lit, kind) ==
  LET code == IF b.codes[lit.f] = -1 THEN b.c + 1 ELSE b.codes[lit.f]
      c == Len(b.clauses)
  IN  IF b.c > MaxCodes \/ code > MaxCodes THEN [b EXCEPT !.c = MaxCodes + 1]
      ELSE [c       |-> IF code > b.c THEN code ELSE b.c,
            codes   |-> [b.codes EXCEPT ![lit.f] = code],
            facts   |-> [b.facts EXCEPT ![code] = lit.f],
            lists   |-> IF kind = "fixed" THEN insert_fixed_membership(b.lists, code, lit.sign, c)
                        ELSE insert_dynamic_membership(b.lists, code, lit.sign, c),
            clauses |-> [b.clauses EXCEPT ![c] = Append(@, Coded(code, lit.sign))]]

EncodeClause(b, clause, kind) ==
  LET done[i \in 0..Len(clause)] ==
        IF i = 0 THEN [b EXCEPT !.clauses = Append(@, <<>>)]
        ELSE EncodeLiteral(done[i - 1], clause[i], kind)
  IN  done[Len(clause)]

(* The clauses of a batch, numbered from those in b; codes from b.c.       *)
Encode(b, batch, kind) ==
  LET done[i \in 0..Len(batch)] == IF i = 0 THEN b ELSE EncodeClause(done[i - 1], batch[i], kind)
  IN  done[Len(batch)]

Base(c, codes, ls, clauses) ==
  [c |-> c, codes |-> codes, facts |-> gcf_gct, lists |-> ls, clauses |-> clauses]

Batches == UNION {[1..n -> Pool] : n \in 0..MaxBatch}

Installed(b, next) ==
  IF b.c > MaxCodes
  THEN base_pc' = "full" /\ UNCHANGED <<gnum_c, gcodes, gcf_gct, lists, gclauses>>
  ELSE /\ gnum_c' = b.c /\ gcodes' = b.codes /\ gcf_gct' = b.facts
       /\ lists' = b.lists /\ gclauses' = b.clauses
       /\ base_pc' = next

(* create_fixed_initial_clauses and their encoding, once.                  *)
create_fixed_initial_clauses ==
  /\ base_pc = "start"
  /\ \E batch \in Batches :
       LET b == Encode(Base(0, gcodes, lists, <<>>), batch, "fixed") IN
       /\ Installed(b, "fixed")
       /\ gnum_fixed_c' = b.c
       /\ gnum_fixed_clauses' = Len(b.clauses)
  /\ UNCHANGED <<tests, saved>>

(* result_to_dest: the clauses of the path to the new state, coded behind  *)
(* the fixed ones.                                                         *)
extend_dynamic_clauses_base ==
  /\ base_pc = "fixed" /\ tests < MaxTests
  /\ tests' = tests + 1
  /\ \E batch \in Batches :
       Installed(Encode(Base(gnum_fixed_c, gcodes, lists, gclauses), batch, "dynamic"), "dynamic")
  /\ UNCHANGED <<gnum_fixed_c, gnum_fixed_clauses, saved>>

(* The clauses of the last step, and those of a stagnation test: the state *)
(* of the database is remembered and extended.                             *)
ExtendFurther ==
  /\ base_pc = "dynamic" /\ Len(saved) < MaxNesting /\ tests < MaxTests
  /\ tests' = tests + 1
  /\ saved' = Append(saved, [cl |-> Len(gclauses), c |-> gnum_c,
                             end |-> [v \in CodeRange |-> [sign \in Signs |-> lists[v][sign].end]]])
  /\ \E clause \in Pool :
       Installed(Encode(Base(gnum_c, gcodes, lists, gclauses), <<clause>>, "dynamic"), "dynamic")
  /\ UNCHANGED <<gnum_fixed_c, gnum_fixed_clauses>>

(* gcodes without the codes above c, as far as gnum_c goes.                *)
CodesBelow(c) ==
  [x \in TimedFacts |-> IF \E i \in c + 1..gnum_c : gcf_gct[i] = x THEN -1 ELSE gcodes[x]]

\* Mutant: only the ends that were remembered are moved.
EndsAtOldOnly(s) ==
  [v \in CodeRange |-> [sign \in Signs |->
     [lists[v][sign] EXCEPT !.end = IF v <= s.c THEN s.end[v][sign] ELSE @]]]

(* The lists with their ends where they were when s was saved.             *)
EndsAt(s) ==
  [v \in CodeRange |-> [sign \in Signs |->
     [lists[v][sign] EXCEPT !.end = IF v <= s.c THEN s.end[v][sign]
                                   ELSE IF v <= gnum_c THEN 1 ELSE @]]]

(* A stagnation test ends: clauses, codes and ends go back, while gnum_c   *)
(* stays for the next encoding to set.                                     *)
Restore ==
  /\ base_pc = "dynamic" /\ saved # <<>>
  /\ LET s == saved[Len(saved)] IN
       /\ gclauses' = SubSeq(gclauses, 1, s.cl)
       /\ gcodes' = CodesBelow(s.c)
       /\ lists' = EndsAt(s)
  /\ saved' = Front(saved)
  /\ UNCHANGED <<gcf_gct, gnum_c, gnum_fixed_c, gnum_fixed_clauses, tests, base_pc>>

(* The other outcome of a nondeterministic effect is tried: the clause of  *)
(* the first is undone and another takes its place.                        *)
TryOther ==
  /\ base_pc = "dynamic" /\ saved # <<>> /\ tests < MaxTests
  /\ tests' = tests + 1
  /\ LET s == saved[Len(saved)] IN
       \E clause \in Pool :
         Installed(Encode(Base(s.c, CodesBelow(s.c), EndsAt(s), SubSeq(gclauses, 1, s.cl)),
                          <<clause>>, "dynamic"), "dynamic")
  /\ UNCHANGED <<gnum_fixed_c, gnum_fixed_clauses, saved>>

\* What the planner checks of a dynamic code before it cuts its lists.
FixedAtStart(v) == \A sign \in Signs : lists[v][sign].cells # <<>> /\ lists[v][sign].fixed = 1

(* The ends go back behind the fixed clauses.                              *)
CutLists ==
  [v \in CodeRange |-> [sign \in Signs |->
     [lists[v][sign] EXCEPT !.end = IF v <= gnum_fixed_c THEN lists[v][sign].fixed
                                   ELSE IF v <= gnum_c THEN 1 ELSE @]]]

(* result_to_dest ends: everything behind the fixed clauses is undone.  A  *)
(* test that kept its clauses for the caller need not have restored them.  *)
UndoDynamic ==
  /\ base_pc = "dynamic"
  /\ IF \E v \in gnum_fixed_c + 1..gnum_c : ~ FixedAtStart(v)
     THEN base_pc' = "exit" /\ UNCHANGED <<gclauses, gcodes, lists>>
     ELSE /\ gclauses' = SubSeq(gclauses, 1, gnum_fixed_clauses)
          /\ gcodes' = CodesBelow(gnum_fixed_c)
          /\ lists' = CutLists
          /\ base_pc' = "fixed"
  /\ saved' = <<>>
  /\ UNCHANGED <<gcf_gct, gnum_c, gnum_fixed_c, gnum_fixed_clauses, tests>>

BaseNext ==
  \/ create_fixed_initial_clauses \/ extend_dynamic_clauses_base
  \/ ExtendFurther \/ Restore \/ TryOther \/ UndoDynamic

BaseSpec == BaseInit /\ [][BaseNext]_base_vars
------------------------------------------------------------------------------
\* The clause numbers dp_CNF meets when it follows a list.
Members(v, sign) == SubSeq(lists[v][sign].cells, 1, lists[v][sign].end - 1)

(* Following a list meets the clauses that contain the literal, each once, *)
(* and no cell that is left from an earlier path (the planner's debug      *)
(* check, errors 1 to 4b).                                                 *)
ListsMatch ==
  \A v \in CodeRange, sign \in Signs :
    LET m == Members(v, sign) IN
    /\ ToSet(m) = {c \in 1..Len(gclauses) : Coded(v, sign) \in ToSet(gclauses[c])}
    /\ \A i, j \in 1..Len(m) : i < j => m[i] < m[j]

(* No two facts share a code, although restores keep gnum_c, and the       *)
(* literals in use have one.                                               *)
CodesInverse ==
  /\ \A x \in TimedFacts : gcodes[x] # -1 => gcodes[x] <= gnum_c /\ gcf_gct[gcodes[x]] = x
  /\ \A c \in 1..Len(gclauses) : \A k \in 1..Len(gclauses[c]) :
       LET l == gclauses[c][k] IN gcodes[gcf_gct[IF l > 0 THEN l ELSE -l]] = (IF l > 0 THEN l ELSE -l)

(* Every allocation ends in a free cell, and only there: no insertion runs *)
(* off the end, and no list in use is taken for a shorter one.             *)
AllocationsEnd ==
  \A v \in CodeRange, sign \in Signs :
    LET l == lists[v][sign] IN
    l.cells # <<>> =>
      /\ l.end \in 1..Len(l.cells)
      /\ \A k \in 1..Len(l.cells) : l.cells[k] = EndOfList <=> k = Len(l.cells)

(* The lists, the codes and the clauses fit together over every sequence   *)
(* of extensions, nested tests and undoes, and result_to_dest never finds  *)
(* a list it has to give up on.                                            *)
ListsMatchClauses == ListsMatch /\ CodesInverse /\ AllocationsEnd /\ base_pc # "exit"
==============================================================================
