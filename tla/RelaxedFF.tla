------------------------------ MODULE RelaxedFF ------------------------------
(***************************************************************************)
(* Heuristic 3 of Contingent-FF (relax_ff.c): FF's relaxed plan from the   *)
(* facts known and unknown, deletes ignored.  The tables live in the       *)
(* connectivity graph and are kept from one call to the next: a call       *)
(* resets what it changed, by lists of what it changed.                    *)
(***************************************************************************)
EXTENDS BeliefSpace

CONSTANTS Tasks,     \* [ops, goal, beliefs, together: facts tied at the start]
          MaxCalls,  \* bound on the calls
          MaxLevel   \* bound on the layers of the tasks

INFINITY == MaxLevel + 1

VARIABLES task, S, calls, pc,
          A,                                \* gA: the applicable operators
          inF, inE, level, eflevel,         \* the fixpoint
          active, changed,                  \* num_active_PCs; effects with ch
          time,
          goals_at, is_true, is_goal,       \* extraction
          touched,                          \* lff_ch_F
          in_plan, is_used, h, gH

fixpoint == <<inF, inE, level, eflevel, active, changed>>
search == <<goals_at, is_true, is_goal, touched, in_plan, is_used, h>>
vars == <<task, S, calls, pc, A, fixpoint, time, search, gH>>

\* An effect with its operator; its conditions and the preconditions.
EffectsOf(t) == UNION {{<<o, e>> : e \in t.ops[o].effs} : o \in DOMAIN t.ops}
FactsOf(t) == t.goal \union UNION {b.F \union b.U : b \in t.beliefs}
                \union UNION {t.ops[x[1]].pre \union x[2].C \union x[2].A \union x[2].D : x \in EffectsOf(t)}
PC(ef) == task.ops[ef[1]].pre \union ef[2].C
Implied(ef) == {x \in EffectsOf(task) : x[1] = ef[1] /\ x # ef /\ PC(x) \subseteq PC(ef)}
EPC(o) == task.ops[o].pre \union UNION {e.C : e \in task.ops[o].effs}

(* sio_get_list_fct: facts tied by equivalences and clauses of the initial *)
(* state share their observations.                                         *)
Tied(f) ==
  LET grow[i \in Nat] == IF i = 0 THEN {f}
                         ELSE grow[i - 1] \union UNION {T \in task.together : T \intersect grow[i - 1] # {}}
  IN  grow[Cardinality(FactsOf(task))]
Oind(f) == {o \in DOMAIN task.ops : task.ops[o].obs \intersect Tied(f) # {}}

Init ==
  /\ task \in Tasks
  /\ S = [F |-> {}, U |-> {}] /\ calls = 0 /\ pc = "idle" /\ A = {}
  /\ inF = {} /\ inE = {} /\ time = 0
  /\ level = [f \in FactsOf(task) |-> INFINITY]
  /\ eflevel = [x \in EffectsOf(task) |-> INFINITY]
  /\ active = [x \in EffectsOf(task) |-> 0] /\ changed = {}
  /\ goals_at = [t \in 0..MaxLevel |-> {}]
  /\ is_true = [f \in FactsOf(task) |-> INFINITY]
  /\ is_goal = {} /\ touched = {} /\ in_plan = {} /\ h = 0 /\ gH = {}
  /\ is_used = [o \in DOMAIN task.ops |-> INFINITY]

(* get_A, then ff_initialize_fixpoint: what is unknown is taken to hold.   *)
Call(b) ==
  /\ pc = "idle" /\ calls < MaxCalls
  /\ S' = b /\ calls' = calls + 1
  /\ A' = {o \in DOMAIN task.ops : task.ops[o].pre \subseteq b.F}
  /\ inF' = b.F \union b.U /\ inE' = {} /\ changed' = {} /\ time' = 0
  /\ gH' = {} /\ pc' = "build"
  /\ UNCHANGED <<task, level, eflevel, active, search>>
------------------------------------------------------------------------------
(* ff_build_fixpoint, one layer: the new facts are counted at the effects  *)
(* that need them, effects with all facts are new, and so are their adds.  *)
NewFacts == {f \in inF : level[f] = INFINITY}
Touching(N) == {x \in EffectsOf(task) : PC(x) \intersect N # {}}

GoalsActivated ==
  /\ pc = "build" /\ task.goal \subseteq inF
  /\ level' = [f \in DOMAIN level |-> IF f \in task.goal /\ level[f] = INFINITY THEN time ELSE level[f]]
  /\ pc' = "goals"
  /\ UNCHANGED <<task, S, calls, A, inF, inE, eflevel, active, changed, time, search, gH>>

BuildLayer ==
  /\ pc = "build" /\ ~ task.goal \subseteq inF
  /\ LET N == NewFacts IN
     /\ level' = [f \in DOMAIN level |-> IF f \in N THEN time ELSE level[f]]
     /\ active' = [x \in DOMAIN active |-> active[x] + Cardinality(PC(x) \intersect N)]
     /\ changed' = changed \union Touching(N)
     /\ LET E == {x \in Touching(N) : active'[x] = Cardinality(PC(x))}
                   \union {x \in EffectsOf(task) : time = 0 /\ PC(x) = {}}
        IN  /\ inE' = inE \union E
            /\ eflevel' = [x \in DOMAIN eflevel |-> IF x \in E \ inE THEN time ELSE eflevel[x]]
            /\ inF' = inF \union UNION {x[2].A : x \in E}
  /\ pc' = IF inF' = inF THEN "goals" ELSE pc
  /\ time' = IF inF' = inF THEN time ELSE time + 1
  /\ UNCHANGED <<task, S, calls, A, search, gH>>
------------------------------------------------------------------------------
(* ff_extract_1P: what the last extraction changed is reset, the goals are *)
(* put at their levels.  Without relaxed plan the flags of the goals met   *)
(* before are left for the next reset.                                     *)
ResetTrue == [f \in DOMAIN is_true |-> IF f \in touched THEN INFINITY ELSE is_true[f]]

InitializeGoals ==
  LET reached == {f \in task.goal : level[f] < INFINITY} IN
  /\ pc = "goals"
  /\ is_true' = ResetTrue
  /\ is_used' = [o \in DOMAIN is_used |-> INFINITY]
  /\ in_plan' = {}
  /\ IF reached = task.goal
     THEN /\ goals_at' = [t \in 0..MaxLevel |-> {f \in task.goal : level[f] = t}]
          /\ is_goal' = (is_goal \ touched) \union task.goal
          /\ touched' = task.goal
          /\ time' = CHOOSE t \in {level[f] : f \in task.goal} : \A f \in task.goal : level[f] <= t
          /\ h' = 0 /\ pc' = "extract"
     ELSE /\ \E some \in SUBSET reached :
               is_goal' = (is_goal \ touched) \union some /\ touched' = some
          /\ h' = INFINITY /\ pc' = "reset"
          /\ UNCHANGED <<goals_at, time>>
  /\ UNCHANGED <<task, S, calls, A, fixpoint, gH>>

Sum(X) == LET total[Y \in SUBSET X] == IF Y = {} THEN 0
                                       ELSE LET y == CHOOSE z \in Y : TRUE IN level[y] + total[Y \ {y}]
          IN  total[X]

Adders(f) == {x \in EffectsOf(task) : f \in x[2].A /\ eflevel[x] = time - 1}
Cheapest(X) == {x \in X : \A y \in X : Sum(PC(x)) <= Sum(PC(y))}

\* An operator of this step that adds the fact can be ordered before.
Subgoals(x) == {f \in PC(x) : is_true[f] # time /\ f \notin is_goal}

Steps(x) == IF is_used[x[1]] = time THEN 0 ELSE 1

(* ff_achieve_goals, one goal, by an adder of the layer before.            *)
AchieveGoal(f) ==
  /\ pc = "extract" /\ time > 0 /\ f \in goals_at[time]
  /\ \/ /\ is_true[f] = time
        /\ goals_at' = [goals_at EXCEPT ![time] = @ \ {f}]
        /\ UNCHANGED <<is_true, is_goal, touched, in_plan, is_used, h>>
     \/ /\ is_true[f] # time
        /\ \E x \in Cheapest(Adders(f)) :
             LET made == x[2].A \union UNION {y[2].A : y \in Implied(x)} IN
             /\ goals_at' = [t \in DOMAIN goals_at |->
                               (goals_at[t] \ {f}) \union {g \in Subgoals(x) : level[g] = t}]
             /\ is_goal' = is_goal \union Subgoals(x)
             /\ is_true' = [g \in DOMAIN is_true |-> IF g \in made THEN time ELSE is_true[g]]
             /\ touched' = touched \union Subgoals(x) \union made
             /\ in_plan' = in_plan \union {x}
             /\ is_used' = [is_used EXCEPT ![x[1]] = time]
             /\ h' = h + Steps(x)
  /\ UNCHANGED <<task, S, calls, pc, A, fixpoint, time, gH>>

(* The goals of the first layer are kept for the helpful actions.          *)
FirstGoals == {f \in is_goal : level[f] = 1}

NextLevel ==
  /\ pc = "extract" /\ time > 0 /\ goals_at[time] = {}
  /\ time' = time - 1
  /\ UNCHANGED <<task, S, calls, pc, A, fixpoint, search, gH>>

(* ff_collect_H_info: the applicable operators that achieve a subgoal in   *)
(* one step; for the others the observations that could tell their         *)
(* conditions; and the observations of unknown goals.                      *)
Helpful ==
  LET first == {x \in EffectsOf(task) : eflevel[x] = 0 /\ x[2].A \intersect FirstGoals # {}}
  IN  {x[1] : x \in {y \in first : y[1] \in A}}
        \union UNION {UNION {Oind(f) : f \in EPC(x[1])} : x \in {y \in first : y[1] \notin A}}
        \union UNION {Oind(f) : f \in task.goal \intersect S.U}

CollectH ==
  /\ pc = "extract" /\ time = 0
  /\ gH' = Helpful
  /\ pc' = "reset"
  /\ UNCHANGED <<task, S, calls, A, fixpoint, time, search>>

\* Mutant: only effects that were reached are reset.
ResetActiveReached == [x \in DOMAIN active |-> IF x \in inE THEN 0 ELSE active[x]]

ResetActive == [x \in DOMAIN active |-> IF x \in changed THEN 0 ELSE active[x]]

ff_reset_fixpoint ==
  /\ pc = "reset"
  /\ level' = [f \in DOMAIN level |-> IF f \in inF THEN INFINITY ELSE level[f]]
  /\ eflevel' = [x \in DOMAIN eflevel |-> IF x \in inE THEN INFINITY ELSE eflevel[x]]
  /\ active' = ResetActive
  /\ pc' = "idle"
  /\ UNCHANGED <<task, S, calls, A, inF, inE, changed, time, search, gH>>

Next ==
  \/ \E b \in task.beliefs : Call(b)
  \/ GoalsActivated \/ BuildLayer
  \/ InitializeGoals \/ NextLevel \/ CollectH
  \/ \E f \in FactsOf(task) : AchieveGoal(f)
  \/ ff_reset_fixpoint

ff_get_1P_and_H == Init /\ [][Next]_vars
------------------------------------------------------------------------------
(* What can be reached when nothing is deleted, layer by layer, using the  *)
(* effects in E.                                                           *)
Layers(E) ==
  LET X[i \in 0..MaxLevel] ==
        IF i = 0 THEN S.F \union S.U
        ELSE X[i - 1] \union UNION {x[2].A : x \in {y \in E : PC(y) \subseteq X[i - 1]}}
  IN  X

(* A fact has the level at which it can first be true, whatever was built  *)
(* in earlier calls, and a goal is given up only if it cannot be reached.  *)
LevelsExact ==
  pc \in {"goals", "extract"} =>
    LET X == Layers(EffectsOf(task)) IN
    /\ \A f \in DOMAIN level : level[f] < INFINITY =>
         f \in X[level[f]] /\ (level[f] > 0 => f \notin X[level[f] - 1])
    /\ \A f \in task.goal : level[f] = INFINITY => f \notin X[MaxLevel]

(* The effects selected are a relaxed plan: in some order they reach all   *)
(* goals, although a fact may be taken from an effect of the same step.    *)
RelaxedPlanWorks ==
  pc = "reset" /\ h < INFINITY =>
    task.goal \subseteq Layers(in_plan \union UNION {Implied(x) : x \in in_plan})[MaxLevel]

\* The value is the number of operators used, each once per step.
CountsSteps ==
  pc = "reset" /\ h < INFINITY => h = Cardinality({<<x[1], eflevel[x]>> : x \in in_plan})

(* An operator the relaxed plan starts with is helpful, or something that  *)
(* shows whether it can be applied is.                                     *)
PlanStartsHelpful ==
  pc = "reset" /\ h < INFINITY =>
    \A x \in in_plan : eflevel[x] = 0 => x[1] \in gH \/ (x[1] \notin A /\ \A f \in EPC(x[1]) : Oind(f) \subseteq gH)

(* A call is answered as from a fresh start, whatever the calls before it  *)
(* left in the tables.                                                     *)
RelaxedPlanRight == LevelsExact /\ RelaxedPlanWorks /\ CountsSteps /\ PlanStartsHelpful
==============================================================================
