--------------------------- MODULE ConditionTrees ---------------------------
(***************************************************************************)
(* Conditions and effects as cocg_ast::Tree: an array of nodes in the      *)
(* order of a walk, the children by their index from 0.  A term is the     *)
(* expression itself; the helpers of cocg_pddl_parser/Utils.cpp work on    *)
(* the nodes.                                                              *)
(***************************************************************************)
EXTENDS Integers, Sequences, SequencesExt

CONSTANTS PredicateTypes,  \* predicate |-> the types each parameter accepts
          FunctionTypes,   \* the same for functions
          IdRange          \* 2^8: node ids are passed on as uint8_t

Term(type, name, args, value, parts) ==
  [type |-> type, name |-> name, args |-> args, value |-> value, parts |-> parts]
And(parts) == Term("AND", "", <<>>, 0, parts)
Or(parts) == Term("OR", "", <<>>, 0, parts)
Not(part) == Term("NOT", "", <<>>, 0, <<part>>)
Unknown(part) == Term("UNKNOWN", "", <<>>, 0, <<part>>)
OneOf(parts) == Term("ONE_OF", "", <<>>, 0, parts)
Predicate(name, args) == Term("PREDICATE", name, args, 0, <<>>)
Function(name, args) == Term("FUNCTION", name, args, 0, <<>>)
Number(n) == Term("NUMBER", "", <<>>, n, <<>>)
Expression(op, x, y) == Term("EXPRESSION", op, <<>>, 0, <<x, y>>)
Modifier(op, x, y) == Term("FUNCTION_MODIFIER", op, <<>>, 0, <<x, y>>)
ForAll(type, part) == Term("FOR_ALL", type, <<>>, 0, <<part>>)

(* getTree of the parsed conditions: a node, then those of its parts.      *)
RECURSIVE NodesFrom(_, _)

NodesFrom(t, base) ==
  LET add(acc, p) == [ids |-> Append(acc.ids, base + 1 + Len(acc.nodes)),
                      nodes |-> acc.nodes \o NodesFrom(p, base + 1 + Len(acc.nodes))]
      below == FoldLeft(add, [ids |-> <<>>, nodes |-> <<>>], t.parts)
  IN  <<[type |-> t.type, name |-> t.name, args |-> t.args, value |-> t.value,
         children |-> below.ids]>> \o below.nodes
Nodes(t) == NodesFrom(t, 0)

At(tree, id) == tree[id + 1]

\* The term a tree stands for, from one of its nodes.
RECURSIVE TermAt(_, _)
TermAt(tree, id) ==
  LET n == At(tree, id) IN
  Term(n.type, n.name, n.args, n.value, [i \in DOMAIN n.children |-> TermAt(tree, n.children[i])])
-----------------------------------------------------------------------------
(* getPredicates, getFunctions: the facts below a node in the order of the *)
(* tree; functions without those that were seen, and not below NOT or AND. *)
RECURSIVE PredicatesAt(_, _, _)
PredicatesAt(tree, id, negate) ==
  LET n == At(tree, id)
      below(sign) == FlattenSeq([i \in DOMAIN n.children |-> PredicatesAt(tree, n.children[i], sign)])
  IN  IF n.type = "PREDICATE" THEN <<[fact |-> <<n.name, n.args>>, negate |-> negate]>>
      ELSE IF n.type = "NOT" THEN below(~ negate)
      ELSE IF n.type \in {"AND", "OR", "UNKNOWN", "ONE_OF"} THEN below(negate)
      ELSE <<>>
getPredicates(tree) == PredicatesAt(tree, 0, FALSE)

RECURSIVE FunctionsAt(_, _)
FunctionsAt(tree, id) ==
  LET n == At(tree, id) IN
  IF n.type = "FUNCTION" THEN {<<n.name, n.args>>}
  ELSE IF n.type \in {"EXPRESSION", "FUNCTION_MODIFIER"}
       THEN UNION {FunctionsAt(tree, n.children[i]) : i \in DOMAIN n.children}
  ELSE {}
getFunctions(tree) == FunctionsAt(tree, 0)

(* getSubtrees: the parts of a conjunction, each with ids from 0 again.    *)
RECURSIVE SubtreeFrom(_, _, _)
SubtreeFrom(tree, id, base) ==
  LET add(acc, c) == [ids |-> Append(acc.ids, base + 1 + Len(acc.nodes)),
                      nodes |-> acc.nodes \o SubtreeFrom(tree, c, base + 1 + Len(acc.nodes))]
      below == FoldLeft(add, [ids |-> <<>>, nodes |-> <<>>], At(tree, id).children)
  IN  <<[At(tree, id) EXCEPT !.children = below.ids]>> \o below.nodes
getSubtrees(tree) ==
  IF tree = <<>> \/ tree[1].type # "AND" THEN <<>>
  ELSE [i \in DOMAIN tree[1].children |-> SubtreeFrom(tree, tree[1].children[i], 0)]

(* fromSubtrees: a root, and the subtrees with their ids shifted; no tree  *)
(* for other roots and for no parts.                                       *)
fromSubtrees(subtrees, type) ==
  LET shifted(s, by) == [i \in DOMAIN s |->
                           [s[i] EXCEPT !.children = [j \in DOMAIN s[i].children |-> s[i].children[j] + by]]]
      add(tree, s) == [tree EXCEPT ![1].children = Append(@, Len(tree))] \o shifted(s, Len(tree))
  IN  IF subtrees = <<>> \/ type \notin {"AND", "OR"} THEN <<>>
      ELSE FoldLeft(add, <<[type |-> type, name |-> "", args |-> <<>>, value |-> 0, children |-> <<>>]>>, subtrees)
-----------------------------------------------------------------------------
(* isValidPredicate, isValidFunction: arity and types of the instances.    *)
Fits(table, n, instances) ==
  /\ n.name \in DOMAIN table
  /\ Len(n.args) = Len(table[n.name])
  /\ \A i \in DOMAIN n.args :
       n.args[i] \in DOMAIN instances /\ instances[n.args[i]] \in table[n.name][i]
isValidPredicate(n, instances) == Fits(PredicateTypes, n, instances)
isValidFunction(n, instances) == Fits(FunctionTypes, n, instances)

EveryPart(n, check(_)) == \A i \in DOMAIN n.children : check(n.children[i])

(* checkPredicateTreeTypes: an id is cut to its width.  The walk ends when *)
(* the ids fit.                                                            *)
RECURSIVE CheckTypes(_, _, _)
CheckTypes(tree, at, instances) ==
  LET id == at % IdRange
      check(c) == CheckTypes(tree, c, instances)
  IN  /\ id < Len(tree)
      /\ \/ At(tree, id).type = "NUMBER"
         \/ At(tree, id).type = "PREDICATE" /\ isValidPredicate(At(tree, id), instances)
         \/ At(tree, id).type = "FUNCTION" /\ isValidFunction(At(tree, id), instances)
         \/ /\ At(tree, id).type = "UNKNOWN" => Len(At(tree, id).children) = 1
            /\ At(tree, id).type \in {"AND", "OR", "NOT", "UNKNOWN", "ONE_OF", "EXPRESSION", "FUNCTION_MODIFIER"}
            /\ EveryPart(At(tree, id), check)
checkPredicateTreeTypes(tree, instances) == CheckTypes(tree, 0, instances)
=============================================================================
