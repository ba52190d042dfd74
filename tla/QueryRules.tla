----------------------------- MODULE QueryRules -----------------------------
(***************************************************************************)
(* The rewriting rules of minion/planner/query/rules.h.  A rule takes the  *)
(* graph and a node, appends clones and returns the node to use instead;   *)
(* it never changes a node that exists.  A rule that throws has already    *)
(* appended part of its clones: they stay in the graph, unused.            *)
(*                                                                         *)
(* A rule's result is [ok, g, node]; ok is FALSE when it threw.            *)
(***************************************************************************)
EXTENDS QueryGraph, SequencesExt

Threw(g)      == [ok |-> FALSE, g |-> g, node |-> NODE_NONE]
Gives(g, n)   == [ok |-> TRUE, g |-> g, node |-> n]
Clone(g, n)   == AppendRaw(g, Node(g, n))
AppendAll(g, nodes) == [g EXCEPT !.nodes = @ \o nodes]

(* The arguments whose operation has no negation. *)
Unnegatable(g, args) ==
  {i \in DOMAIN args : getNegatedOperation(Node(g, args[i]).op) = "INVALID"}

Negation(node) == [node EXCEPT !.op = getNegatedOperation(@)]

(* roll_constants_applies: a CONST whose arguments are all bare CONSTs. *)
roll_constants_applies(g, n) ==
  /\ Node(g, n).op = "CONST"
  /\ Args(g, n) # <<>>
  /\ \A c \in Range(Args(g, n)) : Node(g, c).op = "CONST" /\ Args(g, c) = <<>>

-----------------------------------------------------------------------------
DeMorganDual(op) ==
  CASE op = "AND"  -> "NOR"
    [] op = "OR"   -> "NAND"
    [] op = "NAND" -> "OR"
    [] op = "NOR"  -> "AND"
    [] OTHER       -> "INVALID"

(* The clone comes first, then one negated clone per argument up to the    *)
(* first argument that has no negation.                                    *)
demorgan_apply(g, n) ==
  LET args   == Args(g, n)
      bad    == Unnegatable(g, args)
      good   == IF bad = {} THEN Len(args) ELSE Min(bad) - 1
      root   == [Node(g, n) EXCEPT !.op = DeMorganDual(@),
                                   !.args = [i \in 1..good |-> Size(g) + i]]
      clones == [i \in 1..good |-> Negation(Node(g, args[i]))]
      left   == IF bad = {} THEN <<>> ELSE <<Node(g, args[Min(bad)])>>
  IN  IF DeMorganDual(Node(g, n).op) = "INVALID" THEN Threw(Clone(g, n))
      ELSE IF bad # {}
           THEN Threw(AppendAll(g, <<root>> \o clones \o left))
           ELSE Gives(AppendAll(g, <<root>> \o clones), Size(g))

-----------------------------------------------------------------------------
(* The arguments of a node, those with the given operation replaced by     *)
(* their own arguments.                                                    *)
Flattened(g, args, op) ==
  FlattenSeq([i \in DOMAIN args |->
    IF Node(g, args[i]).op = op THEN Args(g, args[i]) ELSE <<args[i]>>])

(* A clone with the flattened arguments. *)
MergedClone(g, n, op) ==
  Gives(AppendRaw(g, [Node(g, n) EXCEPT !.args = Flattened(g, @, op)]), Size(g))

merge_cummutative_numeric_apply(g, n) == MergedClone(g, n, Node(g, n).op)

MergedIntoItself(op) ==         \* faulty: NAND merges nested NANDs, and so on
  IF op \in {"AND", "NAND", "OR", "NOR", "XOR", "XNOR"} THEN op ELSE "INVALID"

(* The operation whose nested uses may be merged into op's arguments. *)
MergedInto(op) ==
  CASE op \in {"AND", "NAND"} -> "AND"
    [] op \in {"OR", "NOR"}   -> "OR"
    [] op \in {"XOR", "XNOR"} -> "XOR"
    [] OTHER                  -> "INVALID"

merge_cummutative_logic_apply(g, n) ==
  LET op == MergedInto(Node(g, n).op)
  IN  IF op = "INVALID" THEN Threw(Clone(g, n)) ELSE MergedClone(g, n, op)

-----------------------------------------------------------------------------
(* NOT becomes the negation of its argument, NOP the argument itself. *)
reduce_not_nop_apply(g, n) ==
  LET op == Node(g, n).op
  IN  IF op \notin {"NOT", "NOP"} \/ Len(Args(g, n)) # 1 THEN Threw(g)
      ELSE LET child == Args(g, n)[1]
           IN  IF op = "NOP" THEN Gives(g, child)
               ELSE IF getNegatedOperation(Node(g, child).op) = "INVALID"
                    THEN Threw(Clone(g, child))
                    ELSE Gives(AppendRaw(g, Negation(Node(g, child))), Size(g))

-----------------------------------------------------------------------------
ChildDfs(g, n) == {Node(g, c).df : c \in Range(Args(g, n))} \ {0}

(* Constants (df 0) go with every data frame; the other arguments must     *)
(* agree, and on another one than the node's.                              *)
pull_df_applies(g, n) ==
  /\ Node(g, n).df # 0
  /\ ChildDfs(g, n) # {}
  /\ \A d, e \in ChildDfs(g, n) : d = e
  /\ Node(g, n).df \notin ChildDfs(g, n)

PullFromLast(g, n) ==           \* faulty: the last argument decides
  Gives(AppendRaw(g, [Node(g, n) EXCEPT !.df = Node(g, Last(Args(g, n))).df]), Size(g))

(* The first argument that is not a constant decides. *)
pull_df_apply(g, n) ==
  LET args  == Args(g, n)
      from  == {i \in DOMAIN args : Node(g, args[i]).df # 0}
      df    == IF from = {} THEN 0 ELSE Node(g, args[Min(from)]).df
  IN  IF Node(g, n).df = 0 THEN Threw(g)
      ELSE Gives(AppendRaw(g, [Node(g, n) EXCEPT !.df = df]), Size(g))
=============================================================================
