---------------------------- MODULE QueryPlanner ----------------------------
(***************************************************************************)
(* From a query to a graph that an executor could take: parseAndPrintSQL   *)
(* (visit the tree, fillDFIds), then the rewriting rules and the           *)
(* compaction that graph.h and rules.h offer.  The program prints the      *)
(* graph after fillDFIds; the steps after that have no caller in the       *)
(* repository yet, so any rule may be tried on any node and the graph may  *)
(* be compacted to any node that a rule returned, or to the query's.       *)
(* The visits are a parameter here; QueryText takes them from the visitor. *)
(***************************************************************************)
EXTENDS QuerySemantics, QueryRules, QueryWalks

CONSTANTS
  Visits,       \* what the visit of each query returns: sequence of [g, node, err, refs]
  MaxRewrites,  \* rules tried on one graph (bound)
  Samples       \* values a column takes when two expressions are compared

ASSUME SamplesAssumption  == Samples \subseteq Value /\ IsFiniteSet(Samples)
ASSUME RewritesAssumption == MaxRewrites \in Nat

VARIABLES
  query,        \* index of the query
  phase,        \* "text", "parsed", "numbered", "compact" or "failed"
  out,          \* what the visit of the tree returned: see Visits
  g,            \* the graph
  before,       \* history: the graph before it was compacted
  root,         \* the node the graph is about
  last,         \* the last rule tried: [rule, node, result, ok]
  tried         \* number of rules tried

vars == <<query, phase, out, g, before, root, last, tried>>

NoRule == [rule |-> "none", node |-> NODE_NONE, result |-> NODE_NONE, ok |-> FALSE]

NoVisit == [g |-> EmptyGraph, node |-> NODE_NONE, err |-> "", refs |-> {}]

Init ==
  /\ query \in DOMAIN Visits
  /\ phase = "text" /\ out = NoVisit /\ root = NODE_NONE
  /\ g = EmptyGraph /\ before = EmptyGraph
  /\ last = NoRule /\ tried = 0

Parse ==
  /\ phase = "text"
  /\ out' = Visits[query]
  /\ phase' = IF out'.err = "" THEN "parsed" ELSE "failed"
  /\ g' = out'.g /\ root' = out'.node
  /\ UNCHANGED <<query, before, last, tried>>

(* A read outside operations may do anything; it ends the run here. *)
NumberDataFrames ==
  /\ phase = "parsed"
  /\ IF fillDFIdsReadsOutside(g)
     THEN phase' = "failed" /\ UNCHANGED g
     ELSE phase' = "numbered" /\ g' = fillDFIds(g)
  /\ UNCHANGED <<query, out, before, root, last, tried>>

Rules == {"demorgan", "merge_numeric", "merge_logic", "reduce_not", "pull_df"}

(* merge_cummutative_numeric checks no operation: its name is its contract. *)
MayTry(rule, n) ==
  CASE rule = "merge_numeric" -> Node(g, n).op \in {"ADD", "MUL", "MIN", "MAX"}
    [] rule = "pull_df"       -> pull_df_applies(g, n)
    [] OTHER                  -> TRUE

Applied(rule, n) ==
  CASE rule = "demorgan"      -> demorgan_apply(g, n)
    [] rule = "merge_numeric" -> merge_cummutative_numeric_apply(g, n)
    [] rule = "merge_logic"   -> merge_cummutative_logic_apply(g, n)
    [] rule = "reduce_not"    -> reduce_not_nop_apply(g, n)
    [] rule = "pull_df"       -> pull_df_apply(g, n)

Rewrite(rule, n) ==
  /\ phase = "numbered" /\ tried < MaxRewrites
  /\ MayTry(rule, n)
  /\ LET r == Applied(rule, n)
     IN  /\ g' = r.g
         /\ last' = [rule |-> rule, node |-> n, result |-> r.node, ok |-> r.ok]
  /\ tried' = tried + 1
  /\ UNCHANGED <<query, phase, out, before, root>>

Compact ==
  /\ phase = "numbered"
  /\ \E from \in {root, last.result} \ {NODE_NONE} :
       \E order \in visitedNodesOrders(VisitedFrom(Mapping(g), from)) :
          /\ g' = compact(g, visitedLeaveMap(order))
          /\ root' = visitedLeaveMap(order)[from]
          /\ last' = [NoRule EXCEPT !.node = from]
  /\ before' = g
  /\ phase' = "compact"
  /\ UNCHANGED <<query, out, tried>>

Next ==
  \/ Parse
  \/ NumberDataFrames
  \/ \E rule \in Rules, n \in Ids(g) : Rewrite(rule, n)
  \/ Compact

Spec == Init /\ [][Next]_vars

-----------------------------------------------------------------------------
(* What an expression means                                                *)

(* A column's value per column node. *)
ColumnNodes(h) == {n \in Ids(h) : Node(h, n).op = "COLUMN"}
Valuations(h)  == [ColumnNodes(h) -> Samples]

ConstantIn(h, node) == h.consts[node.type][node.const + 1]

(* The value of a node, from the values of its arguments. *)
ValueFrom(h, n, val, values) ==
  LET node == Node(h, n)
  IN  CASE node.op = "COLUMN" -> val[n]
        [] node.op = "CONST"  -> ConstantIn(h, node)
        [] OTHER -> Apply(node.op, values)

ValueIn(h, n, val) ==
  LET V[m \in Ids(h)] == ValueFrom(h, m, val, [i \in DOMAIN Args(h, m) |-> V[Args(h, m)[i]]])
  IN  V[n]

(* A node with its arguments in the place of their ids. *)
TermOf(h, n) ==
  LET T[m \in Ids(h)] ==
        [Node(h, m) EXCEPT !.args = [i \in DOMAIN Args(h, m) |-> T[Args(h, m)[i]]]]
  IN  T[n]

-----------------------------------------------------------------------------
(* Properties                                                              *)

Types == {"Int64", "Float64", "String"}

(* A node of a graph, and what getNumericConstant and arithmetic need of   *)
(* it: its constant is in its vector, and there is something to add.       *)
AnyNode == [op : Operations, type : ValueTypes, name : Int, const : Int, df : Int,
            args : Seq(Int)]

Sound(h, node) ==
  /\ node.op = "CONST" => /\ node.type \in Types
                          /\ node.const \in 0..(Len(h.consts[node.type]) - 1)
  /\ node.op \in Numeric => node.args # <<>>

(* "Assume nodes are in parsing order" (graph.h:459): in the graph a visit *)
(* returns, whatever clauses and nested queries it went through, a node's  *)
(* arguments were appended before it; only the end of a RANGE without a    *)
(* LIMIT is missing, and the walk that numbers data frames will meet it.   *)
ParsingOrder ==
  phase \in {"parsed", "failed"} =>
    /\ out.g \in [names : Seq(STRING), nodes : Seq(AnyNode), consts : [Types -> Seq(Int)]]
    /\ \A n \in Ids(out.g) :
         /\ Sound(out.g, Node(out.g, n))
         /\ \A i \in DOMAIN Args(out.g, n) :
              \/ Args(out.g, n)[i] \in 0..(n - 1)
              \/ /\ Args(out.g, n)[i] = NODE_NONE
                 /\ Node(out.g, n).op = "RANGE" /\ Node(out.g, n).df = NODE_NONE /\ i = 3
    /\ out.err = "" => out.node \in Ids(out.g)

(* Nested queries, joins and failed visits leave no identifier behind:     *)
(* whatever a name was resolved to is an argument of a relation in the     *)
(* FROM clause of the very SELECT that names it, as far as it was read.    *)
ScopeIsFrom ==
  \A ref \in out.refs : \E t \in ref[1] : ref[2] \in Range(Args(out.g, t))

(* A schema table is in the graph once, however often and at whatever      *)
(* depth it is named, so that its columns are the same nodes everywhere.   *)
OneNodePerTable ==
  \A m, n \in Ids(out.g) :
    /\ Node(out.g, m).op = "TABLE" /\ Node(out.g, n).op = "TABLE"
    /\ getNodeName(out.g, m) = getNodeName(out.g, n)
    => m = n

(* A rule that returns a node returns one with the meaning of the node it  *)
(* was tried on, NULLs included, also when it is tried on what another     *)
(* rule returned or left behind: equal as a truth value, and as a number   *)
(* for merge_numeric.                                                      *)
RulesKeepMeaning ==
  phase = "numbered" /\ last.ok /\ last.rule # "pull_df" =>
    \A val \in Valuations(g) :
      LET old == ValueIn(g, last.node, val)
          new == ValueIn(g, last.result, val)
      IN  IF last.rule = "merge_numeric" THEN old = new ELSE TruthOf(old) = TruthOf(new)

(* pull_df_apply settles: where pull_df_applies, the node it returns is in *)
(* the data frame of one of its arguments and the rule no longer applies   *)
(* to it.                                                                  *)
PullSettles ==
  phase = "numbered" /\ last.rule = "pull_df" =>
    /\ last.ok
    /\ ~pull_df_applies(g, last.result)
    /\ Node(g, last.result).df \in ChildDfs(g, last.node)

(* Compaction keeps what the root computes: operations, names, constants   *)
(* and arguments in their order, whatever order std::sort chose and        *)
(* whatever clones the rules left behind.  `df` is copied: it still holds  *)
(* ids of the old graph.                                                   *)
CompactionKeepsTerm ==
  phase = "compact" => TermOf(g, root) = TermOf(before, last.node)

(* Deepest first puts an argument before the node that uses it, unless     *)
(* another node uses it as well.                                           *)
LeavesFirst ==
  phase = "compact" =>
    \A n \in Ids(g) : \A c \in Range(Args(g, n)) :
      c < n \/ \E p \in Ids(g) \ {n} : c \in Range(Args(g, p))

(* A graph survives its edge list up to nodes after the last one an edge   *)
(* names, and the reverted graph has an edge back for each, as often.      *)
EdgesRoundTrip ==
  LET m     == Mapping(g)
      again == getGraphMapping(getEdgesList(m))
      back  == revertGraphMapping(m)
      Count(s, x) == Cardinality({i \in DOMAIN s : s[i] = x})
  IN  phase = "numbered" =>
        /\ \A n \in DOMAIN m : IF n \in DOMAIN again THEN again[n] = m[n] ELSE m[n] = <<>>
        /\ \A n \in DOMAIN again : Range(again[n]) \subseteq DOMAIN again
        /\ \A n, c \in DOMAIN m : Count(back[c], n) = Count(m[n], c)

(* Two nodes of a compact graph with the same term, data frames included,  *)
(* get the same hash when arguments are hashed before the nodes that use   *)
(* them, so that equal subexpressions can be found by their hashes.        *)
EqualTermsHashEqually ==
  LET hashes == fillNodeHashes(g, [i \in 1..Size(g) |-> i - 1])
  IN  /\ phase = "compact"
      /\ \A n \in Ids(g) : \A c \in Range(Args(g, n)) : c < n
      => \A m, n \in Ids(g) :
           TermOf(g, m) = TermOf(g, n) => hashes[m] = hashes[n]
=============================================================================
