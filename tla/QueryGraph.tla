----------------------------- MODULE QueryGraph -----------------------------
(***************************************************************************)
(* The query graph of minion/planner/query/graph.h: how nodes, names and   *)
(* constants are appended to it and what its operations are called.        *)
(*                                                                         *)
(* A graph is the record of its vectors.  operations and graph_mapping     *)
(* always grow together, so a node is one record with its argument list    *)
(* `args`; ids count from 0 and NODE_NONE is -1, as in the code.  A node's *)
(* `df` is NODE_NONE before fillDFIds, 0 for a constant, else the id of a  *)
(* table node.                                                             *)
(***************************************************************************)
EXTENDS Integers, Sequences

NODE_NONE == -1

EmptyGraph == [names |-> <<>>, nodes |-> <<>>,
               consts |-> [t \in {"Int64", "Float64", "String"} |-> <<>>]]

Size(g)    == Len(g.nodes)
Ids(g)     == 0..(Size(g) - 1)
Node(g, n) == g.nodes[n + 1]
Args(g, n) == Node(g, n).args

-----------------------------------------------------------------------------
(* Operations                                                              *)

(* enum ColumnOperation and, below, the enum ValueType that types a value. *)
Operations ==
  {"CONST", "ADD", "SUB", "MUL", "DIV", "NEG", "INV", "ABS", "SQRT", "EXP", "POW", "LN",
   "LOG", "NOT", "AND", "OR", "XOR", "NAND", "NOR", "XNOR", "EQ", "NEQ", "GT", "LT",
   "GTE", "LTE", "IN", "NOT_IN", "LIKE", "NOT_LIKE", "ILIKE", "NOT_ILIKE", "IS_NULL",
   "IS_NOT_NULL", "NULL", "TRUE", "FALSE", "MIN", "MAX", "SUM", "COUNT",
   "COUNT_DISTINCT", "AVG", "MEDIAN", "STD", "VAR", "COLUMN", "DESC", "TABLE", "DF",
   "FILTER", "RANGE", "GROUP", "SORT", "UNION", "NOP", "INVALID"}

ValueTypes ==
  {"Bool", "Int8", "UInt8", "Int16", "UInt16", "Int32", "UInt32", "Int64", "UInt64",
   "Float32", "Float64", "String", "Bytes", "Any", "JSON"}

ComparisonPairs == {<<"GT", "LTE">>, <<"LT", "GTE">>, <<"EQ", "NEQ">>}
LogicPairs      == {<<"AND", "NAND">>, <<"OR", "NOR">>, <<"XOR", "XNOR">>}
PredicatePairs  == {<<"IN", "NOT_IN">>, <<"LIKE", "NOT_LIKE">>,
                    <<"ILIKE", "NOT_ILIKE">>, <<"IS_NULL", "IS_NOT_NULL">>}
Opposites       == ComparisonPairs \cup LogicPairs \cup PredicatePairs

getNegatedOperation(op) ==
  CASE op = "NOT"  -> "NOP"
    [] op = "NULL" -> "NULL"
    [] \E p \in Opposites : op \in {p[1], p[2]} ->
         LET p == CHOOSE q \in Opposites : op \in {q[1], q[2]}
         IN  IF op = p[1] THEN p[2] ELSE p[1]
    [] OTHER -> "INVALID"

isCummutative(op) ==
  op \in {"AND", "NAND", "OR", "NOR", "XOR", "XNOR", "ADD", "MUL", "MIN", "MAX",
          "AVG", "COUNT", "COUNT_DISTINCT", "SUM", "MEDIAN", "VAR", "STD"}

isTableOperation(op) ==
  op \in {"TABLE", "DF", "FILTER", "RANGE", "SORT", "UNION"}

-----------------------------------------------------------------------------
(* Names                                                                   *)

(* appendName pushes the name even if the same text is there already. *)
setNodeName(g, n, name) ==
  [g EXCEPT !.names = Append(@, name), !.nodes[n + 1].name = Len(g.names)]

getNodeName(g, n) ==
  IF Node(g, n).name = NODE_NONE THEN "" ELSE g.names[Node(g, n).name + 1]

-----------------------------------------------------------------------------
(* Appending: the new node's id is the size the graph had before           *)

Blank == [op |-> "CONST", type |-> "Any", name |-> NODE_NONE,
          const |-> NODE_NONE, df |-> NODE_NONE, args |-> <<>>]

AppendRaw(g, node) == [g EXCEPT !.nodes = Append(@, node)]

(* appendInt64Constant, appendFloat64Constant, appendStringConstant: every *)
(* literal gets a slot and a node of its own.  df = 0 means "constant".    *)
appendConstant(g, type, value) ==
  [AppendRaw(g, [Blank EXCEPT !.type = type, !.df = 0,
                              !.const = Len(g.consts[type])])
     EXCEPT !.consts[type] = Append(@, value)]

appendColumn(g, name, type) ==
  [AppendRaw(g, [Blank EXCEPT !.op = "COLUMN", !.type = type,
                              !.name = Len(g.names)])
     EXCEPT !.names = Append(@, name)]

appendTable(g, name, cols) ==
  [AppendRaw(g, [Blank EXCEPT !.op = "TABLE", !.name = Len(g.names), !.args = cols])
     EXCEPT !.names = Append(@, name)]

appendNode(g, df, op, type, args) ==
  AppendRaw(g, [Blank EXCEPT !.op = op, !.type = type, !.df = df, !.args = args])

(* getNumericConstant of a scalar constant.  A constant of another type,   *)
(* or an id beyond its vector, throws invalid_argument.                    *)
isNumericConstant(g, node) ==
  /\ node.type \in {"Int64", "Float64"}
  /\ node.const \in 0..(Len(g.consts[node.type]) - 1)
getNumericConstant(g, node) == g.consts[node.type][node.const + 1]

-----------------------------------------------------------------------------
(* Scopes: a scope maps <<column>> and <<table, column>> to a node         *)

findIdent(ident, scope) ==
  IF ident \in DOMAIN scope THEN scope[ident] ELSE NODE_NONE

(* A later argument takes the key of an earlier one of the same name.  An  *)
(* argument without a name adds nothing.                                   *)
loadTableNames(scope, g, table, alias) ==
  LET cols    == Args(g, table)
      Key(q, n) == IF q = "" THEN <<getNodeName(g, n)>>
                   ELSE <<q, getNodeName(g, n)>>
      quals   == {"", alias}
      named   == {i \in DOMAIN cols : Node(g, cols[i]).name # NODE_NONE}
      LastOf(k) == CHOOSE i \in named :
                     /\ \E q \in quals : k = Key(q, cols[i])
                     /\ \A j \in named : (\E q \in quals : k = Key(q, cols[j])) => j <= i
      added   == {Key(q, cols[i]) : q \in quals, i \in named}
  IN  [k \in DOMAIN scope \cup added |->
         IF k \in added THEN cols[LastOf(k)] ELSE scope[k]]

-----------------------------------------------------------------------------
(* Data frames of the nodes                                                *)

(* fillDFIds: every table node that has no df yet becomes its own.         *)
(* fillDFIdsWalk means to number the node's other arguments too, but it    *)
(* calls itself with df_node_id instead of the child, finds that node      *)
(* numbered and returns: no argument ever gets a df.                       *)
fillDFIds(g) ==
  [g EXCEPT !.nodes =
     [i \in DOMAIN @ |->
        IF isTableOperation(@[i].op) /\ @[i].df = NODE_NONE
        THEN [@[i] EXCEPT !.df = i - 1] ELSE @[i]]]

(* `const auto &child_node = operations[child_id]` with the missing limit  *)
(* of a RANGE as child_id reads before the vector.                         *)
fillDFIdsReadsOutside(g) ==
  \E i \in DOMAIN g.nodes : /\ isTableOperation(g.nodes[i].op)
                            /\ g.nodes[i].df = NODE_NONE
                            /\ \E k \in DOMAIN g.nodes[i].args :
                                 g.nodes[i].args[k] = NODE_NONE
=============================================================================
