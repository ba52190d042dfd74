----------------------------- MODULE SqlVisitor -----------------------------
(***************************************************************************)
(* The visitor of minion/planner/parse/parse_query.cc that turns a parsed  *)
(* SQL query into a query graph.  The syntax tree is a record per rule of  *)
(* grammar/sql.g4 that matters; an absent part is NoExpr, "" or <<>>.      *)
(*                                                                         *)
(* A visit takes and returns the visitor's state s:                        *)
(*   g        out_graph                                                    *)
(*   file     fileTableContext: schema tables met so far                   *)
(*   with     withTableContext: common table expressions                   *)
(*   vars     exprVarContext: what identifiers mean in the current SELECT  *)
(*   node     the node the visit returned, list the nodes of a list        *)
(*   err      "" or why the visit threw: "compile" for SqlCompileError,    *)
(*            "uncaught" for an exception parseAndPrintSQL does not catch, *)
(*            "undefined" for a read outside a vector                      *)
(*   from, refs   history: the tables of the current SELECT's FROM, and    *)
(*            every <<from, node>> an identifier was resolved to           *)
(* A visit of a state with an error is that state: the exception passes.   *)
(***************************************************************************)
EXTENDS QueryGraph, SequencesExt

CONSTANTS
  Schema,       \* the tables of db_schema: sequence of [name, cols], cols of [name, type]
  NameOrder     \* every column name and alias, in the order of std::map

NoExpr  == [k |-> "none"]
NoScope == <<>>

Start == [g |-> EmptyGraph, file |-> NoScope, with |-> NoScope, vars |-> NoScope,
          node |-> NODE_NONE, list |-> <<>>, err |-> "", from |-> {}, refs |-> {}]

Ok(s)         == s.err = ""
Fail(s, e)    == [s EXCEPT !.err = e]
Built(s, g)   == [s EXCEPT !.g = g, !.node = Size(g) - 1]
Make(s, df, op, type, args) ==
  IF Ok(s) THEN Built(s, appendNode(s.g, df, op, type, args)) ELSE s
MakeAny(s, op, args) == Make(s, NODE_NONE, op, "Any", args)

Bind(scope, key, n) == [k \in DOMAIN scope \cup {key} |-> IF k = key THEN n ELSE scope[k]]

(* Visits every element of a sequence, in order. *)
Listed(s, list) == IF Ok(s) THEN [s EXCEPT !.list = Append(list, s.node)] ELSE s

VisitList(Visit(_, _), es, s) ==
  FoldLeft(LAMBDA acc, e : Listed(Visit(e, acc), acc.list), [s EXCEPT !.list = <<>>], es)

-----------------------------------------------------------------------------
(* Tables                                                                  *)

TableBeforeColumns(g, schema) ==    \* faulty: the table is appended first
  LET AddColumn(h, col) == appendColumn(h, col.name, col.type)
  IN  FoldLeft(AddColumn,
               appendTable(g, schema.name,
                           [i \in DOMAIN schema.cols |-> Size(g) + i]),
               schema.cols)

(* The columns are appended before their table. *)
insertTableColumnNodes(g, schema) ==
  LET AddColumn(h, col) == appendColumn(h, col.name, col.type)
  IN  appendTable(FoldLeft(AddColumn, g, schema.cols), schema.name,
                  [i \in DOMAIN schema.cols |-> Size(g) + i - 1])

InsertEveryTime(name, s) ==         \* faulty: schema tables are not remembered
  LET tables == {i \in DOMAIN Schema : Schema[i].name = name}
  IN  IF tables = {} THEN Fail(s, "compile")
      ELSE Built(s, insertTableColumnNodes(s.g, Schema[Min(tables)]))

(* A schema table that was met before wins over a common table expression  *)
(* of its name, and that over a schema table not met yet.  A GROUP node is *)
(* no table operation: a grouped expression cannot be named in FROM.       *)
findOrInsertTable(name, s) ==
  LET known  == IF name \in DOMAIN s.file THEN findIdent(name, s.file)
                ELSE findIdent(name, s.with)
      tables == {i \in DOMAIN Schema : Schema[i].name = name}
      g      == insertTableColumnNodes(s.g, Schema[Min(tables)])
  IN  IF known # NODE_NONE
      THEN IF isTableOperation(Node(s.g, known).op) THEN [s EXCEPT !.node = known]
           ELSE Fail(s, "compile")
      ELSE IF tables = {} THEN Fail(s, "compile")
      ELSE [Built(s, g) EXCEPT !.file = Bind(@, name, Size(g) - 1)]

-----------------------------------------------------------------------------
(* Expressions                                                             *)

opMap ==
  {<<"+", "ADD">>, <<"-", "SUB">>, <<"*", "MUL">>, <<"/", "DIV">>,
   <<"NOT", "NOT">>, <<"!=", "NEQ">>, <<"<>", "NEQ">>, <<"<=", "LTE">>,
   <<">=", "GTE">>, <<"<", "LT">>, <<">", "GT">>, <<"=", "EQ">>, <<"==", "EQ">>,
   <<"LIKE", "LIKE">>, <<"NOTLIKE", "NOT_LIKE">>, <<"ILIKE", "ILIKE">>,
   <<"NOTILIKE", "NOT_ILIKE">>, <<"ISNULL", "IS_NULL">>,
   <<"ISNOTNULL", "IS_NOT_NULL">>}

(* The operator's text, without blanks and in capitals, through opMap. *)
appendOperation(s, token, args) ==
  IF ~Ok(s) THEN s
  ELSE IF \E p \in opMap : p[1] = token
       THEN MakeAny(s, (CHOOSE p \in opMap : p[1] = token)[2], args)
       ELSE Fail(s, "compile")

(* NULL, TRUE and FALSE are nodes of their own operation. *)
visitLiteralExpr(e, s) ==
  IF e.type = "Null" THEN Make(s, 0, "NULL", "Any", <<>>)
  ELSE IF e.type = "Bool"
       THEN Make(s, 0, IF e.value = 1 THEN "TRUE" ELSE "FALSE", "Bool", <<>>)
       ELSE Built(s, appendConstant(s.g, e.type, e.value))

visitColumnExpr(e, s) ==
  LET n == findIdent(IF e.table = "" THEN <<e.col>> ELSE <<e.table, e.col>>, s.vars)
  IN  IF n = NODE_NONE THEN Fail(s, "compile")
      ELSE [s EXCEPT !.node = n, !.refs = @ \cup {<<s.from, n>>}]

(* visitMulDivExpr, visitAddSubExpr, visitLikeExpr *)
visitBinary(e, l, r) == appendOperation(r, e.op, <<l, r.node>>)

(* visitIsNullExpr does not visit its operand. *)
visitIsNullExpr(e, s) == appendOperation(s, e.op, <<>>)

visitNotExpr(arg) == appendOperation(arg, "NOT", <<arg.node>>)

(* lower <= middle AND middle <= upper; the middle node is shared. *)
visitBetweenExpr(e, bounds) ==
  LET n    == bounds.list
      low  == MakeAny(bounds, "LTE", <<n[1], n[2]>>)
      high == MakeAny(low, "LTE", <<n[2], n[3]>>)
  IN  IF ~Ok(bounds) THEN bounds
      ELSE MakeAny(high, IF e.neg THEN "NAND" ELSE "AND", <<low.node, high.node>>)

RECURSIVE Visit(_, _)

(* a < b < c is a < b AND b < c: the right operand is the next left one,   *)
(* and a comparison is appended as soon as its operand is visited.         *)
Compared(acc, token, right) ==
  LET cmp == appendOperation(right, token, <<acc.left, right.node>>)
  IN  [s |-> cmp, left |-> right.node, cmps |-> Append(acc.cmps, cmp.node)]

Compare(first, e) ==
  FoldLeft(LAMBDA acc, i : Compared(acc, e.ops[i], Visit(e.rights[i], acc.s)),
           [s |-> first, left |-> first.node, cmps |-> <<>>], [i \in DOMAIN e.ops |-> i])

visitComparisonExpr(e, all) ==
  IF Len(e.ops) = 1 THEN all.s ELSE MakeAny(all.s, "AND", all.cmps)

(* The right operand of a binary expression, after its left one. *)
VisitRight(e, l) == visitBinary(e, l.node, Visit(e.r, l))

(* visitAndExpr, visitXorExpr, visitOrExpr; one argument stands for itself. *)
visitNary(e, args) ==
  IF Len(e.args) = 1 \/ ~Ok(args) THEN args ELSE MakeAny(args, e.op, args.list)

(* A function call, a cast or IN (...) has no visit method: visitChildren  *)
(* visits its operands and returns the empty result of its last terminal,  *)
(* and std::any_cast throws.  A subquery among them is taken as a failure  *)
(* without its nodes.                                                      *)
visitUncast(args) == IF Ok(args) THEN Fail(args, "uncaught") ELSE args

Visit(e, s) ==
  IF ~Ok(s) THEN s ELSE
  CASE e.k = "lit"      -> visitLiteralExpr(e, s)
    [] e.k = "col"      -> visitColumnExpr(e, s)
    [] e.k = "bin"      -> VisitRight(e, Visit(e.l, s))
    [] e.k = "isnull"   -> visitIsNullExpr(e, s)
    [] e.k = "not"      -> visitNotExpr(Visit(e.e, s))
    [] e.k = "between"  -> visitBetweenExpr(e, VisitList(Visit, <<e.lower, e.e, e.upper>>, s))
    [] e.k = "cmp"      -> visitComparisonExpr(e, Compare(Visit(e.left, s), e))
    [] e.k = "nary"     -> visitNary(e, VisitList(Visit, e.args, s))
    [] e.k = "other"    -> visitUncast(VisitList(Visit, e.args, s))
=============================================================================
