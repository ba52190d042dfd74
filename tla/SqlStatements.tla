--------------------------- MODULE SqlStatements ---------------------------
(***************************************************************************)
(* The statement rules of the SQL visitor: relations, SELECT, UNION and    *)
(* WITH (minion/planner/parse/parse_query.cc).                             *)
(*                                                                         *)
(* A SELECT is visited clause by clause; what its clauses collect is the   *)
(* record p: the visitor's state s and the vectors and ids of the          *)
(* function's locals.                                                      *)
(***************************************************************************)
EXTENDS SqlVisitor

RECURSIVE visitQueryExpression(_, _)

(* The alias of a relation names its node only when it has no name yet. *)
NameRelation(rel, s) ==
  IF Ok(s) /\ rel.alias # "" /\ getNodeName(s.g, s.node) = ""
  THEN [s EXCEPT !.g = setNodeName(@, s.node, rel.alias)] ELSE s

visitRelation(rel, s) ==
  NameRelation(rel, IF rel.query = <<>> THEN findOrInsertTable(rel.name, s)
                    ELSE visitQueryExpression(rel.query, s))

(* The columns of a relation just visited become identifiers.  A RANGE     *)
(* without a limit has NODE_NONE among its arguments.                      *)
LoadRelation(rel, s) ==
  LET alias == IF rel.alias # "" THEN rel.alias ELSE getNodeName(s.g, s.node)
  IN  IF ~Ok(s) THEN s
      ELSE IF NODE_NONE \in Range(Args(s.g, s.node)) THEN Fail(s, "undefined")
      ELSE [s EXCEPT !.vars = loadTableNames(@, s.g, s.node, alias),
                     !.from = @ \cup {s.node}]

(* Visit an expression for one of the vectors of p. *)
Push(p, field, s) ==
  IF Ok(s) THEN [p EXCEPT !.s = s, ![field] = Append(@, s.node)] ELSE [p EXCEPT !.s = s]

VisitInto(p, field, e) ==
  IF e = NoExpr \/ ~Ok(p.s) THEN p ELSE Push(p, field, Visit(e, p.s))

(* A joined relation is visited twice and the first result dropped: a      *)
(* joined subquery leaves a second copy of itself in the graph.            *)
VisitTable(p, rel, times) ==
  Push(p, "tables", LoadRelation(rel,
    FoldLeft(LAMBDA s, i : IF Ok(s) THEN visitRelation(rel, s) ELSE s, p.s, times)))

(* The base table, then each joined one with its condition. *)
VisitFrom(q, p) ==
  LET VisitNext(acc, i) ==
        VisitInto(VisitTable(acc, q.from[i].rel, IF i = 1 THEN <<1>> ELSE <<1, 2>>),
                  "filters", q.from[i].on)
  IN  FoldLeft(VisitNext, p, [i \in DOMAIN q.from |-> i])

-----------------------------------------------------------------------------
(* An item's alias renames the item's node, which for a plain column is    *)
(* the table's own column node.                                            *)
Renamed(s, alias) ==
  IF Ok(s) /\ alias # "" THEN [s EXCEPT !.g = setNodeName(@, s.node, alias)] ELSE s

(* `*` lists the identifiers without a table, in the map's order; `t.*`    *)
(* adds nothing.                                                           *)
VisitItem(p, item) ==
  LET names == SelectSeq(NameOrder, LAMBDA n : <<n>> \in DOMAIN p.s.vars)
  IN  IF ~Ok(p.s) THEN p ELSE
      CASE item.k = "tableStar" -> p
        [] item.k = "star" ->
             [p EXCEPT !.items = @ \o [i \in DOMAIN names |-> p.s.vars[<<names[i]>>]]]
        [] item.k = "expr" ->
             Push(p, "items", Renamed(Visit(item.e, p.s), item.alias))

Descending(s, desc) == IF desc THEN MakeAny(s, "DESC", <<s.node>>) ELSE s

VisitSort(p, item) == Push(p, "orders", Descending(Visit(item.e, p.s), item.desc))

(* FROM and JOIN, items, WHERE, GROUP BY, ORDER BY, OFFSET, LIMIT: the     *)
(* order of the code, whatever the order of the text.                      *)
VisitClauses(q, p) ==
  LET from   == VisitFrom(q, p)
      items  == FoldLeft(VisitItem, from, q.items)
      where  == VisitInto(items, "filters", q.where)
      groups == FoldLeft(LAMBDA a, e : VisitInto(a, "groups", e), where, q.groups)
      orders == FoldLeft(VisitSort, groups, q.orders)
      offset == VisitInto(orders, "offset", q.offset)
  IN  VisitInto(offset, "limit", q.limit)

-----------------------------------------------------------------------------
(* The nodes of a SELECT, each over the one before: DF, FILTER, GROUP,     *)
(* SORT, RANGE.                                                            *)

FrameNode(p) == MakeAny(p.s, "DF", p.tables \o p.items)

FirstFilterOnly(p, df) ==           \* faulty: further conditions are dropped
  IF p.filters = <<>> THEN df ELSE MakeAny(df, "FILTER", <<df.node, p.filters[1]>>)

FilterNode(p, df) ==
  LET all == IF Len(p.filters) >= 2 THEN MakeAny(df, "AND", p.filters)
             ELSE [df EXCEPT !.node = p.filters[1]]
  IN  IF p.filters = <<>> THEN df ELSE MakeAny(all, "FILTER", <<df.node, all.node>>)

OverNode(df, op, args) ==
  IF args = <<>> THEN df ELSE MakeAny(df, op, <<df.node>> \o args)

(* RANGE(df, offset, offset + limit): a missing offset is a constant 0, a  *)
(* missing limit stays NODE_NONE.                                          *)
RangeNode(p, df) ==
  LET off == IF p.offset # <<>> THEN [df EXCEPT !.node = p.offset[1]]
             ELSE Built(df, appendConstant(df.g, "Int64", 0))
      end == IF p.limit # <<>> THEN Make(off, NODE_NONE, "ADD", "Int64",
                                         <<off.node, p.limit[1]>>)
             ELSE [off EXCEPT !.node = NODE_NONE]
  IN  IF p.limit = <<>> /\ p.offset = <<>> THEN df
      ELSE MakeAny(end, "RANGE", <<df.node, off.node, end.node>>)

BuildFrame(p) ==
  LET filtered == FilterNode(p, FrameNode(p))
      grouped  == OverNode(filtered, "GROUP", p.groups)
      sorted   == OverNode(grouped, "SORT", p.orders)
  IN  IF Ok(p.s) THEN RangeNode(p, sorted) ELSE p.s

KeepScope(s) == s                   \* faulty: nothing is put away

(* The identifiers of an enclosing SELECT are put away, and come back when *)
(* the visit ends or throws.                                               *)
EnterScope(s) == [s EXCEPT !.vars = NoScope]

LeaveScope(s, outer) == [s EXCEPT !.vars = outer]

visitSelectStatement(q, s) ==
  LET p == VisitClauses(q,
             [s |-> [EnterScope(s) EXCEPT !.from = {}],
              tables |-> <<>>, items |-> <<>>, filters |-> <<>>, groups |-> <<>>,
              orders |-> <<>>, offset |-> <<>>, limit |-> <<>>])
  IN  [LeaveScope(BuildFrame(p), s.vars) EXCEPT !.from = s.from]

(* Several SELECTs are a UNION of their nodes. *)
United(all, n) == IF n = 1 \/ ~Ok(all) THEN all ELSE MakeAny(all, "UNION", all.list)

visitQueryExpression(selects, s) ==
  United(VisitList(LAMBDA q, t : IF Ok(t) THEN visitSelectStatement(q, t) ELSE t, selects, s),
         Len(selects))

(* The common table expressions in order, then the statement.  UPDATE and  *)
(* DELETE are refused.                                                     *)
Remembered(s, alias) == IF Ok(s) THEN [s EXCEPT !.with = Bind(@, alias, s.node)] ELSE s

VisitStatement(query, s) ==
  IF ~Ok(s) THEN s
  ELSE IF query.k = "select" THEN visitQueryExpression(query.body, s) ELSE Fail(s, "compile")

visitQuery(query, s) ==
  [VisitStatement(query,
     FoldLeft(LAMBDA t, cte : IF Ok(t) THEN Remembered(visitQueryExpression(cte.query, t), cte.alias)
                              ELSE t,
              [s EXCEPT !.with = NoScope], query.ctes)) EXCEPT !.with = s.with]
=============================================================================
