----------------------------- MODULE QueryText -----------------------------
(***************************************************************************)
(* The planner on the text of queries: what the visits return is what the  *)
(* SQL visitor makes of the syntax trees (parseAndPrintSQL), and the graph *)
(* of a query means what its text says.                                    *)
(***************************************************************************)
EXTENDS QueryPlanner, SqlStatements

CONSTANT Queries      \* the syntax trees to plan: sequence of queries

(* What parseAndPrintSQL keeps of a visit, and the visit's history. *)
VisitsOf(queries) ==
  [i \in DOMAIN queries |->
     Restrict(visitQuery(queries[i], Start), {"g", "node", "err", "refs"})]

ASSUME VisitsAssumption == Visits = VisitsOf(Queries)

-----------------------------------------------------------------------------
(* The node of a schema column: the tree names it, possibly by an alias of *)
(* its table.  Column names are unique in the schemas the runs use.        *)
ColumnOf(h, e) ==
  LET table == CHOOSE i \in DOMAIN Schema : \E j \in DOMAIN Schema[i].cols :
                 Schema[i].cols[j].name = e.col
      place == CHOOSE j \in DOMAIN Schema[table].cols : Schema[table].cols[j].name = e.col
      node  == CHOOSE n \in Ids(h) : /\ Node(h, n).op = "TABLE"
                                     /\ getNodeName(h, n) = Schema[table].name
  IN  Args(h, node)[place]

TokenMeans(token) == (CHOOSE p \in opMap : p[1] = token)[2]

RECURSIVE Meaning(_, _, _)
Meaning(e, h, val) ==
  LET Sub(f) == Meaning(f, h, val)
      pairs  == [i \in DOMAIN e.ops |-> Apply(TokenMeans(e.ops[i]),
                   <<Sub(IF i = 1 THEN e.left ELSE e.rights[i - 1]), Sub(e.rights[i])>>)]
      inside == And3(<<Apply("LTE", <<Sub(e.lower), Sub(e.e)>>),
                       Apply("LTE", <<Sub(e.e), Sub(e.upper)>>)>>)
  IN  CASE e.k = "lit"     -> IF e.type = "Null" THEN NULL ELSE e.value
        [] e.k = "col"     -> val[ColumnOf(h, e)]
        [] e.k = "bin"     -> Apply(TokenMeans(e.op), <<Sub(e.l), Sub(e.r)>>)
        [] e.k = "not"     -> Not3(Sub(e.e))
        [] e.k = "between" -> IF e.neg THEN Not3(inside) ELSE inside
        [] e.k = "cmp"     -> IF Len(e.ops) = 1 THEN pairs[1] ELSE And3(pairs)
        [] e.k = "nary"    -> IF Len(e.args) = 1 THEN Sub(e.args[1])
                              ELSE Apply(e.op, [i \in DOMAIN e.args |-> Sub(e.args[i])])

-----------------------------------------------------------------------------
(* The graph of one SELECT over schema tables says what its text says, for *)
(* all values of the columns: the condition of ON and WHERE together, the  *)
(* value of every item, and the rows between OFFSET and OFFSET + LIMIT.    *)
(* IS NULL is left out: its operand is not in the graph.                   *)
QueryMeansItsText ==
  LET q     == Queries[query]
      sel   == q.body[1]
      conds == SelectSeq([i \in 1..(Len(sel.from) - 1) |-> sel.from[i + 1].on]
                           \o <<sel.where>>, LAMBDA e : e # NoExpr)
      The(op) == CHOOSE n \in Ids(g) : Node(g, n).op = op
      Item(i) == Args(g, The("DF"))[Len(sel.from) + i]
      RowOf(e, val, none) == IF e = NoExpr THEN none ELSE Meaning(e, g, val)
  IN  /\ phase = "parsed"
      /\ q.k = "select" /\ q.ctes = <<>> /\ Len(q.body) = 1
      /\ \A i \in DOMAIN sel.from : sel.from[i].rel.query = <<>>
      /\ \A n \in Ids(g) : Node(g, n).op \notin {"IS_NULL", "IS_NOT_NULL"}
      => \A val \in Valuations(g) :
           /\ conds # <<>> =>
                TruthOf(ValueIn(g, Args(g, The("FILTER"))[2], val))
                  = And3([i \in DOMAIN conds |-> TruthOf(Meaning(conds[i], g, val))])
           /\ (\A i \in DOMAIN sel.items : sel.items[i].k = "expr") =>
                \A i \in DOMAIN sel.items :
                   ValueIn(g, Item(i), val) = Meaning(sel.items[i].e, g, val)
           /\ sel.limit # NoExpr =>
                LET ends == Args(g, The("RANGE"))
                IN  /\ ValueIn(g, ends[2], val) = RowOf(sel.offset, val, 0)
                    /\ ValueIn(g, ends[3], val) =
                         Apply("ADD", <<RowOf(sel.offset, val, 0), Meaning(sel.limit, g, val)>>)
=============================================================================
