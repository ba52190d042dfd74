--------------------------- MODULE MCQueryPlanner ---------------------------
(* Queries over t(a, b) and u(c).  Expressions, FROM clauses and the other *)
(* clauses are varied separately around one plain SELECT, and a few        *)
(* queries nest SELECTs, unions and common table expressions.              *)
EXTENDS QueryText

Column(name) == [name |-> name, type |-> "Int64"]
MCSchema == <<[name |-> "t", cols |-> <<Column("a"), Column("b")>>],
              [name |-> "u", cols |-> <<Column("c")>>]>>
MCNameOrder == <<"a", "b", "c", "t", "u", "x", "z">>

MCSamples == {0, 1, 2, NULL}
MCPredicate(op, s) == IF op = "IS_NULL" THEN 0
                      ELSE IF s[1] = NULL \/ s[2] = NULL THEN NULL
                      ELSE IF s[1] = 0 THEN 1 ELSE 0

Int64(v)     == [k |-> "lit", type |-> "Int64", value |-> v]
Bool(v)      == [k |-> "lit", type |-> "Bool", value |-> v]
Null         == [k |-> "lit", type |-> "Null", value |-> 0]
Col(n)       == [k |-> "col", table |-> "", col |-> n]
ColOf(t, n)  == [k |-> "col", table |-> t, col |-> n]
Bin(op, l, r)  == [k |-> "bin", op |-> op, l |-> l, r |-> r]
Nary(op, args) == [k |-> "nary", op |-> op, args |-> args]
Not(e)       == [k |-> "not", e |-> e]
Cmp(l, op, r)  == [k |-> "cmp", left |-> l, ops |-> <<op>>, rights |-> <<r>>]
Chain(l, o1, m, o2, r) == [k |-> "cmp", left |-> l, ops |-> <<o1, o2>>, rights |-> <<m, r>>]
Between(neg, e, lo, hi) == [k |-> "between", neg |-> neg, e |-> e, lower |-> lo, upper |-> hi]
IsNull(op, e) == [k |-> "isnull", op |-> op, e |-> e]
In(e, es)    == [k |-> "other", args |-> <<e>> \o es]
Function(e)  == [k |-> "other", args |-> <<e>>]

Named(t, alias)  == [query |-> <<>>, name |-> t, alias |-> alias]
Nested(q, alias) == [query |-> q, name |-> "", alias |-> alias]
Base(rel)        == [rel |-> rel, on |-> NoExpr]
Join(rel, e)     == [rel |-> rel, on |-> e]

Star       == [k |-> "star", e |-> NoExpr, alias |-> ""]
TableStar  == [k |-> "tableStar", e |-> NoExpr, alias |-> ""]
Item(e)    == [k |-> "expr", e |-> e, alias |-> ""]
As(e, z)   == [k |-> "expr", e |-> e, alias |-> z]

T == <<Base(Named("t", ""))>>
Select(items, from) == [from |-> from, items |-> items, where |-> NoExpr, groups |-> <<>>,
                        orders |-> <<>>, offset |-> NoExpr, limit |-> NoExpr]
Where(q, e)  == [q EXCEPT !.where = e]
Order(q, e, desc) == [q EXCEPT !.orders = <<[e |-> e, desc |-> desc]>>]
Group(q, e)  == [q EXCEPT !.groups = <<e>>]
Rows(q, offset, limit) == [q EXCEPT !.offset = offset, !.limit = limit]

Query(body)      == [k |-> "select", ctes |-> <<>>, body |-> body]
With(ctes, body) == [k |-> "select", ctes |-> ctes, body |-> body]
Cte(alias, q)    == [alias |-> alias, query |-> q]

A == Col("a")
B == Col("b")
Lt == Cmp(A, "<", B)
Eq == Cmp(A, "=", Int64(1))
Conditions ==
  << A, Lt, Not(Lt), Not(Not(A)), Not(A),
     Nary("AND", <<Lt, Eq>>), Nary("OR", <<Lt, Nary("AND", <<Eq, Lt>>)>>),
     Nary("OR", <<Nary("OR", <<Lt, Eq>>), Not(Lt)>>),
     Nary("XOR", <<Lt, Nary("XOR", <<A, B>>)>>),
     Not(Nary("XOR", <<Lt, Eq>>)), Not(Nary("OR", <<Eq, Lt>>)),
     Nary("AND", <<Not(Lt), Not(Lt)>>), Nary("OR", <<Null, Bool(1)>>),
     Nary("AND", <<A, Lt>>),
     Chain(A, "<", B, "<=", Int64(2)), Not(Chain(A, "<", B, "<", A)),
     Between(FALSE, A, Int64(0), B), Between(TRUE, A, Int64(1), B),
     Nary("OR", <<Between(TRUE, A, Int64(1), B), Lt>>),
     Bin("NOTLIKE", A, B), Not(Bin("LIKE", A, B)), Nary("AND", <<Bin("LIKE", A, B), Lt>>),
     Cmp(Bin("+", Bin("+", A, B), Int64(1)), ">", Bin("-", A, Bin("-", B, Int64(1)))),
     Cmp(Bin("*", A, Bin("*", B, B)), "<>", Null), Bool(1),
     IsNull("ISNULL", A), Nary("AND", <<IsNull("ISNOTNULL", A), Lt>>),
     Bin("?", A, B), In(A, <<Int64(1), B>>), Function(Col("c")), Col("c"), ColOf("t", "a"), ColOf("u", "a"), Col("t") >>

ByCondition == [i \in DOMAIN Conditions |-> <<Where(Select(<<Item(A)>>, T), Conditions[i])>>]

TU == <<Base(Named("t", "x")), Join(Named("u", ""), Cmp(ColOf("x", "a"), "=", Col("c")))>>
Inner == Select(<<Item(A)>>, T)
Filtered == Where(Inner, Lt)
InTable(q) == <<Base(Nested(<<q>>, "x"))>>

Bodies ==
  << <<Select(<<Star>>, T)>>, <<Select(<<TableStar>>, T)>>,
     <<Select(<<Item(Int64(1))>>, <<>>)>>, <<Select(<<Item(Bin("+", A, Int64(1))), As(B, "z")>>, T)>>,
     <<Rows(Inner, NoExpr, Int64(1))>>, <<Rows(Inner, Int64(2), Int64(1))>>,
     <<Rows(Order(Where(Inner, Lt), A, TRUE), Int64(1), NoExpr)>>,
     <<Group(Inner, A)>>, <<Group(Inner, A), Group(Inner, A)>>, <<Order(Group(Filtered, B), A, FALSE)>>,
     <<Where(Select(<<Star>>, TU), Lt)>>,
     <<Where(Select(<<Item(Col("c")), Item(ColOf("u", "c"))>>, TU), Cmp(Col("c"), ">", A))>>,
     <<Select(<<Item(ColOf("t", "a"))>>, TU)>>,
     <<Select(<<Item(A)>>, InTable(Inner))>>, <<Select(<<Item(B)>>, InTable(Inner))>>,
     <<Select(<<Item(ColOf("x", "a"))>>, InTable(Inner))>>,
     <<Select(<<Item(A)>>, InTable(Filtered))>>,
     <<Select(<<Item(A)>>, InTable(Rows(Inner, Int64(1), NoExpr)))>>,
     <<Select(<<Item(A)>>, T \o <<Join(Nested(<<Inner>>, "x"), Cmp(ColOf("x", "a"), "=", A))>>)>>,
     <<Select(<<Item(A)>>, T \o <<Join(Nested(<<Select(<<Item(Col("c"))>>, <<Base(Named("u", ""))>>)>>, ""),
                                       Cmp(A, "=", Col("c")))>>)>>,
     <<Select(<<Item(A)>>, T \o <<Join(Nested(<<Select(<<Item(B)>>, <<Base(Named("u", ""))>>)>>, ""),
                                       Bool(1))>>)>>,
     <<Inner, Select(<<Item(Col("c"))>>, <<Base(Named("u", ""))>>)>>,
     <<Inner, Order(Filtered, A, FALSE)>>,
     <<Select(<<As(A, "z")>>, T), Select(<<Item(A)>>, T)>>,
     <<Select(<<Item(A)>>, <<Base(Nested(<<Inner, Inner>>, "x"))>>)>>,
     <<Select(<<Item(A)>>, <<Base(Named("missing", ""))>>)>> >>

CteQueries ==
  << With(<<Cte("x", <<Inner>>)>>, <<Select(<<Item(A)>>, <<Base(Named("x", ""))>>)>>),
     With(<<Cte("x", <<Inner>>), Cte("z", <<Select(<<Star>>, <<Base(Named("x", ""))>>)>>)>>,
          <<Select(<<Item(A)>>, <<Base(Named("z", "x"))>>)>>),
     With(<<Cte("t", <<Inner>>)>>, <<Select(<<Item(B)>>, T)>>),
     With(<<Cte("u", <<Inner>>)>>, <<Select(<<Item(A)>>, <<Base(Named("u", ""))>>)>>),
     With(<<Cte("x", <<Group(Inner, A)>>)>>, <<Select(<<Star>>, <<Base(Named("x", ""))>>)>>),
     [k |-> "update", ctes |-> <<>>, body |-> <<>>],
     [k |-> "delete", ctes |-> <<Cte("x", <<Inner>>)>>, body |-> <<>>] >>

Bodied == ByCondition \o Bodies
MCQueries == [i \in DOMAIN Bodied |-> Query(Bodied[i])] \o CteQueries
MCVisits == VisitsOf(MCQueries)
=============================================================================
