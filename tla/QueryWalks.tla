----------------------------- MODULE QueryWalks -----------------------------
(***************************************************************************)
(* The walks over a query graph in minion/planner/query/graph.h: depth     *)
(* numbering, the orders made from it, the compaction of a graph to what a *)
(* root reaches, edge lists and structural hashes.  A mapping is the       *)
(* graph_mapping vector: node -> sequence of its arguments.                *)
(***************************************************************************)
EXTENDS QueryGraph, SequencesExt

Mapping(g) == [n \in Ids(g) |-> Args(g, n)]

-----------------------------------------------------------------------------
(* Edge lists                                                              *)

getEdgesList(m) ==
  FlattenSeq([i \in 1..Cardinality(DOMAIN m) |->
    [k \in DOMAIN m[i - 1] |-> <<i - 1, m[i - 1][k]>>]])

(* push_back, on a vector of lists. *)
PushBack(nodes) ==
  [lp \in [nodes -> Seq(nodes)] \X (nodes \X nodes) |->
     [lp[1] EXCEPT ![lp[2][1]] = Append(@, lp[2][2])]]

(* The lists of `nodes`, each pair's second pushed to its first's. *)
Pushed(nodes, pairs) ==
  FoldLeft(LAMBDA lists, p : PushBack(nodes)[<<lists, p>>], [v \in nodes |-> <<>>], pairs)

(* As many nodes as the largest id an edge names: 1 without edges. *)
getGraphMapping(edges) ==
  Pushed(0..Max({0} \cup {e[1] : e \in Range(edges)} \cup {e[2] : e \in Range(edges)}), edges)

RevertNothing(m) == m           \* faulty: `resersed[i].push_back(j)`

revertGraphMapping(m) ==
  LET edges == getEdgesList(m)
  IN  Pushed(DOMAIN m, [k \in DOMAIN edges |-> <<edges[k][2], edges[k][1]>>])

-----------------------------------------------------------------------------
(* Depth numbering                                                         *)

(* The calls a node makes that was given the number `value`. *)
CallsOf(m, node, value) == [k \in DOMAIN m[node] |-> <<m[node][k], value + 1>>]

(* The next call: a node without a number gets its own, and its calls come *)
(* before those that wait.                                                 *)
NextCall(m, w) ==
  LET node  == Head(w.calls)[1]
      value == Head(w.calls)[2]
  IN  IF w.calls = <<>> THEN w
      ELSE IF w.seen[node] # 0 THEN [w EXCEPT !.calls = Tail(@)]
      ELSE [seen  |-> [w.seen EXCEPT ![node] = value],
            calls |-> CallsOf(m, node, value) \o Tail(w.calls)]

(* No walk makes more calls. *)
MostCalls(m) == Cardinality(DOMAIN m) * Max({0} \cup {Len(m[n]) : n \in DOMAIN m})

(* The recursion as the calls it makes, one after the other. *)
fillVisited(m, visited, node, value) ==
  LET Walk[k \in 0..MostCalls(m)] ==
        IF k = 0 THEN [seen  |-> [visited EXCEPT ![node] = value],
                       calls |-> CallsOf(m, node, value)]
        ELSE NextCall(m, Walk[k - 1])
  IN  Walk[MostCalls(m)].seen

VisitedFrom(m, root) == fillVisited(m, [n \in DOMAIN m |-> 0], root, 1)

VisitedNodes(visited) == {n \in DOMAIN visited : visited[n] # 0}

(* The nodes in the order of a strict total order. *)
Ordered(nodes, Before(_, _)) ==
  [i \in 1..Cardinality(nodes) |->
     CHOOSE n \in nodes : Cardinality({m \in nodes : Before(m, n)}) = i - 1]

RootsFirst(visited) ==          \* faulty: the comparison the other way round
  LET Up(a, b) == visited[a] < visited[b] \/ (visited[a] = visited[b] /\ a < b)
  IN  {Ordered(VisitedNodes(visited), Up)}

(* visitedNodesOrder: deepest first.  std::sort leaves nodes of one depth  *)
(* in any order; both extremes are taken.                                  *)
visitedNodesOrders(visited) ==
  LET Up(a, b)   == visited[a] > visited[b] \/ (visited[a] = visited[b] /\ a < b)
      Down(a, b) == visited[a] > visited[b] \/ (visited[a] = visited[b] /\ a > b)
  IN  {Ordered(VisitedNodes(visited), Up), Ordered(VisitedNodes(visited), Down)}

(* visitedLeaveMap: a node's place in that order, from 0. *)
visitedLeaveMap(order) ==
  [n \in Range(order) |-> (CHOOSE i \in DOMAIN order : order[i] = n) - 1]

-----------------------------------------------------------------------------
(* Compaction                                                              *)

(* Arguments without a new id are left out. *)
mapMappingGraph(m, new) ==
  LET Kept(args) == {k \in DOMAIN args : args[k] \in DOMAIN new}
      Old(i)     == CHOOSE n \in DOMAIN new : new[n] = i
  IN  [i \in 0..(Cardinality(DOMAIN new) - 1) |->
         LET args  == m[Old(i)]
             place == Ordered(Kept(args), LAMBDA j, k : j < k)
         IN  [k \in DOMAIN place |-> new[args[place[k]]]]]

OperationsInPlace(nodes, new) ==    \* faulty: operations are cut, not moved
  [i \in 0..(Cardinality(DOMAIN new) - 1) |-> nodes[i + 1]]

(* The operations move with their nodes.  `df` keeps the old node's id. *)
mapOperations(nodes, new) ==
  [i \in 0..(Cardinality(DOMAIN new) - 1) |->
     nodes[(CHOOSE n \in DOMAIN new : new[n] = i) + 1]]

compact(g, new) ==
  LET m   == mapMappingGraph(Mapping(g), new)
      ops == mapOperations(g.nodes, new)
  IN  [g EXCEPT !.nodes = [i \in 1..Cardinality(DOMAIN new) |->
                             [ops[i - 1] EXCEPT !.args = m[i - 1]]]]

-----------------------------------------------------------------------------
(* Hashes, as terms: two terms are equal iff the code hashes the same      *)
(* numbers in the same order.  A node that has not been hashed yet counts  *)
(* as 0.  hashChildrenSet reads no child, only their number.               *)

hashOperationParams(node) ==
  <<node.op, node.name, node.const, node.df, node.type>>

HashChildIds(children, hashes) ==    \* faulty: the children, not their hashes
  <<"pos">> \o children

hashChildrenPositional(children, hashes) ==
  <<"pos">> \o [k \in DOMAIN children |-> hashes[children[k]]]

hashChildrenSet(children) == <<"set", Len(children)>>

NextHash(g, n, hashes) ==
  [hashes EXCEPT ![n] =
     <<hashOperationParams(Node(g, n)),
       IF Args(g, n) = <<>> THEN <<>>
       ELSE IF isCummutative(Node(g, n).op) THEN hashChildrenSet(Args(g, n))
       ELSE hashChildrenPositional(Args(g, n), hashes)>>]

fillNodeHashes(g, order) ==
  LET Hashed[k \in 0..Len(order)] ==
        IF k = 0 THEN [n \in Ids(g) |-> <<>>] ELSE NextHash(g, order[k], Hashed[k - 1])
  IN  Hashed[Len(order)]
=============================================================================
