------------------------------ MODULE PolicyDag ------------------------------
(***************************************************************************)
(* The add-only graph of the policy operations of one access tuple         *)
(* (accure-core/src/dag.rs) as operators over a record of its nodes and    *)
(* its edges << dependency, operation >>.  The program keeps the edges     *)
(* twice, as `out` and as `parents`; add_edge is the only writer of both.  *)
(***************************************************************************)
EXTENDS Naturals, FiniteSets

EmptyDag == [nodes |-> {}, edges |-> {}]

AddNode(g, d) == [g EXCEPT !.nodes = @ \union {d}]

\* The edge dep -> op; both ends become nodes.
AddEdge(g, dep, op) ==
  [nodes |-> g.nodes \union {dep, op}, edges |-> g.edges \union {<< dep, op >>}]

Parents(g, d)  == {e[1] : e \in {x \in g.edges : x[2] = d}}
Children(g, d) == {e[2] : e \in {x \in g.edges : x[1] = d}}

(***************************************************************************)
(* Everything reachable from d over parents, found in breadth-first order: *)
(* what the queue holds is added and makes room for its unseen parents.    *)
(***************************************************************************)
Ancestors(g, d) ==
  LET bfs[seen \in SUBSET g.nodes] ==
        [queue \in SUBSET g.nodes |->
           IF queue = {}
             THEN seen
             ELSE bfs[seen \union queue]
                     [(UNION {Parents(g, x) : x \in queue}) \ (seen \union queue)]]
  IN  bfs[{}][Parents(g, d)]

Roots(g) == {d \in g.nodes : Parents(g, d) = {}}

\* The nodes from which a path of exactly k nodes leads to d.
Starts(g, d, k) ==
  LET climb[i \in 1 .. k] ==
        IF i = 1 THEN {d} ELSE UNION {Parents(g, x) : x \in climb[i - 1]}
  IN  climb[k]

(***************************************************************************)
(* The number of nodes on the shortest path from a root to d, which is     *)
(* what the breadth-first search of Dag::level counts; 0 when d is no node *)
(* or no root leads to it.                                                 *)
(***************************************************************************)
Level(g, d) ==
  LET roots  == Roots(g)
      depths == {k \in 1 .. Cardinality(g.nodes) : Starts(g, d, k) \intersect roots # {}}
  IN  IF d \in g.nodes /\ depths # {}
        THEN CHOOSE k \in depths : \A j \in depths : k <= j
        ELSE 0

MaxLevel(g) ==
  LET levels == {Level(g, d) : d \in g.nodes}
  IN  IF levels = {} THEN 0
      ELSE CHOOSE k \in levels : \A j \in levels : j <= k

AtLevel(g, k) == {d \in g.nodes : Level(g, d) = k}
=============================================================================
