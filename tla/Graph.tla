-------------------------------- MODULE Graph --------------------------------
(***************************************************************************)
(* eda-2/src/c/graph/lib/graph.c: a directed graph as lists of adjacents,  *)
(* its topological sort, its shortest paths from a vertex and two spanning  *)
(* trees.  Only the first adjacent of a vertex keeps its weight, and the     *)
(* queue of the shortest paths is the heap of HeapArray, whose front need    *)
(* not be the lowest.                                                         *)
(***************************************************************************)
EXTENDS HeapArray, FiniteSets, SequencesExt

CONSTANTS
    Size,                  (* vertex_count                                             *)
    Weights,
    MaxEdges               (* bound of the instance: fewer than the heap has room for  *)

VARIABLE graph             (* v: the adjacents of a vertex; reached, reached_from and   *)
                           (* distance of it; built; from: of the last shortest paths;  *)
                           (* order: of the last sort; tree: the last spanning tree      *)

GRAPH_INFINITE_DISTANCE == 1000
Vertices == 0 .. Size - 1
None == -1                 (* no result of this kind yet *)
Unsorted == <<None>>
NULL == <<>>
Aborted == <<None, None>>  (* assert(i == self->size)    *)

ForAll(x) == [v \in Vertices |-> x]
NewGraph == ForAll(<<>>)
Init ==
    graph = [v |-> NewGraph, reached |-> ForAll(FALSE), reached_from |-> ForAll(0),
             distance |-> ForAll(GRAPH_INFINITE_DISTANCE), from |-> None,
             order |-> Unsorted, tree |-> NewGraph]

(* vertex_adjacent_add_weighted *)
Added(adjacents, id, weight) ==
    Append(adjacents, [id |-> id, weight |-> IF adjacents = <<>> THEN weight ELSE 0])

Edges(v) == {<<i, n>> \in Vertices \X (1 .. MaxEdges) : n <= Len(v[i])}
Fresh == graph.from = None /\ graph.order = Unsorted /\ graph.tree = NewGraph

add_weighted(v, id, weight) ==
    /\ Fresh /\ Cardinality(Edges(graph.v)) < MaxEdges
    /\ graph' = [graph EXCEPT !.v[v] = Added(@, id, weight)]

(* graph_recompute: an incoming edge counts as often as it was added *)
Incoming == [v \in Vertices |->
    Cardinality({e \in Edges(graph.v) : graph.v[e[1]][e[2]].id = v})]

(* The loop of the sort: one adjacent less for each of those of the front *)
WrongLeft(incoming, id) == incoming[id]
Left(incoming, id) == incoming[id] - 1

RECURSIVE Relaxed(_, _, _)
Relaxed(incoming, q, adjacents) ==
    IF adjacents = <<>> THEN [incoming |-> incoming, q |-> q]
    ELSE LET id == Head(adjacents).id left == Left(incoming, id) IN
         Relaxed([incoming EXCEPT ![id] = left], IF left = 0 THEN Append(q, id) ELSE q,
                 Tail(adjacents))
RECURSIVE Ordered(_, _)
Ordered(incoming, q) ==
    IF q = <<>> THEN <<>>
    ELSE LET r == Relaxed(incoming, Tail(q), graph.v[Head(q)]) IN
         <<Head(q)>> \o Ordered(r.incoming, r.q)

topological_sort ==
    LET sources == SelectSeq([i \in 1 .. Size |-> i - 1], LAMBDA v : Incoming[v] = 0)
        ret == Ordered(Incoming, sources) IN
    /\ graph.order # Aborted
    /\ graph' = [graph EXCEPT
                   !.reached = ForAll(FALSE), !.reached_from = ForAll(0), !.from = None,
                   !.order = IF sources = <<>> THEN NULL
                             ELSE IF Len(ret) = Size THEN ret ELSE Aborted]

(* graph_shortest_path_from: its loops over the heap and over the adjacents *)
RECURSIVE Neighbours(_, _, _)
Neighbours(s, current, adjacents) ==
    IF adjacents = <<>> THEN s
    ELSE LET a == Head(adjacents) distance == s.distance[current] + a.weight IN
         Neighbours(IF s.distance[a.id] > distance
                    THEN [s EXCEPT !.distance[a.id] = distance, !.reached_from[a.id] = current,
                                   !.heap = insert("graph", @, a.id, distance)]
                    ELSE s,
                    current, Tail(adjacents))
RECURSIVE Scanned(_)
Scanned(s) ==
    IF s.heap.size = 0 THEN s
    ELSE LET current == front(s.heap).value
             popped == [s EXCEPT !.heap = pop("graph", @)] IN
         Scanned(IF s.reached[current] THEN popped
                 ELSE Neighbours([popped EXCEPT !.reached[current] = TRUE],
                                 current, graph.v[current]))

shortest_path_from(from) ==
    LET s == Scanned([reached |-> ForAll(FALSE), reached_from |-> ForAll(0),
                      distance |-> [ForAll(GRAPH_INFINITE_DISTANCE) EXCEPT ![from] = 0],
                      heap |-> insert("graph", NewHeap, from, 0)]) IN
    /\ graph.order # Aborted
    /\ graph' = [graph EXCEPT !.reached = s.reached, !.reached_from = s.reached_from,
                              !.distance = s.distance, !.from = from]

(* graph_minimum_spanning_tree_prim: the heaviest adjacent of each vertex, the *)
(* first of them, not yet reached in the tree                                   *)
RECURSIVE Prim(_, _, _)
Prim(tree, reached, i) ==
    IF i = Size THEN tree
    ELSE LET free == SelectSeq(graph.v[i], LAMBDA a : a.id \notin reached)
             picked == CHOOSE k \in DOMAIN free : \A j \in DOMAIN free :
                          \/ free[j].weight < free[k].weight
                          \/ free[j].weight = free[k].weight /\ k <= j IN
         IF free = <<>> THEN Prim(tree, reached \cup {i}, i + 1)
         ELSE Prim([tree EXCEPT ![i] = Added(@, free[picked].id, free[picked].weight)],
                   reached \cup {i, free[picked].id}, i + 1)

minimum_spanning_tree_prim ==
    /\ graph.order # Aborted
    /\ graph' = [graph EXCEPT !.reached = ForAll(FALSE), !.reached_from = ForAll(0), !.from = None,
                              !.tree = Prim(NewGraph, {}, 0)]

(* graph_minimum_spanning_tree, over adjacents_binary_heap *)
RECURSIVE AdjacentsHeap(_, _)
AdjacentsHeap(h, edges) ==
    IF edges = <<>> THEN h
    ELSE LET e == Head(edges) a == graph.v[e[1]][e[2]] IN
         AdjacentsHeap(insert("graph", h, [from |-> e[1], to |-> a.id, weight |-> a.weight], a.weight),
                       Tail(edges))
RECURSIVE Kruskal(_, _, _)
Kruskal(tree, reached, edges) ==
    IF edges = <<>> THEN tree
    ELSE LET e == Head(edges).value IN
         IF e.to \in reached THEN Kruskal(tree, reached, Tail(edges))
         ELSE Kruskal([tree EXCEPT ![e.from] = Added(@, e.to, e.weight)],
                      reached \cup {e.to}, Tail(edges))

minimum_spanning_tree ==
    LET edges == FlattenSeq([i \in 1 .. Size |-> [n \in 1 .. Len(graph.v[i - 1]) |-> <<i - 1, n>>]]) IN
    /\ graph.order # Aborted
    /\ graph' = [graph EXCEPT !.tree = Kruskal(NewGraph, {}, Drained("graph", AdjacentsHeap(NewHeap, edges)))]

Next ==
    \/ \E v, id \in Vertices, weight \in Weights : add_weighted(v, id, weight)
    \/ topological_sort
    \/ \E from \in Vertices : shortest_path_from(from)
    \/ minimum_spanning_tree_prim \/ minimum_spanning_tree

Spec == Init /\ [][Next]_graph
-----------------------------------------------------------------------------
Successors(v, i) == {v[i][n].id : n \in DOMAIN v[i]}
RECURSIVE Closure(_, _)
Closure(v, S) ==
    LET T == S \cup UNION {Successors(v, i) : i \in S} IN IF T = S THEN S ELSE Closure(v, T)
Acyclic(v) == \A i \in Vertices : i \notin Closure(v, Successors(v, i))

(* The shortest distances along at most n edges *)
RECURSIVE Shortest(_, _)
Shortest(from, n) ==
    IF n = 0 THEN [ForAll(GRAPH_INFINITE_DISTANCE) EXCEPT ![from] = 0]
    ELSE LET d == Shortest(from, n - 1) IN
         [i \in Vertices |->
            LET along == {d[i]} \cup {d[e[1]] + graph.v[e[1]][e[2]].weight :
                              e \in {e \in Edges(graph.v) : graph.v[e[1]][e[2]].id = i}} IN
            CHOOSE x \in along : \A y \in along : x <= y]

(* The sort orders an acyclic graph, and no other *)
SortSound ==
    graph.order # Unsorted =>
        /\ Acyclic(graph.v) <=> graph.order \notin {NULL, Aborted}
        /\ Acyclic(graph.v) =>
              /\ IsInjective(graph.order)
              /\ \A i, j \in 1 .. Size :
                    graph.order[j] \in Successors(graph.v, graph.order[i]) => i < j

(* What is reached is what can be reached, along a way back to the origin, and *)
(* no distance is less than the shortest                                        *)
RECURSIVE WayBack(_, _)
WayBack(v, n) ==
    v = graph.from \/ (n # 0 /\ v \in Successors(graph.v, graph.reached_from[v])
                             /\ WayBack(graph.reached_from[v], n - 1))
PathsSound ==
    graph.from # None =>
        \A v \in Vertices :
            /\ graph.reached[v] <=> v \in Closure(graph.v, {graph.from})
            /\ graph.reached[v] <=> graph.distance[v] < GRAPH_INFINITE_DISTANCE
            /\ graph.reached[v] => WayBack(v, Size)
            /\ graph.distance[v] >= Shortest(graph.from, Size)[v]

(* No vertex of a tree has two parents, and its edges are of the graph *)
TreesSound ==
    \A v \in Vertices :
        /\ Cardinality({e \in Edges(graph.tree) : graph.tree[e[1]][e[2]].id = v}) <= 1
        /\ Successors(graph.tree, v) \subseteq Successors(graph.v, v)

Sound == SortSound /\ PathsSound /\ TreesSound
=============================================================================
