--------------------------- MODULE AdjacencyList ---------------------------
(***************************************************************************)
(* graph::adjacency_list over list containers, the graph a road network is *)
(* imported into and edited as (include/graph/adjacency_list.hpp).         *)
(*                                                                         *)
(* Vertices and edges live in two lists; a descriptor is an iterator, here *)
(* a model value that stands for the address of the element and may be     *)
(* used again once the element is gone.  Each element stores its index,    *)
(* each edge its source and target, each vertex the list of its out edges  *)
(* and, in a bidirectional graph, the list of its in edges.                *)
(*                                                                         *)
(* The operations are operators on a graph value, so that a caller that    *)
(* performs several of them in one step can compose them.                  *)
(***************************************************************************)
EXTENDS Integers, Sequences, FiniteSets

CONSTANTS
    Vertices,    \* the addresses vertices can have
    Edges,       \* the addresses edges can have
    NoVertex,    \* source and target of an address that holds no edge
    Directions   \* the kinds of graph: "undirected", "directional", "bidirectional"

ASSUME GraphAssumption ==
    /\ IsFiniteSet(Vertices)
    /\ IsFiniteSet(Edges)
    /\ NoVertex \notin Vertices
    /\ Directions # {}
    /\ Directions \subseteq {"undirected", "directional", "bidirectional"}

VARIABLES
    graph,   \* the adjacency_list
    dirty    \* history: something was removed since the last reindex()

graphVars == <<graph, dirty>>

Undirected(g)    == g.direction = "undirected"
Bidirectional(g) == g.direction = "bidirectional"

Members(s) == {s[i] : i \in DOMAIN s}

\* What an edge, a vertex and a vertex of a bidirectional graph hold besides
\* their data: source and target, out_edges, in_edges, and their index.
EdgeEnds == [Edges -> Vertices \cup {NoVertex}]
OutLists == [Vertices -> Seq(Edges)]
InLists  == [Vertices -> Seq(Edges)]

Graphs == [direction : {"undirected", "directional", "bidirectional"},
           vertices : Seq(Vertices), edges : Seq(Edges),
           vindex : [Vertices -> Nat], eindex : [Edges -> Nat],
           source : EdgeEnds, target : EdgeEnds, out : OutLists, in : InLists]

EmptyGraph(direction) ==
    [direction |-> direction,
     vertices |-> <<>>,
     edges    |-> <<>>,
     vindex   |-> [v \in Vertices |-> 0],
     eindex   |-> [e \in Edges |-> 0],
     source   |-> [e \in Edges |-> NoVertex],
     target   |-> [e \in Edges |-> NoVertex],
     out      |-> [v \in Vertices |-> <<>>],
     in       |-> [v \in Vertices |-> <<>>]]

FreeVertices(g) == Vertices \ Members(g.vertices)
FreeEdges(g)    == Edges \ Members(g.edges)

\* The rest of a list after remove_if.
Without(s, dead) ==
    LET rest[n \in 0..Len(s)] ==
            IF n = 0 THEN <<>>
            ELSE IF s[n] \in dead THEN rest[n - 1] ELSE Append(rest[n - 1], s[n])
    IN  rest[Len(s)]

Shorter(s) == SubSeq(s, 1, Len(s) - 1)

-----------------------------------------------------------------------------
(* add_vertex and add_edge.                                                *)

WithVertex(g, v) ==
    [g EXCEPT !.vertices = Append(@, v), !.vindex[v] = Len(g.vertices)]

\* The lists an edge from s to t goes into, in the order of _add_edge.
Places(g, s, t) ==
    CASE Undirected(g) /\ s # t -> <<"edges", "out", "far out">>
      [] Bidirectional(g)       -> <<"edges", "out", "in">>
      [] OTHER                  -> <<"edges", "out">>

Put(g, e, s, t, place) ==
    CASE place = "edges"   -> [g EXCEPT !.edges = Append(@, e), !.eindex[e] = Len(g.edges),
                                        !.source[e] = s, !.target[e] = t]
      [] place = "out"     -> [g EXCEPT !.out[s] = Append(@, e)]
      [] place = "far out" -> [g EXCEPT !.out[t] = Append(@, e)]
      [] place = "in"      -> [g EXCEPT !.in[t] = Append(@, e)]

\* The graph after the first n of the places, of which there are two or three.
PutInto(g, e, s, t, n) ==
    LET place == Places(g, s, t)
        g1 == IF n >= 1 THEN Put(g, e, s, t, place[1]) ELSE g
        g2 == IF n >= 2 THEN Put(g1, e, s, t, place[2]) ELSE g1
    IN  IF n >= 3 THEN Put(g2, e, s, t, place[3]) ELSE g2

WithEdge(g, e, s, t) == PutInto(g, e, s, t, Len(Places(g, s, t)))

\* The tidy functions: each takes back the last element of its list if that is
\* the new edge, the latest list first.
PopBack(s, e) == IF s # <<>> /\ s[Len(s)] = e THEN Shorter(s) ELSE s

Forget(g, e) ==
    [g EXCEPT !.eindex[e] = 0, !.source[e] = NoVertex, !.target[e] = NoVertex]

TakeBack(g, e, s, t, place) ==
    CASE place = "edges"   -> [Forget(g, e) EXCEPT !.edges = PopBack(@, e)]
      [] place = "out"     -> [g EXCEPT !.out[s] = PopBack(@, e)]
      [] place = "far out" -> [g EXCEPT !.out[t] = PopBack(@, e)]
      [] place = "in"      -> g

\* Mutant: the tidy functions of the earlier lists are not called.
EdgeFailsTidyOne(g, e, s, t, n) ==
    IF n = 0 THEN g ELSE TakeBack(PutInto(g, e, s, t, n), e, s, t, Places(g, s, t)[n])

\* _add_edge when the allocation after the first n lists throws: what was
\* done is taken back.  After the third there is none that could.
EdgeFails(g, e, s, t, n) ==
    LET place == Places(g, s, t)
        h == PutInto(g, e, s, t, n)
        h1 == IF n >= 2 THEN TakeBack(h, e, s, t, place[2]) ELSE h
    IN  IF n >= 1 THEN TakeBack(h1, e, s, t, place[1]) ELSE h1

-----------------------------------------------------------------------------
(* Removal.                                                                *)

\* remove_vertex throws "vertex is still connected." if there are out edges.
Connected(g, v) == g.out[v] # <<>>

WithoutVertex(g, v) ==
    [g EXCEPT !.vertices = Without(@, {v}), !.vindex[v] = 0, !.in[v] = <<>>]

\* Erases the edges of a set from the edge list.
Erased(g, dead) ==
    [g EXCEPT !.edges = Without(@, dead),
              !.eindex = [e \in Edges |-> IF e \in dead THEN 0 ELSE @[e]],
              !.source = [e \in Edges |-> IF e \in dead THEN NoVertex ELSE @[e]],
              !.target = [e \in Edges |-> IF e \in dead THEN NoVertex ELSE @[e]]]

\* The lists u.out_edges and u.in_edges without the edges that are dead there.
Unlisted(g, deadOut, deadIn) ==
    [g EXCEPT !.out = [u \in Vertices |-> Without(@[u], deadOut[u])],
              !.in  = [u \in Vertices |-> Without(@[u], deadIn[u])]]

\* Mutant: the far end of an undirected edge, or the in edge, is forgotten.
RemoveEdgesHere(g, s, dead) ==
    Erased(Unlisted(g, [u \in Vertices |-> IF u = s THEN dead ELSE {}],
                    [u \in Vertices |-> {}]), dead)

\* Both remove_edge: edges of s.out_edges, with the entries at their targets.
RemoveEdgesOf(g, s, dead) ==
    LET deadOut == [u \in Vertices |-> {e \in dead : u = s \/ (Undirected(g) /\ u = g.target[e])}]
        deadIn  == [u \in Vertices |-> {e \in dead : Bidirectional(g) /\ u = g.target[e]}]
    IN  Erased(Unlisted(g, deadOut, deadIn), dead)

\* remove_edge(edge) looks the edge up at its source.
WithoutEdge(g, e) ==
    LET s == g.source[e]
    IN  RemoveEdgesOf(g, s, {e} \cap Members(g.out[s]))

\* remove_edge(source, target): the parallel edges, but not, in an undirected
\* graph, those that were entered from target to source.
WithoutEdges(g, s, t) ==
    RemoveEdgesOf(g, s, {e \in Members(g.out[s]) : g.source[e] = s /\ g.target[e] = t})

\* clear_vertex: the edges in v.out_edges leave the lists of their other ends,
\* v's own lists are emptied; the ingoing edges of a directed graph are found
\* in the out edges of all vertices.
Cleared(g, v) ==
    LET mine     == Members(g.out[v])
        ingoing  == {e \in Edges : /\ ~Undirected(g)
                                   /\ \E u \in Members(g.vertices) \ {v} : e \in Members(g.out[u])
                                   /\ g.target[e] = v}
        Ends(e)  == IF Undirected(g) THEN {g.source[e], g.target[e]} ELSE {g.target[e]}
        deadOut == [u \in Vertices |-> IF u = v THEN mine
                                       ELSE {e \in mine : u \in Ends(e)} \cup ingoing]
        deadIn  == [u \in Vertices |-> IF u = v THEN Members(g.in[v])
                                       ELSE {e \in mine : u = g.target[e]}]
    IN  Erased(Unlisted(g, deadOut, deadIn), mine \cup ingoing)

-----------------------------------------------------------------------------
\* Position in a list, from 0.
Place(x, s) == (CHOOSE i \in DOMAIN s : s[i] = x) - 1

Reindexed(g) ==
    [g EXCEPT !.vindex = [v \in Vertices |->
                             IF v \in Members(g.vertices) THEN Place(v, g.vertices) ELSE 0],
              !.eindex = [e \in Edges |->
                             IF e \in Members(g.edges) THEN Place(e, g.edges) ELSE 0]]

\* What a graph is, up to the addresses: the size, the ends of the edges and
\* the lists, all by position.
Shape(g) ==
    [size  |-> Len(g.vertices),
     edges |-> [i \in DOMAIN g.edges |->
                   <<Place(g.source[g.edges[i]], g.vertices), Place(g.target[g.edges[i]], g.vertices)>>],
     out   |-> [i \in DOMAIN g.vertices |->
                   [j \in DOMAIN g.out[g.vertices[i]] |-> Place(g.out[g.vertices[i]][j], g.edges)]],
     in    |-> [i \in DOMAIN g.vertices |->
                   [j \in DOMAIN g.in[g.vertices[i]] |-> Place(g.in[g.vertices[i]][j], g.edges)]]]

\* copy_from: the vertices in order.
VerticesCopied(g) ==
    LET vs[n \in 0..Len(g.vertices)] ==
            IF n = 0 THEN EmptyGraph(g.direction) ELSE WithVertex(vs[n - 1], g.vertices[n])
    IN  vs[Len(g.vertices)]

\* Then the edges, whose ends are looked up in vertex_map by the index that the
\* other graph stores in its vertices.
CopyOf(g) ==
    LET VertexAt(v) == g.vertices[g.vindex[v] + 1]
        es[n \in 0..Len(g.edges)] ==
            IF n = 0 THEN VerticesCopied(g)
            ELSE WithEdge(es[n - 1], g.edges[n],
                          VertexAt(g.source[g.edges[n]]), VertexAt(g.target[g.edges[n]]))
    IN  es[Len(g.edges)]

-----------------------------------------------------------------------------
GraphInit ==
    /\ \E direction \in Directions : graph = EmptyGraph(direction)
    /\ dirty = FALSE

AddVertex ==
    \E v \in FreeVertices(graph) :
        /\ graph' = WithVertex(graph, v)
        /\ UNCHANGED dirty

AddEdge ==
    \E s, t \in Members(graph.vertices), e \in FreeEdges(graph) :
        /\ graph' = WithEdge(graph, e, s, t)
        /\ UNCHANGED dirty

AddEdgeThrows ==
    \E s, t \in Members(graph.vertices), e \in FreeEdges(graph) :
        \E n \in 0..(Len(Places(graph, s, t)) - 1) :
            /\ graph' = EdgeFails(graph, e, s, t, n)
            /\ UNCHANGED dirty

\* Every caller clears the vertex first or sees that its degree is 0;
\* remove_vertex itself would not notice ingoing edges.
RemoveVertex ==
    \E v \in Members(graph.vertices) :
        /\ ~Connected(graph, v)
        /\ \A e \in Members(graph.edges) : v \notin {graph.source[e], graph.target[e]}
        /\ graph' = WithoutVertex(graph, v)
        /\ dirty' = TRUE

ClearVertex ==
    \E v \in Members(graph.vertices) :
        /\ graph' = Cleared(graph, v)
        /\ dirty' = TRUE

RemoveEdge ==
    \E e \in Members(graph.edges) :
        /\ graph' = WithoutEdge(graph, e)
        /\ dirty' = TRUE

RemoveEdges ==
    \E s, t \in Members(graph.vertices) :
        /\ graph' = WithoutEdges(graph, s, t)
        /\ dirty' = TRUE

Reindex ==
    /\ graph' = Reindexed(graph)
    /\ dirty' = FALSE

GraphNext ==
    \/ AddVertex \/ AddEdge \/ AddEdgeThrows
    \/ RemoveVertex \/ ClearVertex \/ RemoveEdge \/ RemoveEdges
    \/ Reindex

GraphSpec == GraphInit /\ [][GraphNext]_graphVars

-----------------------------------------------------------------------------
(* Properties.                                                             *)

\* The lists hold elements that exist, each once.
Listed(s, S) == Members(s) \subseteq S /\ Len(s) = Cardinality(Members(s))

OutOf(g, v) == {e \in Members(g.edges) :
                    g.source[e] = v \/ (Undirected(g) /\ g.target[e] = v)}
Into(g, v)  == {e \in Members(g.edges) : Bidirectional(g) /\ g.target[e] = v}

Follows(s, list) ==
    \A i, j \in DOMAIN s : i < j => Place(s[i], list) < Place(s[j], list)

\* The two directions of every link agree: a vertex lists exactly the edges that
\* name it as their end, each once, a self-loop too, and a vertex that is gone is
\* nobody's end.  The lists have the order of the edge list.
Consistent(g) ==
    /\ \A e \in Members(g.edges) : {g.source[e], g.target[e]} \subseteq Members(g.vertices)
    /\ \A v \in Vertices :
          /\ Listed(g.out[v], Edges) /\ Members(g.out[v]) = OutOf(g, v)
          /\ Listed(g.in[v], Edges)  /\ Members(g.in[v]) = Into(g, v)
          /\ Follows(g.out[v], g.edges) /\ Follows(g.in[v], g.edges)

\* After any sequence of additions and removals the links agree, in the order in
\* which copies and the compressed graph enumerate the edges.  So a copy of a
\* reindexed graph is the same graph, edge by edge and list by list.
Linked ==
    /\ Consistent(graph)
    /\ ~dirty => Shape(CopyOf(graph)) = Shape(graph)

\* The stored indices are the positions.
Indexed(g) ==
    /\ \A v \in Members(g.vertices) : g.vindex[v] = Place(v, g.vertices)
    /\ \A e \in Members(g.edges) : g.eindex[e] = Place(e, g.edges)

\* Unless something was removed since the last reindex(), the stored indices
\* are the positions; what searches by index relies on it.
IndexIsPosition == ~dirty => Indexed(graph)

\* add_edge that throws, at whichever of its allocations, leaves the graph as
\* it was.
FailedAddChangesNothing == [][AddEdgeThrows => UNCHANGED graph]_graphVars
=============================================================================
