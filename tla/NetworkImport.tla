--------------------------- MODULE NetworkImport ---------------------------
(***************************************************************************)
(* The clean-up passes over an imported road network                       *)
(* (include/geometry/network/network_import.hpp): simplify, removal of     *)
(* one-way dead ends, of unconnected components, of duplicate nodes and of *)
(* duplicate edges.                                                        *)
(*                                                                         *)
(* Each pass walks a list of the bidirectional adjacency list while it     *)
(* edits it.  One step is one round of the loop: the iterator to the next  *)
(* vertex is taken before the round edits the graph, so it is part of the  *)
(* state and may be stale when it is used.  A use of a stale iterator      *)
(* leads to the control point "undefined", from where nothing is claimed.  *)
(***************************************************************************)
EXTENDS AdjacencyList

LOCAL INSTANCE SequencesExt

CONSTANTS
    VertexOrder,   \* the vertices of the imported network, in the order of the list
    Points,        \* the coordinates vertices can have
    Ways,          \* what edges can have for id and tags
    Calls,         \* the passes that are tried: parameters, and networks to call them on
    AllocFails,    \* TRUE: simplify may run out of mapped memory, once
    End            \* the end iterator of the vertex list

Passes == {"simplify", "dead ends", "unconnected", "duplicate nodes", "duplicate edges"}

\* What the constants are, assumed by MCOsmImport.
ImportAssumption ==
    /\ Directions = {"bidirectional"}
    /\ Members(VertexOrder) = Vertices
    /\ AllocFails \in BOOLEAN
    /\ Calls \subseteq
          [pass       : Passes,
           simplify   : BOOLEAN,                          \* parameter of remove_duplicate_nodes
           complete   : BOOLEAN,                          \* simplify_network_complete: ids and
                                                          \* tags do not matter
           placements : SUBSET [Vertices -> Points],      \* where the vertices can be
           ends       : SUBSET (Vertices \X Vertices),    \* sources and targets of edges
           labels     : SUBSET Ways,                      \* ids and tags of edges
           edges      : Nat]                              \* bound on their number
    /\ End \notin Vertices

VARIABLES
    call,        \* the pass and its parameters
    at,          \* at[v]: the coordinates of vertex v
    line,        \* line[e]: the points of edge e
    way,         \* way[e]: id and tags of edge e
    pc,          \* "walk", "work", "done" or "undefined"
    cursor,      \* the vertex iterator of the next round
    resuming,    \* the local was_running of simplify
    marked,      \* _simplify_vertex, or -1 while _simplify_vertex_set is false
    failed,      \* an allocation of simplify failed
    worklist,    \* vertices that remove_dead_end, or the search, has yet to visit
    visited,     \* indices of the vertices the search has discovered
    components,  \* the components found, each the list of its vertices
    nodes,       \* node_map: the points seen, and the vertex of each
    imported     \* history: the network before the pass

dataVars == <<graph, dirty, line, way>>
walkVars == <<pc, cursor>>
workVars == <<resuming, marked, failed, worklist, visited, components, nodes>>
importVars == <<dataVars, walkVars, workVars, call, at, imported>>

\* A network as a value, so that the edits of one round compose.
Network == [graph |-> graph, line |-> line, way |-> way]

Become(n) ==
    /\ graph' = n.graph
    /\ line' = n.line
    /\ way' = n.way
    /\ dirty' = (dirty \/ n.graph # graph)

\* The iterator behind v, which must be in the list.
Succ(v) ==
    LET i == Place(v, graph.vertices) + 1
    IN  IF i = Len(graph.vertices) THEN End ELSE graph.vertices[i + 1]

First(g) == IF g.vertices = <<>> THEN End ELSE g.vertices[1]

Valid(v) == v \in Members(graph.vertices)

\* add_edge with an edge_data, at some free address.
AddLine(n, s, t, points, label) ==
    LET e == CHOOSE e \in FreeEdges(n.graph) : TRUE
    IN  [graph |-> WithEdge(n.graph, e, s, t),
         line  |-> [n.line EXCEPT ![e] = points],
         way   |-> [n.way EXCEPT ![e] = label]]

\* remove_edge; its edge_data goes with it.
DropLine(n, e) ==
    [n EXCEPT !.graph = WithoutEdge(@, e), !.line[e] = <<>>,
              !.way[e] = CHOOSE w \in Ways : TRUE]

DropVertex(n, v) == [n EXCEPT !.graph = WithoutVertex(@, v)]

Degree(g, v) == Len(g.in[v]) + Len(g.out[v])

-----------------------------------------------------------------------------
(* Merging at a vertex, used by simplify and remove_duplicate_nodes.       *)

\* Two edges that are each other's reverse, in their ends and their lines.
Reversed(n, i, o) ==
    /\ i # o
    /\ n.graph.source[i] = n.graph.target[o]
    /\ n.graph.target[i] = n.graph.source[o]
    /\ n.line[i] = Reverse(n.line[o])

\* _is_mergeable: a one-way pattern, or two edges in and two out that pair up.
\* An ingoing edge takes every outgoing edge that is its reverse and was not
\* taken by the ingoing edge before it.
IsMergeable(n, v) ==
    LET in == n.graph.in[v]  out == n.graph.out[v]
        Reverses(i) == {o \in Members(out) : Reversed(n, in[i], o)}
        Taken == Reverses(1)
        Rest == Reverses(2) \ Taken
    IN  \/ Len(in) = 1 /\ Len(out) = 1
        \/ /\ Len(in) = 2 /\ Len(out) = 2
           /\ Cardinality(Taken) = 1 /\ Cardinality(Rest) = 1

\* _populate_merges: the pairs of an ingoing and an outgoing edge to merge, no
\* edge in two of them at the same side, none that leads back where it came from.
Merges(n, v) ==
    LET Fits(i, o) == /\ i # o
                      /\ n.graph.source[i] # n.graph.target[o]
                      /\ call.complete \/ n.way[i] = n.way[o]
        Pairs(i) == [k \in DOMAIN n.graph.out[v] |-> <<i, n.graph.out[v][k]>>]
        Add(pairs, p) ==
            IF Fits(p[1], p[2]) /\ \A q \in Members(pairs) : q[1] # p[1] /\ q[2] # p[2]
            THEN Append(pairs, p) ELSE pairs
    IN  FoldLeft(Add, <<>>, FlattenSeq([k \in DOMAIN n.graph.in[v] |-> Pairs(n.graph.in[v][k])]))

\* Mutant: the ends of the new edge are swapped.
MergePairSwapped(n, p) ==
    LET v == n.graph.target[p[1]]
        joined == n.line[p[1]] \o Tail(n.line[p[2]])
        added == AddLine(DropLine(DropLine(n, p[1]), p[2]),
                         n.graph.target[p[2]], n.graph.source[p[1]], joined, n.way[p[1]])
    IN  IF Degree(added.graph, v) = 0 THEN DropVertex(added, v) ELSE added

\* _merge: the two edges are replaced by one, and the vertex between them goes
\* when nothing is left at it.
MergePair(n, p) ==
    LET v == n.graph.target[p[1]]
        joined == n.line[p[1]] \o Tail(n.line[p[2]])
        added == AddLine(DropLine(DropLine(n, p[1]), p[2]),
                         n.graph.source[p[1]], n.graph.target[p[2]], joined, n.way[p[1]])
    IN  IF Degree(added.graph, v) = 0 THEN DropVertex(added, v) ELSE added

MergeAll(n, pairs) == FoldLeft(MergePair, n, pairs)

MergesAt(n, v) == IF IsMergeable(n, v) THEN Merges(n, v) ELSE <<>>

-----------------------------------------------------------------------------
(* simplify().                                                             *)

\* After an error and restart: vertices before the marked one are passed over.
SimplifySkip ==
    /\ call.pass = "simplify" /\ pc = "walk" /\ cursor # End
    /\ resuming /\ marked # -1
    /\ graph.vindex[cursor] # marked
    /\ cursor' = Succ(cursor)
    /\ UNCHANGED <<dataVars, pc, workVars, call, at, imported>>

AtSimplifyVertex ==
    /\ call.pass = "simplify" /\ pc = "walk" /\ cursor # End
    /\ resuming /\ marked # -1 => graph.vindex[cursor] = marked

SimplifyVisit ==
    /\ AtSimplifyVertex
    /\ LET pairs == MergesAt(Network, cursor)
       IN  /\ Become(MergeAll(Network, pairs))
           /\ marked' = IF pairs = <<>> THEN marked ELSE graph.vindex[cursor]
    /\ resuming' = FALSE
    /\ cursor' = Succ(cursor)
    /\ UNCHANGED <<pc, failed, worklist, visited, components, nodes, call, at, imported>>

\* Merging the tags or the lines of the k-th pair finds no memory, before the
\* edges are touched: retry_alloc grows the file and calls simplify() again.
SimplifyFails ==
    /\ AllocFails /\ ~failed
    /\ AtSimplifyVertex
    /\ LET pairs == MergesAt(Network, cursor)
       IN  \E k \in DOMAIN pairs : Become(MergeAll(Network, SubSeq(pairs, 1, k - 1)))
    /\ marked' = graph.vindex[cursor]
    /\ failed' = TRUE
    /\ resuming' = TRUE
    /\ cursor' = First(graph)
    /\ UNCHANGED <<pc, worklist, visited, components, nodes, call, at, imported>>

-----------------------------------------------------------------------------
(* remove_oneway_dead_ends().                                              *)

IsDeadEnd(v) == graph.in[v] # <<>> /\ graph.out[v] = <<>>

Gone(v) == WithoutVertex(Cleared(graph, v), v)

\* Mutant: the sources of a removed dead end are not looked at again.
WorkForgets(v) == Tail(worklist)

\* remove_dead_end gathers the sources of the ingoing edges before the vertex
\* and its edges go; one that has several of them is gathered several times.
WorkAfter(v) ==
    Tail(worklist) \o [i \in DOMAIN graph.in[v] |-> graph.source[graph.in[v][i]]]

DeadEndVisit ==
    /\ call.pass = "dead ends" /\ pc = "walk" /\ cursor # End
    /\ Valid(cursor)
    /\ cursor' = Succ(cursor)
    /\ worklist' = IF IsDeadEnd(cursor) THEN <<cursor>> ELSE <<>>
    /\ pc' = IF IsDeadEnd(cursor) THEN "work" ELSE "walk"
    /\ UNCHANGED <<dataVars, resuming, marked, failed, visited, components, nodes, call, at, imported>>

DeadEndWork ==
    /\ call.pass = "dead ends" /\ pc = "work" /\ worklist # <<>>
    /\ Valid(worklist[1])
    /\ IF IsDeadEnd(worklist[1])
       THEN /\ worklist' = WorkAfter(worklist[1])
            /\ Become([Network EXCEPT !.graph = Gone(worklist[1])])
       ELSE /\ worklist' = Tail(worklist)
            /\ UNCHANGED dataVars
    /\ UNCHANGED <<walkVars, resuming, marked, failed, visited, components, nodes, call, at, imported>>

DeadEndWorkDone ==
    /\ call.pass = "dead ends" /\ pc = "work" /\ worklist = <<>>
    /\ pc' = "walk"
    /\ UNCHANGED <<dataVars, cursor, workVars, call, at, imported>>

\* A vertex in the list of the recursion, or the iterator that the loop took
\* before it, belongs to a vertex that has been removed.
StaleUse ==
    /\ \/ pc = "walk" /\ cursor # End /\ ~Valid(cursor)
       \/ call.pass = "dead ends" /\ pc = "work" /\ worklist # <<>> /\ ~Valid(worklist[1])
    /\ pc' = "undefined"
    /\ UNCHANGED <<dataVars, cursor, workVars, call, at, imported>>

-----------------------------------------------------------------------------
(* remove_unconnected_components(), with breadth_first_search().           *)

SearchStart ==
    /\ call.pass = "unconnected" /\ pc = "walk" /\ cursor # End
    /\ cursor' = Succ(cursor)
    /\ IF graph.vindex[cursor] \in visited
       THEN UNCHANGED <<pc, worklist, visited, components>>
       ELSE /\ visited' = visited \cup {graph.vindex[cursor]}
            /\ components' = Append(components, <<cursor>>)
            /\ worklist' = <<cursor>>
            /\ pc' = "work"
    /\ UNCHANGED <<dataVars, resuming, marked, failed, nodes, call, at, imported>>

\* One vertex leaves the queue; the targets of its out edges that were not
\* discovered yet are, in the order of the edges.
SearchExpand ==
    /\ call.pass = "unconnected" /\ pc = "work" /\ worklist # <<>>
    /\ LET out == graph.out[worklist[1]]
           Add(found, e) ==
               LET t == graph.target[e]
               IN  IF graph.vindex[t] \in visited \/ t \in Members(found)
                   THEN found ELSE Append(found, t)
           found == FoldLeft(Add, <<>>, out)
           last == Len(components)
       IN  /\ worklist' = Tail(worklist) \o found
           /\ visited' = visited \cup {graph.vindex[t] : t \in Members(found)}
           /\ components' = [components EXCEPT ![last] = @ \o found]
    /\ UNCHANGED <<dataVars, walkVars, resuming, marked, failed, nodes, call, at, imported>>

SearchDone ==
    /\ call.pass = "unconnected" /\ pc = "work" /\ worklist = <<>>
    /\ pc' = "walk"
    /\ UNCHANGED <<dataVars, cursor, workVars, call, at, imported>>

\* std::max_element: the first of the largest.
Largest ==
    CHOOSE i \in DOMAIN components : \A j \in DOMAIN components :
        /\ Len(components[j]) <= Len(components[i])
        /\ j < i => Len(components[j]) < Len(components[i])

\* clear_vertex and remove_vertex for every vertex of the other components.
RemoveSmall ==
    LET small == {i \in DOMAIN components : i # Largest}
        dead  == SelectSeq(FlattenSeq(components),
                           LAMBDA v : \E i \in small : v \in Members(components[i]))
    IN  FoldLeft(LAMBDA g, v : WithoutVertex(Cleared(g, v), v), graph, dead)

SearchFinish ==
    /\ call.pass = "unconnected" /\ pc = "walk" /\ cursor = End
    /\ components # <<>>
    /\ Become([Network EXCEPT !.graph = RemoveSmall])
    /\ components' = <<>>
    /\ UNCHANGED <<walkVars, resuming, marked, failed, worklist, visited, nodes, call, at, imported>>

-----------------------------------------------------------------------------
(* remove_duplicate_nodes().                                               *)

\* The edges at the duplicate v become edges at the existing vertex x: first
\* the ingoing ones, then the outgoing ones, a self-loop thus in two moves.
Moved(n, v, x) ==
    LET MoveIn(m, e)  == DropLine(AddLine(m, m.graph.source[e], x, m.line[e], m.way[e]), e)
        MoveOut(m, e) == DropLine(AddLine(m, x, m.graph.target[e], m.line[e], m.way[e]), e)
        in == FoldLeft(MoveIn, n, n.graph.in[v])
    IN  FoldLeft(MoveOut, in, in.graph.out[v])

Known(p) == {v \in nodes : at[v] = p}

NodeFirst ==
    /\ call.pass = "duplicate nodes" /\ pc = "walk" /\ cursor # End
    /\ Valid(cursor)
    /\ Known(at[cursor]) = {}
    /\ nodes' = nodes \cup {cursor}
    /\ cursor' = Succ(cursor)
    /\ UNCHANGED <<dataVars, pc, resuming, marked, failed, worklist, visited, components,
                   call, at, imported>>

\* A vertex at the coordinates of an earlier one is merged into it; then the
\* earlier one is merged away if it can be, and forgotten in any case.
NodeDuplicate ==
    /\ call.pass = "duplicate nodes" /\ pc = "walk" /\ cursor # End
    /\ Valid(cursor)
    /\ \E x \in Known(at[cursor]) :
          LET n == DropVertex(Moved(Network, cursor, x), cursor)
              omit == call.simplify /\ IsMergeable(n, x)
          IN  /\ Become(IF omit THEN MergeAll(n, Merges(n, x)) ELSE n)
              /\ nodes' = IF omit THEN nodes \ {x} ELSE nodes
    /\ cursor' = Succ(cursor)
    /\ UNCHANGED <<pc, resuming, marked, failed, worklist, visited, components, call, at, imported>>

-----------------------------------------------------------------------------
(* remove_duplicate_edges().                                               *)

Same(e, f) == way[e] = way[f] /\ line[e] = line[f]

\* The edges that equal an earlier one in the list.
Repeated ==
    {e \in Members(graph.edges) : \E f \in Members(graph.edges) :
        Place(f, graph.edges) < Place(e, graph.edges) /\ Same(e, f)}

RemoveRepeated ==
    /\ call.pass = "duplicate edges" /\ pc = "walk" /\ Repeated # {}
    /\ Become(FoldLeft(DropLine, Network,
                       SelectSeq(graph.edges, LAMBDA e : e \in Repeated)))
    /\ UNCHANGED <<walkVars, workVars, call, at, imported>>

-----------------------------------------------------------------------------
(* Every pass ends with reindex().                                         *)

Finished ==
    CASE call.pass = "unconnected"     -> cursor = End /\ components = <<>>
      [] call.pass = "duplicate edges" -> Repeated = {}
      [] OTHER                    -> cursor = End

Finish ==
    /\ pc = "walk"
    /\ Finished
    /\ graph' = Reindexed(graph)
    /\ dirty' = FALSE
    /\ pc' = "done"
    /\ UNCHANGED <<line, way, cursor, workVars, call, at, imported>>

\* The pass has returned, or nothing is known any more.
Stopped ==
    /\ pc \in {"done", "undefined"}
    /\ UNCHANGED importVars

\* The importers create straight edges between the coordinates of their ends.
Straight(ends, where, labels) ==
    LET vs == FoldLeft(LAMBDA g, v : WithVertex(g, v), EmptyGraph("bidirectional"), VertexOrder)
        none == [graph |-> vs, line |-> [e \in Edges |-> <<>>],
                 way |-> [e \in Edges |-> CHOOSE w \in Ways : TRUE]]
        Add(n, i) == AddLine(n, ends[i][1], ends[i][2],
                             <<where[ends[i][1]], where[ends[i][2]]>>, labels[i])
    IN  FoldLeft(Add, none, [i \in DOMAIN ends |-> i])

ImportInit ==
    \E c \in Calls : \E k \in 0..c.edges :
    \E where \in c.placements, ends \in [1..k -> c.ends], labels \in [1..k -> c.labels] :
        LET n == Straight(ends, where, labels)
        IN  /\ call = [pass |-> c.pass, simplify |-> c.simplify, complete |-> c.complete]
            /\ at = where
            /\ graph = n.graph
            /\ line = n.line
            /\ way = n.way
            /\ imported = n
            /\ dirty = FALSE
            /\ pc = "walk"
            /\ cursor = VertexOrder[1]
            /\ resuming = FALSE
            /\ marked = -1
            /\ failed = FALSE
            /\ worklist = <<>>
            /\ visited = {}
            /\ components = <<>>
            /\ nodes = {}

ImportNext ==
    \/ SimplifySkip \/ SimplifyVisit \/ SimplifyFails
    \/ DeadEndVisit \/ DeadEndWork \/ DeadEndWorkDone \/ StaleUse
    \/ SearchStart \/ SearchExpand \/ SearchDone \/ SearchFinish
    \/ NodeFirst \/ NodeDuplicate
    \/ RemoveRepeated
    \/ Finish
    \/ Stopped

ImportSpec == ImportInit /\ [][ImportNext]_importVars
-----------------------------------------------------------------------------
(* Properties.                                                             *)

\* remove_dead_end travels the vertices it gathered "after removing the current
\* one": it uses no iterator to a vertex that it removed.
NoStaleIterator == pc # "undefined"

Alive == Members(graph.vertices)

\* After the pass the graph is linked both ways and reindexed.
CleanAtEnd == pc = "done" => Linked /\ IndexIsPosition /\ ~dirty

\* The straight pieces of road in a network, with the ways they belong to.
Pieces(n) ==
    LET Of(e) == [k \in 1..(Len(n.line[e]) - 1) |-> <<n.line[e][k], n.line[e][k + 1], n.way[e]>>]
    IN  FlattenSeq([i \in DOMAIN n.graph.edges |-> Of(n.graph.edges[i])])

SamePieces(s, t) ==
    /\ Len(s) = Len(t)
    /\ \A x \in Members(s) : Cardinality({i \in DOMAIN s : s[i] = x})
                                 = Cardinality({i \in DOMAIN t : t[i] = x})

\* "the spatial information (for example curves) of the graph is not altered":
\* every straight piece of road is still there, as often and in the same
\* direction, after simplify (also when it was interrupted and restarted) and
\* after duplicate nodes were removed; with the id and the tags it was imported
\* with, unless the network is simplified completely.
RoadsKept ==
    LET Bare(t) == [i \in DOMAIN t |-> <<t[i][1], t[i][2]>>]
    IN  /\ call.pass \in {"simplify", "duplicate nodes"}
              => SamePieces(Bare(Pieces(Network)), Bare(Pieces(imported)))
        /\ call.pass = "simplify" /\ ~call.complete
              => SamePieces(Pieces(Network), Pieces(imported))

\* The vertices that can be reached from v.
Reach(g, v) ==
    LET Step(S) == S \cup {g.target[e] : e \in {f \in Members(g.edges) : g.source[f] \in S}}
        R[k \in 0..Cardinality(Vertices)] == IF k = 0 THEN {v} ELSE Step(R[k - 1])
    IN  R[Cardinality(Vertices)]

\* simplify changes no route: between the vertices that are left, the same ones
\* can be reached from each other as before.
RoutesKept ==
    (call.pass = "simplify" /\ pc = "done") =>
        \A v \in Alive : Reach(graph, v) = Reach(imported.graph, v) \cap Alive

\* simplify leaves nothing to merge: the restart, and the merges at one vertex
\* on behalf of another visited before it, miss none.
SimplifiedFully ==
    (call.pass = "simplify" /\ call.complete /\ pc = "done") =>
        \A v \in Alive : MergesAt(Network, v) = <<>>

OnCycle(g, v) == \E e \in Members(g.out[v]) : v \in Reach(g, g.target[e])

\* However long the one-way road into a dead end, it is removed, and nothing
\* else: what is left is every vertex from which one can drive on forever, and
\* every vertex that no edge leads to at the start.
DeadEndsGone ==
    (call.pass = "dead ends" /\ pc = "done") =>
        \A v \in Vertices :
            v \in Alive <=> \/ imported.graph.in[v] = <<>>
                           \/ \E u \in Reach(imported.graph, v) : OnCycle(imported.graph, u)

\* Neighbours in either direction.
Touching(g, S) ==
    S \cup {g.target[e] : e \in {f \in Members(g.edges) : g.source[f] \in S}}
      \cup {g.source[e] : e \in {f \in Members(g.edges) : g.target[f] \in S}}

Component(g, v) ==
    LET R[k \in 0..Cardinality(Vertices)] == IF k = 0 THEN {v} ELSE Touching(g, R[k - 1])
    IN  R[Cardinality(Vertices)]

\* What a search of remove_unconnected_components discovers: it follows edges forth only, so
\* from a vertex it finds what can be reached and was not found from an earlier one.
Found(v) ==
    Reach(imported.graph, v) \ UNION {Reach(imported.graph, u) :
        u \in {u \in Vertices : Place(u, VertexOrder) < Place(v, VertexOrder)}}

\* What is left after remove_unconnected_components hangs together and is a largest find of a
\* search, with every edge inside of it.
RemainderConnected ==
    (call.pass = "unconnected" /\ pc = "done") =>
        /\ \A u, v \in Alive : u \in Component(graph, v)
        /\ \E v \in Vertices : Alive = Found(v)
        /\ \A v \in Vertices : Cardinality(Found(v)) <= Cardinality(Alive)
        /\ Members(graph.edges) =
               {e \in Members(imported.graph.edges) :
                   {imported.graph.source[e], imported.graph.target[e]} \subseteq Alive}

\* "remove weakly unconnected components so that only the largest subgraph remains"
\* (options.cpp:1007; the code says "largest weakly component", network_import.hpp:212): of
\* what hangs together nothing is removed when some of it is left.
WeakComponentKept ==
    (call.pass = "unconnected" /\ pc = "done") => \A v \in Alive : Component(imported.graph, v) = Alive

\* "remove duplicate nodes by comparing exact coordinates" (options.cpp:1011): no two nodes
\* with equal coordinates are left.
NoDuplicateNodes ==
    (call.pass = "duplicate nodes" /\ pc = "done") => \A u, v \in Alive : at[u] = at[v] => u = v

\* What remove_duplicate_nodes keeps of that: without simplify it holds; with it, of two nodes
\* with equal coordinates one is a node that could have been merged away by its degree, so its
\* coordinates were forgotten (node_map.erase, network_import.hpp:297), but nothing merged.
DuplicatesForgotten ==
    (call.pass = "duplicate nodes" /\ pc = "done") =>
        \A u, v \in Alive : u # v /\ at[u] = at[v] =>
            call.simplify /\ \E x \in {u, v} \ nodes : IsMergeable(Network, x)

\* Of each group of equal edges exactly one is left.
OneOfEachEdge ==
    (call.pass = "duplicate edges" /\ pc = "done") =>
        \A e \in Members(imported.graph.edges) :
            Cardinality({f \in Members(graph.edges) :
                line[f] = imported.line[e] /\ way[f] = imported.way[e]}) = 1

\* Every pass has done all of its work when it returns, restarted or not, and leaves a
\* graph that can be worked on (network_import.hpp:39-312).
PassesComplete ==
    SimplifiedFully /\ DeadEndsGone /\ RemainderConnected /\ DuplicatesForgotten /\ OneOfEachEdge
    /\ CleanAtEnd

\* The passes change how roads are cut into edges, never where one can drive
\* (network_import.hpp:39-171).
RoadsAndRoutesKept == RoadsKept /\ RoutesKept
=============================================================================
