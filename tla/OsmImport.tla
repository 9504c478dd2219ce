------------------------------ MODULE OsmImport ------------------------------
(***************************************************************************)
(* The import of OpenStreetMap files: osm_handler                          *)
(* (include/io/network/osm_handler.hpp) and osm_handler_helper             *)
(* (include/io/helper/osm_handler_helper.hpp) on top of ImportStore.       *)
(*                                                                         *)
(* The reader hands over the entities of the files one by one.  A node is  *)
(* only remembered, in a container that is sorted when it has to be; a way *)
(* adds the remembered nodes it leads through to the graph, and then one   *)
(* or two edges for each pair of neighbours.  Several files are read one   *)
(* after the other, so nodes and ways may be seen again, and a node may    *)
(* come after a way that needs it.                                         *)
(***************************************************************************)
EXTENDS ImportStore

CONSTANTS
    Ways,         \* ways that pass the filters: id, refs (node ids), oneway, reverse
    MaxWaysRead   \* bound on the ways in the files

ASSUME OsmAssumption ==
    /\ DOMAIN NodeTags \subseteq Nat
    /\ Ways \subseteq [id : DOMAIN WayTags, refs : Seq(Nat) \ {<<>>},
                       oneway : BOOLEAN, reverse : BOOLEAN]
    /\ \A way \in Ways : WayTags[way.id] # <<>>   \* one tag passed the query
    /\ Nothing \notin Ways
    /\ MaxWaysRead \in Nat

VARIABLES
    known,      \* the container vertices: id, index (vertex_index), added
    unsorted,   \* _sort_vertices
    way,        \* the way that is being imported, or Nothing
    stage,      \* "nodes", "edges": the two loops of way()
    i,          \* their index, from 1
    due,        \* the edges that are left of this pair, as pairs of node ids
    reading,    \* the files are not at their end
    history     \* history: the ways read, each with the ids that were known then

osmVars == <<known, unsorted, way, stage, i, due, reading, history>>
allVars == <<importStoreVars, osmVars>>

-----------------------------------------------------------------------------
(* osm_handler_helper: the container of nodes.                             *)

\* x comes after the elements with smaller ids.
Inserted(s, x) ==
    LET below == {y \in Members(s) : y.id < x.id}
    IN  Append(Without(s, Members(s) \ below), x) \o Without(s, below)

\* The container sorted by id.
Arranged(s) ==
    LET part[n \in 0..Len(s)] == IF n = 0 THEN <<>> ELSE Inserted(part[n - 1], s[n])
    IN  part[Len(s)]

Sorted(s) == IF unsorted THEN Arranged(s) ELSE s

\* A step of std::lower_bound: the range that is left starts after "first" elements.
Halved(s, id, range) ==
    LET half == range.count \div 2
        middle == range.first + half + 1
    IN  CASE range.count = 0 -> range
          [] range.count # 0 /\ s[middle].id < id ->
                [first |-> middle, count |-> range.count - half - 1]
          [] OTHER -> [first |-> range.first, count |-> half]

\* The number of elements that std::lower_bound takes for smaller than id.
LowerBound(s, id) ==
    LET range[n \in 0..Len(s)] ==
            IF n = 0 THEN [first |-> 0, count |-> Len(s)] ELSE Halved(s, id, range[n - 1])
    IN  range[Len(s)].first

\* The position that get_node returns, and contains_node.
Position(s, id) == LowerBound(s, id) + 1
Contained(s, id) == Position(s, id) \in DOMAIN s /\ s[Position(s, id)].id = id

\* A node that no way has visited.
OsmVertex(id) == [id |-> id, index |-> 0, added |-> FALSE]

\* Mutant: the new node is not compared with the last one.
ReadNodeUnchecked(id) ==
    /\ reading /\ way = Nothing /\ pc = "idle"
    /\ LET s == Sorted(known)
       IN  known' = IF Contained(s, id) THEN s ELSE Append(s, OsmVertex(id))
    /\ unsorted' = FALSE
    /\ UNCHANGED <<importStoreVars, way, stage, i, due, reading, history>>

\* node(): a node that is known already is skipped; both sort first.  When the
\* helper's own files are full, add_node is tried again with the same effect,
\* and the import ends if that fails.
ReadNode(id) ==
    /\ reading /\ way = Nothing /\ pc = "idle"
    /\ LET s == Sorted(known)
       IN  IF Contained(s, id)
           THEN known' = s /\ unsorted' = FALSE
           ELSE /\ known' = Append(s, OsmVertex(id))
                /\ unsorted' = (s # <<>> /\ s[Len(s)].id > id)
    /\ UNCHANGED <<importStoreVars, way, stage, i, due, reading, history>>

-----------------------------------------------------------------------------
(* way().                                                                  *)

ReadWay(w) ==
    /\ reading /\ way = Nothing /\ pc = "idle"
    /\ Len(history) < MaxWaysRead
    /\ way' = w
    /\ stage' = "nodes"
    /\ i' = 1
    /\ due' = <<>>
    /\ history' = Append(history, [way |-> w, known |-> {known[k].id : k \in DOMAIN known}])
    /\ UNCHANGED <<importStoreVars, known, unsorted, reading>>

\* get_node in either loop sorts; only the first call of a way can need it.
Sorts(s) == known' = s /\ unsorted' = FALSE

\* The next node of the way: out_of_range is caught, an added one is skipped,
\* another one is added to the graph.
WayNode ==
    /\ way # Nothing /\ stage = "nodes" /\ pc = "idle" /\ i <= Len(way.refs)
    /\ LET s == Sorted(known)  id == way.refs[i]
       IN  /\ Sorts(s)
           /\ IF Contained(s, id) /\ ~s[Position(s, id)].added
              THEN Call([kind |-> "vertex", id |-> id]) /\ i' = i
              ELSE i' = i + 1 /\ UNCHANGED importStoreVars
    /\ UNCHANGED <<way, stage, due, reading, history>>

VertexAdded ==
    /\ way # Nothing /\ stage = "nodes"
    /\ Resume
    /\ known' = [known EXCEPT ![Position(known, way.refs[i])] =
                     [@ EXCEPT !.index = answer, !.added = TRUE]]
    /\ i' = i + 1
    /\ UNCHANGED <<unsorted, way, stage, due, reading, history>>

NodesDone ==
    /\ way # Nothing /\ stage = "nodes" /\ pc = "idle" /\ i > Len(way.refs)
    /\ stage' = "edges"
    /\ i' = 1
    /\ UNCHANGED <<importStoreVars, known, unsorted, way, due, reading, history>>

\* add_edge of the helper: the pairs to connect, for neighbours a and b.
Links(w, a, b) ==
    IF w.oneway THEN (IF w.reverse THEN <<<<b, a>>>> ELSE <<<<a, b>>>>)
    ELSE <<<<a, b>>, <<b, a>>>>

\* Neighbours of which one is not known are skipped.
WayPair ==
    /\ way # Nothing /\ stage = "edges" /\ pc = "idle" /\ due = <<>>
    /\ i < Len(way.refs)
    /\ LET a == way.refs[i]  b == way.refs[i + 1]
       IN  due' = IF Contained(known, a) /\ Contained(known, b) THEN Links(way, a, b) ELSE <<>>
    /\ i' = i + 1
    /\ UNCHANGED <<importStoreVars, known, unsorted, way, stage, reading, history>>

WayEdge ==
    /\ way # Nothing /\ stage = "edges" /\ pc = "idle" /\ due # <<>>
    /\ Call([kind |-> "edge", id |-> way.id,
             from |-> known[Position(known, Head(due)[1])].index,
             to   |-> known[Position(known, Head(due)[2])].index])
    /\ due' = Tail(due)
    /\ UNCHANGED <<known, unsorted, way, stage, i, reading, history>>

EdgeAdded ==
    /\ way # Nothing /\ stage = "edges"
    /\ Resume
    /\ UNCHANGED osmVars

WayDone ==
    /\ way # Nothing /\ stage = "edges" /\ pc = "idle" /\ due = <<>>
    /\ i >= Len(way.refs)
    /\ way' = Nothing
    /\ UNCHANGED <<importStoreVars, known, unsorted, stage, i, due, reading, history>>

-----------------------------------------------------------------------------
(* After the files, simplify merges the tags of edges it joins.            *)

ReadingEnds ==
    /\ reading /\ way = Nothing /\ pc = "idle"
    /\ reading' = FALSE
    /\ UNCHANGED <<importStoreVars, known, unsorted, way, stage, i, due, history>>

Simplify ==
    /\ ~reading
    /\ \E e, f \in Members(graph.edges) :
          /\ eid[e] # eid[f]
          /\ Call([kind |-> "merge", id |-> eid[e], other |-> eid[f]])
    /\ UNCHANGED osmVars

TagsMerged ==
    /\ ~reading
    /\ Resume
    /\ UNCHANGED osmVars

-----------------------------------------------------------------------------
OsmInit ==
    /\ ImportStoreInit
    /\ known = <<>>
    /\ unsorted = FALSE
    /\ way = Nothing
    /\ stage = "nodes"
    /\ i = 1
    /\ due = <<>>
    /\ reading = TRUE
    /\ history = <<>>

OsmNext ==
    \/ \E id \in DOMAIN NodeTags : ReadNode(id)
    \/ \E w \in Ways : ReadWay(w)
    \/ WayNode \/ VertexAdded \/ NodesDone
    \/ WayPair \/ WayEdge \/ EdgeAdded \/ WayDone
    \/ ReadingEnds \/ Simplify \/ TagsMerged
    \/ StoreStep /\ UNCHANGED osmVars

OsmSpec == OsmInit /\ [][OsmNext]_allVars

-----------------------------------------------------------------------------
(* Properties.                                                             *)

\* The container holds a node once, and is sorted unless it is marked for
\* sorting: the binary searches find what is there.
KnownAreFound ==
    /\ \A j, k \in DOMAIN known : j # k => known[j].id # known[k].id
    /\ ~unsorted => \A k \in DOMAIN known : Position(known, known[k].id) = k

\* The edges of the network as <<way id, node id, node id>>, and how many.
Roads(id, a, b) ==
    Cardinality({e \in Members(graph.edges) :
        eid[e] = id /\ vid[graph.source[e]] = a /\ vid[graph.target[e]] = b})

\* Neighbours in a way that was read while both were known.
Neighbours(r) ==
    {k \in 1..(Len(r.way.refs) - 1) : {r.way.refs[k], r.way.refs[k + 1]} \subseteq r.known}

\* What becomes of two neighbours of a way: a directed edge against its order when it matches
\* the filters of one-ways and of reversed ways, one along it when it matches the first alone,
\* two edges otherwise.  The options say of the second filter that "only the opposing directed
\* edge is kept" (options.cpp:807), which holds for ways that match the first as well: a way
\* that only matches the second becomes two edges.
Described(w, from, to, a, b) ==
    (IF ~(w.oneway /\ w.reverse) /\ <<from, to>> = <<a, b>> THEN 1 ELSE 0)
        + (IF (w.reverse \/ ~w.oneway) /\ <<from, to>> = <<b, a>> THEN 1 ELSE 0)

Total(s) ==
    LET sum[n \in 0..Len(s)] == IF n = 0 THEN 0 ELSE sum[n - 1] + s[n]
    IN  sum[Len(s)]

\* How many edges from one node to another a way that was read asks for.
Asked(r, from, to) ==
    Total([k \in 1..(Len(r.way.refs) - 1) |->
              IF k \in Neighbours(r)
              THEN Described(r.way, from, to, r.way.refs[k], r.way.refs[k + 1]) ELSE 0])

\* How many edges of way id the ways read so far ask for.
Expected(id, from, to) ==
    Total([k \in DOMAIN history |-> IF history[k].way.id = id THEN Asked(history[k], from, to) ELSE 0])

Settled == way = Nothing /\ reading

\* Every stretch between known neighbours is in the network as Described says:
\* along it, against it or both, as often as it was read, whatever is missing
\* around it and whatever failed in between; and there are no other edges.
RoadsImported ==
    Settled => \A id \in DOMAIN WayTags :
        \A from, to \in DOMAIN NodeTags : Roads(id, from, to) = Expected(id, from, to)

\* The network is the roads of the file between the nodes that the binary searches find,
\* which is every node that was read (osm_handler_helper.hpp, osm_handler.hpp).
NetworkFollowsFile == KnownAreFound /\ RoadsImported

\* What options.cpp:805-812 says of osm-oneway-reverse: of a way that matches it "only the
\* opposing directed edge is kept in the same manner as if it had a normal oneway tag".
Reversed(id) == \A k \in DOMAIN history : history[k].way.id = id => history[k].way.reverse
OnlyOpposingKept ==
    Settled => \A id \in DOMAIN WayTags : Reversed(id) =>
        \A from, to \in DOMAIN NodeTags :
            Roads(id, from, to) <=
                Total([k \in DOMAIN history |->
                          IF history[k].way.id = id
                          THEN Cardinality({n \in Neighbours(history[k]) :
                                   <<history[k].way.refs[n + 1], history[k].way.refs[n]>> = <<from, to>>})
                          ELSE 0])
=============================================================================
