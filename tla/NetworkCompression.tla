------------------------- MODULE NetworkCompression -------------------------
(***************************************************************************)
(* The last part of the prepare command, _finish_import and                *)
(* _finish_preparation of src/src/app/include/app/prepare.hpp: the list    *)
(* that the importers and passes left becomes a compressed graph in a file *)
(* of its own, with its tags and spatial indices in two more.  The three   *)
(* files are what the match command maps into memory later.                *)
(*                                                                         *)
(* A file has a size; what does not fit throws bad_alloc.  The graph and   *)
(* the index are then dropped and made anew in a file of twice the size.   *)
(* The tags, and the lists that the indices are built from, grow and keep  *)
(* what they hold, so only their failure for good is a step here.  The     *)
(* process may die at any point, also by writing to a page that the disk   *)
(* has no block for; what was written to a mapped file stays in it.        *)
(***************************************************************************)
EXTENDS Naturals, Sequences, SequencesExt

CONSTANTS
    Imports,     \* the networks that the passes may leave, see below
    Sizes,       \* sizes of the files before anything is written to them
    Spaces,      \* the space that the disk may have left
    ManyRetries  \* stands for a number that is too large to be a limit

(***************************************************************************)
(* An import has a sequence of vertices with their ids, the lists of their *)
(* out edges, each edge with an id, the position of its target and the     *)
(* size of its line, and the tags of nodes and edges by id.                *)
(***************************************************************************)
IsList(s) == s \in Seq(ToSet(s))

ASSUME CompressionAssumption ==
    /\ \A n \in Imports :
          /\ IsList(n.ids) /\ IsList(n.out) /\ Len(n.out) = Len(n.ids)
          /\ \A v \in DOMAIN n.ids : /\ IsList(n.out[v]) /\ IsList(n.tags[n.ids[v]])
                                     /\ \A e \in ToSet(n.out[v]) : /\ e.target \in DOMAIN n.ids
                                                                   /\ e.line \in Nat
                                                                   /\ IsList(n.tags[e.id])
    /\ Sizes \subseteq Nat \ {0}
    /\ Spaces \subseteq Nat
    /\ ManyRetries \in Nat

VARIABLES
    import,      \* the network to compress; its files go when prepare ends
    space,       \* what filesystem::space last said is available
    pc,          \* where prepare is
    tries, retries,  \* of the retry_alloc that is under way
    at,          \* the vertex, and the number of its out edges that were added
    graph,       \* the graph file: size, what is used of it, vertices and edges
    tags,        \* the tag file: dictionary, the tags of nodes and edges, finalized
    tagsFull,    \* history: cloning tags failed for good in its own file
    build,       \* the lists of points and segments to index
    index        \* the index file: size and the two trees, <<>> before they are built

prepareVars == <<import, space, pc, tries, retries, at, tagsFull>>
vars == <<prepareVars, graph, tags, build, index>>

\* A file as _create() leaves it: destroy_and_create, then the empty containers.
EmptyGraph(size) == [size |-> size, used |-> 0, vertices |-> <<>>, edges |-> <<>>]
EmptyIndex(size) == [size |-> size, points |-> <<>>, segments |-> <<>>]
EmptyTags == [dictionary |-> <<>>, nodes |-> <<>>, edges |-> <<>>, finalized |-> FALSE]

\* What the lines and the reserved vectors take up in the file.
Total(s) ==
    LET sum[n \in 0..Len(s)] == IF n = 0 THEN 0 ELSE sum[n - 1] + s[n]
    IN  sum[Len(s)]
LineSizes(list) == [i \in 1..Len(list) |-> list[i].line]
Reserved(n) == Len(n.ids) + Total([v \in 1..Len(n.ids) |-> Len(n.out[v])])
Needed(n) == Reserved(n) + Total([v \in 1..Len(n.ids) |-> Total(LineSizes(n.out[v]))])

\* log2 of a number that is not 0, rounded down.
Power[k \in Nat] == IF k = 0 THEN 1 ELSE 2 * Power[k - 1]
Log2(n) == CHOOSE k \in 0..n : Power[k] <= n /\ n < Power[k + 1]

\* max_retries().  The quotient is one of integers; where it is 0 the infinite
\* logarithm is converted to size_t, which is undefined: 0 or a huge number.
MaxRetries(available, size) ==
    IF available \div size > 0 THEN {Log2(available \div size)} ELSE {0, ManyRetries}

\* create_compatible_network makes all three files and the lists before anything is
\* converted; from_adjacency_list then grows the graph file beyond its first size.
CompressionInit ==
    /\ import \in Imports
    /\ space \in Spaces
    /\ \E s \in Sizes : graph = EmptyGraph(s) /\ index = EmptyIndex(s) /\ retries \in MaxRetries(space, s)
    /\ tags = EmptyTags
    /\ tagsFull = FALSE
    /\ build = [points |-> <<>>, segments |-> <<>>]
    /\ pc = "reserve" /\ tries = 0 /\ at = <<1, 0>>

\* Mutant: the last growth is not tried.
OutOfTriesEarly == tries + 1 >= retries
\* retry_alloc: one try, and as many again as there are retries.
OutOfTries == tries + 1 > retries

-----------------------------------------------------------------------------
(* compressed_sparse_row::from_adjacency_list within retry_alloc.          *)

\* drop_grow: the file is made anew with nothing in it, also when the tries are
\* used up, and the conversion starts from the beginning.
Dropped ==
    /\ graph' = EmptyGraph(2 * graph.size)
    /\ tries' = tries + 1
    /\ at' = <<1, 0>>
    /\ pc' = IF OutOfTries THEN "gave up" ELSE "reserve"
    /\ UNCHANGED <<import, space, retries, build, index>>

Fits(cost) == graph.used + cost <= graph.size

Reserve ==
    /\ pc = "reserve"
    /\ Fits(Reserved(import))
    /\ graph' = [graph EXCEPT !.used = @ + Reserved(import)]
    /\ pc' = IF import.ids = <<>> THEN "finalize" ELSE "vertex"
    /\ UNCHANGED <<import, space, tries, retries, at, tagsFull, tags, build, index>>

ReserveFails ==
    /\ pc = "reserve"
    /\ ~Fits(Reserved(import))
    /\ Dropped
    /\ UNCHANGED <<tags, tagsFull>>

\* id(): an entry of the dictionary is found or appended.
Interned(dictionary, tag) ==
    IF tag \in ToSet(dictionary) THEN dictionary ELSE Append(dictionary, tag)
InternedAll(dictionary, list) ==
    LET known[n \in 0..Len(list)] == IF n = 0 THEN dictionary ELSE Interned(known[n - 1], list[n])
    IN  known[Len(list)]
IdOf(dictionary, tag) == CHOOSE i \in DOMAIN dictionary : dictionary[i] = tag

\* clone_map_tags: no entry for an empty list, and emplace leaves an entry that
\* is there as it is.
Cloned(t, map, id, list) ==
    LET d == InternedAll(t.dictionary, list)
        ids == [i \in DOMAIN list |-> IdOf(d, list[i])]
    IN  IF list = <<>> THEN t
        ELSE IF id \in DOMAIN t[map] THEN [t EXCEPT !.dictionary = d]
        ELSE [t EXCEPT !.dictionary = d,
                       ![map] = [j \in DOMAIN @ \cup {id} |-> IF j = id THEN ids ELSE @[j]]]

\* The tag file grows and is tried once more by itself; when that fails too,
\* the retry of the graph catches it.  Some tags are in the dictionary by then.
CloneFails(list) ==
    /\ list # <<>>
    /\ \E k \in 0..Len(list) : tags' = [tags EXCEPT !.dictionary = InternedAll(@, SubSeq(list, 1, k))]
    /\ tagsFull' = TRUE
    /\ Dropped

VertexTags == import.tags[import.ids[at[1]]]

\* A vertex has the position where its edges start, an edge both its ends.
VertexRow(id, start) == [id |-> id, start |-> start]
EdgeRow(source, edge) ==
    [source |-> source, target |-> edge.target, id |-> edge.id, line |-> edge.line]

\* _add_vertex: the edges of a vertex start at the next edge that is added.
\* edge_desc is the number of edges so far.
AddVertex(n) == Append(graph.vertices, VertexRow(n.ids[at[1]], Len(graph.edges)))

NextVertex ==
    IF at[1] < Len(import.ids) THEN at' = <<at[1] + 1, 0>> /\ pc' = "vertex"
    ELSE at' = at /\ pc' = "finalize"

ConvertVertex ==
    /\ pc = "vertex"
    /\ tags' = Cloned(tags, "nodes", import.ids[at[1]], VertexTags)
    /\ graph' = [graph EXCEPT !.vertices = AddVertex(import)]
    /\ IF import.out[at[1]] # <<>> THEN at' = at /\ pc' = "edge" ELSE NextVertex
    /\ UNCHANGED <<import, space, tries, retries, tagsFull, build, index>>

ConvertVertexFails ==
    /\ pc = "vertex"
    /\ CloneFails(VertexTags)

Edge == import.out[at[1]][at[2] + 1]

\* The line is copied into the file, after the tags.
ConvertEdge ==
    /\ pc = "edge"
    /\ Fits(Edge.line)
    /\ tags' = Cloned(tags, "edges", Edge.id, import.tags[Edge.id])
    /\ graph' = [graph EXCEPT !.used = @ + Edge.line,
                              !.edges = Append(@, EdgeRow(at[1], Edge))]
    /\ IF at[2] + 1 < Len(import.out[at[1]]) THEN at' = <<at[1], at[2] + 1>> /\ pc' = "edge"
       ELSE NextVertex
    /\ UNCHANGED <<import, space, tries, retries, tagsFull, build, index>>

ConvertEdgeFails ==
    /\ pc = "edge"
    /\ CloneFails(import.tags[Edge.id])

\* The tags were cloned already; they stay.
LineFails ==
    /\ pc = "edge"
    /\ ~Fits(Edge.line)
    /\ tags' = Cloned(tags, "edges", Edge.id, import.tags[Edge.id])
    /\ Dropped
    /\ UNCHANGED tagsFull

\* tag_helper().finalize(), the last step of from_adjacency_list.  _finish_import then
\* lets the files of the import go.
Finalize ==
    /\ pc = "finalize"
    /\ tags' = [tags EXCEPT !.finalized = TRUE]
    /\ pc' = "list"
    /\ UNCHANGED <<import, space, tries, retries, at, tagsFull, graph, build, index>>

-----------------------------------------------------------------------------
(* build_spatial_indices.                                                  *)

\* The segments between two points of each edge.
SegmentsOf(edges) ==
    LET done[e \in 0..Len(edges)] ==
            IF e = 0 THEN <<>> ELSE done[e - 1] \o [i \in 1..edges[e].line - 1 |-> <<e, i>>]
    IN  done[Len(edges)]

\* Every vertex, and every segment.
ListAll ==
    /\ pc = "list"
    /\ build' = [points |-> [v \in DOMAIN graph.vertices |-> v],
                 segments |-> SegmentsOf(graph.edges)]
    /\ tries' = 0
    /\ space' \in {left \in Spaces : left <= space}
    /\ retries' \in MaxRetries(space', index.size)
    /\ pc' = "points"
    /\ UNCHANGED <<import, at, tagsFull, graph, tags, index>>

\* The file of the lists stays full after it grew: bad_alloc leaves prepare.
ListFails ==
    /\ pc = "list"
    /\ pc' = "unwound"
    /\ UNCHANGED <<import, space, tries, retries, at, tagsFull, graph, tags, build, index>>

\* A tree takes as much of the file as it has entries.
TreeFits(points, segments) == Len(points) + Len(segments) <= index.size

BuildPointsIndex ==
    /\ pc = "points"
    /\ TreeFits(build.points, <<>>)
    /\ index' = [index EXCEPT !.points = build.points]
    /\ pc' = "segments"
    /\ UNCHANGED <<import, space, tries, retries, at, tagsFull, graph, tags, build>>

BuildSegmentsIndex ==
    /\ pc = "segments"
    /\ TreeFits(build.points, build.segments)
    /\ index' = [index EXCEPT !.segments = build.segments]
    /\ pc' = "done"
    /\ UNCHANGED <<import, space, tries, retries, at, tagsFull, graph, tags, build>>

\* Mutant: only the tree that failed is built again.
IndexFailsHalf ==
    /\ \/ pc = "points" /\ ~TreeFits(build.points, <<>>)
       \/ pc = "segments" /\ ~TreeFits(build.points, build.segments)
    /\ index' = EmptyIndex(2 * index.size)
    /\ tries' = tries + 1
    /\ pc' = IF OutOfTries THEN "index gave up" ELSE pc
    /\ UNCHANGED <<import, space, retries, at, tagsFull, graph, tags, build>>
\* drop_handle_bad_alloc: both trees go with the old file and are built again.
IndexFails ==
    /\ \/ pc = "points" /\ ~TreeFits(build.points, <<>>)
       \/ pc = "segments" /\ ~TreeFits(build.points, build.segments)
    /\ index' = EmptyIndex(2 * index.size)
    /\ tries' = tries + 1
    /\ pc' = IF OutOfTries THEN "index gave up" ELSE "points"
    /\ UNCHANGED <<import, space, retries, at, tagsFull, graph, tags, build>>

\* The process dies; what it wrote stays in the files.
Die ==
    /\ pc \notin {"done", "gave up", "index gave up", "unwound", "died"}
    /\ pc' = "died"
    /\ UNCHANGED <<import, space, tries, retries, at, tagsFull, graph, tags, build, index>>

CompressionNext ==
    \/ Reserve \/ ReserveFails \/ ConvertVertex \/ ConvertVertexFails
    \/ ConvertEdge \/ ConvertEdgeFails \/ LineFails \/ Finalize
    \/ ListAll \/ ListFails \/ BuildPointsIndex \/ BuildSegmentsIndex \/ IndexFails \/ Die

CompressionSpec == CompressionInit /\ [][CompressionNext]_vars

-----------------------------------------------------------------------------
(* Properties.                                                             *)

\* _out_edges_start_end: the edges of a vertex end where those of the next start.
OutEdges(v) ==
    LET last == IF v < Len(graph.vertices) THEN graph.vertices[v + 1].start ELSE Len(graph.edges)
    IN  SubSeq(graph.edges, graph.vertices[v].start + 1, last)

TextOf(map, id) ==
    IF id \in DOMAIN map THEN [i \in DOMAIN map[id] |-> tags.dictionary[map[id][i]]] ELSE <<>>

\* What the match command reads from the graph and tag files is the import.
GraphIsWhole ==
    /\ DOMAIN graph.vertices = DOMAIN import.ids
    /\ \A v \in DOMAIN import.ids :
          /\ graph.vertices[v].id = import.ids[v]
          /\ OutEdges(v) = [i \in DOMAIN import.out[v] |->
                              [source |-> v, target |-> import.out[v][i].target,
                               id |-> import.out[v][i].id, line |-> import.out[v][i].line]]
          /\ TextOf(tags.nodes, import.ids[v]) = import.tags[import.ids[v]]
          /\ \A i \in DOMAIN import.out[v] :
                TextOf(tags.edges, import.out[v][i].id) = import.tags[import.out[v][i].id]

\* When prepare ends well, match finds in the three files every vertex, edge and tag
\* of the import, and each vertex and segment once in the indices, however often a
\* file was dropped on the way (src/src/library/include/graph/compressed_sparse_row.hpp).
OpenedIsWhole ==
    pc = "done" =>
        /\ GraphIsWhole
        /\ IsInjective(index.points) /\ ToSet(index.points) = DOMAIN graph.vertices
        /\ IsInjective(index.segments)
        /\ ToSet(index.segments) = UNION {{<<e, i>> : i \in 1..graph.edges[e].line - 1} : e \in DOMAIN graph.edges}

\* A tag file that says it is finalized stands beside a whole graph, wherever prepare
\* died or gave up: a reader may take the flag for the end of the compression
\* (graph_helper.hpp, "finalize tag storage, will not change anymore").
FinalizedIsComplete == tags.finalized => GraphIsWhole

\* The graph is given up only when it would not fit into half of what the disk had left,
\* unless it was the tag file that was full: max_retries stops the doubling no sooner
\* (base_storage.hpp, max_retries; utils.hpp, retry_alloc).
GivesUpOnlyWhenFull == pc = "gave up" /\ ~tagsFull => 2 * Needed(import) > space

\* The three files say the same, at the end and as soon as they say that they are final
\* (graph_helper.hpp, compress).
FilesAreWhole == OpenedIsWhole /\ FinalizedIsComplete
=============================================================================
