----------------------------- MODULE ImportStore -----------------------------
(***************************************************************************)
(* graph_helper and tag_helper over memory mapped files                    *)
(* (include/io/helper/graph_helper.hpp, tag_helper.hpp), as the importers  *)
(* call them.                                                              *)
(*                                                                         *)
(* Any allocation in a mapped file may fail.  retry_alloc                  *)
(* (include/io/memory_mapped/utils.hpp) catches the exception, grows the   *)
(* file, which maps it anew at another address, and starts its function    *)
(* over.  Calls of retry_alloc nest: the flag _critical of each helper     *)
(* lets only the outermost call of that helper catch.  The calls that are  *)
(* active are frames on a stack, and an exception unwinds them.            *)
(***************************************************************************)
EXTENDS AdjacencyList

CONSTANTS
    NodeTags,   \* the tags of each node of the source, in order, by id
    WayTags,    \* the tags of each way of the source, in order, by id
    Retries,    \* the parameter retries of retry_alloc; it is never given
    Nothing     \* no job; no id

ASSUME StoreAssumption ==
    /\ Retries \in Nat
    /\ Nothing \notin DOMAIN NodeTags \cup DOMAIN WayTags
    /\ \A id \in DOMAIN NodeTags : NodeTags[id] \in Seq(STRING \X STRING)
    /\ \A id \in DOMAIN WayTags : WayTags[id] \in Seq(STRING \X STRING)

VARIABLES
    vid,        \* vid[v]: the id in the data of vertex v
    eid,        \* eid[e]: the id in the data of edge e
    indexMap,   \* vertex_index_map
    tables,     \* the dictionaries of the tag storage, and the tags of nodes and edges
    job,        \* the call of graph_helper that is under way
    pc,         \* where it is
    control,    \* the active calls of retry_alloc, innermost first, and the flags _critical
    got,        \* tags_container: the tag ids collected so far
    answer,     \* what the last call returned
    grown       \* history: how often each file grew during this call

graphDataVars == <<graph, dirty, vid, eid, indexMap>>
importStoreVars == <<graphDataVars, tables, job, pc, control, got, answer, grown>>

Helpers == {"graph", "tag"}

-----------------------------------------------------------------------------
(* retry_alloc.                                                            *)

\* Mutant: the flag is not looked at, every call catches.
EnterAlways(c, helper, at) ==
    [stack    |-> <<[helper |-> helper, guarded |-> TRUE, tries |-> 0,
                     at |-> at, ref |-> "none"]>> \o c.stack,
     critical |-> [c.critical EXCEPT ![helper] = TRUE]]

\* A call of retry_alloc for a function that begins at control point "at".
Enter(c, helper, at) ==
    [stack    |-> <<[helper |-> helper, guarded |-> ~c.critical[helper], tries |-> 0,
                     at |-> at, ref |-> "none"]>> \o c.stack,
     critical |-> [c.critical EXCEPT ![helper] = TRUE]]

\* The function of the innermost call returns.
Leave(c) ==
    LET f == Head(c.stack)
    IN  [stack    |-> Tail(c.stack),
         critical |-> [c.critical EXCEPT ![f.helper] = @ /\ ~f.guarded]]

\* The function of the innermost call takes a reference into its helper's file.
TakeRef(c) == [c EXCEPT !.stack[1].ref = "live"]

\* References into a file that other calls still hold, when it is mapped anew.
Remapped(stack, helper) ==
    [i \in DOMAIN stack |->
        IF stack[i].helper = helper /\ stack[i].ref = "live"
        THEN [stack[i] EXCEPT !.ref = "stale"] ELSE stack[i]]

\* A bad_alloc leaves the innermost function.  A call that does not guard lets
\* it through; one that does grows the file, and starts the function over or,
\* when the tries are used up, clears the flag and throws again.
Caught(c) ==
    LET f == Head(c.stack)
        rest == IF f.guarded THEN Remapped(Tail(c.stack), f.helper) ELSE Tail(c.stack)
    IN  IF f.guarded /\ f.tries + 1 <= Retries
        THEN [c EXCEPT !.stack = <<[f EXCEPT !.tries = @ + 1, !.ref = "none"]>> \o rest]
        ELSE [stack    |-> rest,
              critical |-> [c.critical EXCEPT ![f.helper] = @ /\ ~f.guarded]]

-----------------------------------------------------------------------------
(* tag_helper: dictionaries of keys, of values and of tags, each kept in   *)
(* both directions, with the size of the dictionary for the next id.       *)

EmptyTable == [there |-> <<>>, back |-> <<>>]

\* emplace: an entry that is there already stays.
Emplaced(f, x, y) == [z \in DOMAIN f \cup {x} |-> IF z \in DOMAIN f THEN f[z] ELSE y]

NextId(table) == Cardinality(DOMAIN table.there)

IdIn(table, x) == IF x \in DOMAIN table.there THEN table.there[x] ELSE NextId(table)

Entered(table, x) ==
    [there |-> Emplaced(table.there, x, IdIn(table, x)),
     back  |-> Emplaced(table.back, IdIn(table, x), x)]

Erase(f, x) == [y \in DOMAIN f \ {x} |-> f[y]]

\* Mutant: only the second map is cleaned.
EnterFailsHalf(table, x, done) ==
    LET id == NextId(table)
    IN  [there |-> IF done = 1 THEN Emplaced(table.there, x, id) ELSE table.there,
         back  |-> Erase(table.back, id)]

\* A new x whose entry failed after "done" of the two emplaces: both maps
\* are cleaned.
EnterFails(table, x, done) ==
    LET id == NextId(table)
        there == IF done = 1 THEN Emplaced(table.there, x, id) ELSE table.there
    IN  [there |-> Erase(there, x), back |-> Erase(table.back, id)]

\* What id() enters for a tag in each of the three dictionaries.
Entries(t, tag) ==
    [key   |-> tag[1],
     value |-> tag[2],
     pair  |-> <<IdIn(t.key, tag[1]), IdIn(t.value, tag[2])>>]

Interned(t, tag) ==
    LET x == Entries(t, tag)
    IN  [t EXCEPT !.key = Entered(@, x.key), !.value = Entered(@, x.value),
                  !.pair = Entered(@, x.pair)]

\* id() that fails in one of the dictionaries: the earlier ones keep theirs.
InternFails(t, tag, part, done) ==
    LET x == Entries(t, tag)
    IN  CASE part = "key"   -> [t EXCEPT !.key = EnterFails(@, x.key, done)]
          [] part = "value" -> [t EXCEPT !.key = Entered(@, x.key),
                                         !.value = EnterFails(@, x.value, done)]
          [] part = "pair"  -> [t EXCEPT !.key = Entered(@, x.key),
                                         !.value = Entered(@, x.value),
                                         !.pair = EnterFails(@, x.pair, done)]

Readable(t, id) ==
    /\ id \in DOMAIN t.pair.back
    /\ t.pair.back[id][1] \in DOMAIN t.key.back
    /\ t.pair.back[id][2] \in DOMAIN t.value.back

\* tag(): what a tag id stands for; it throws for one that is not readable.
TagOf(t, id) ==
    IF Readable(t, id)
    THEN <<t.key.back[t.pair.back[id][1]], t.value.back[t.pair.back[id][2]]>>
    ELSE <<"lost", "lost">>

\* node_tags() and edge_tags(), with the tags looked up.
TagsRead(t, map, id) ==
    IF id \in DOMAIN map THEN [i \in DOMAIN map[id] |-> TagOf(t, map[id][i])] ELSE <<>>

\* The entry of id in a map becomes tags.
Assigned(map, id, tags) ==
    [z \in DOMAIN map \cup {id} |-> IF z = id THEN tags ELSE map[z]]

OwnTags(map, id) == IF id \in DOMAIN map THEN map[id] ELSE <<>>

\* Mutant: tags that both have are listed twice.
MergedTwice(map, id, other) ==
    IF other \notin DOMAIN map THEN map
    ELSE Assigned(map, id, OwnTags(map, id) \o map[other])

\* merge_map_tags: the tags of the other that id does not have yet.
Merged(map, id, other) ==
    LET own == OwnTags(map, id)
    IN  IF other \notin DOMAIN map THEN map
        ELSE Assigned(map, id, own \o Without(map[other], Members(own)))

-----------------------------------------------------------------------------
(* The calls.  A job is a vertex (id), an edge (id, from, to: indices, from *)
(* 0) or a merge (id, other).                                              *)

ImportStoreInit ==
    /\ graph = EmptyGraph("bidirectional")
    /\ dirty = FALSE
    /\ vid = [v \in Vertices |-> Nothing]
    /\ eid = [e \in Edges |-> Nothing]
    /\ indexMap = <<>>
    /\ tables = [key |-> EmptyTable, value |-> EmptyTable, pair |-> EmptyTable,
                 nodes |-> <<>>, edges |-> <<>>]
    /\ job = [kind |-> "none"]
    /\ pc = "idle"
    /\ control = [stack |-> <<>>, critical |-> [helper \in Helpers |-> FALSE]]
    /\ got = <<>>
    /\ answer = 0
    /\ grown = [helper \in Helpers |-> 0]

Call(j) ==
    /\ pc = "idle"
    /\ job' = j
    /\ pc' = "begin"
    /\ control' = Enter(control, "graph", "begin")
    /\ grown' = [helper \in Helpers |-> 0]
    /\ UNCHANGED <<graphDataVars, tables, got, answer>>

JobTags == IF job.kind = "vertex" THEN NodeTags[job.id] ELSE WayTags[job.id]

\* An allocation fails after the graph and the tables became these.
Fails(g, t) ==
    /\ graph' = g
    /\ tables' = t
    /\ pc' = "throw"
    /\ UNCHANGED <<dirty, vid, eid, indexMap, job, control, got, answer, grown>>

\* The function of the graph helper begins.  add_edge looks up the
\* descriptors first, by reference.
Begin ==
    /\ pc = "begin"
    /\ LET held == IF job.kind = "edge" THEN TakeRef(control) ELSE control
       IN  CASE job.kind = "merge" ->
                   pc' = "merge" /\ control' = Enter(control, "tag", "merge")
             [] job.kind # "merge" /\ JobTags = <<>> ->
                   pc' = "add" /\ control' = held
             [] job.kind # "merge" /\ JobTags # <<>> ->
                   pc' = "map" /\ control' = Enter(held, "tag", "map")
    /\ UNCHANGED <<graphDataVars, tables, job, got, answer, grown>>

\* clone_map_tags takes a reference to the map before it clones the tags;
\* set_map_tags takes it afterwards.
TakeMap ==
    /\ pc = "map"
    /\ pc' = "container"
    /\ control' = Enter(IF job.kind = "vertex" THEN TakeRef(control) ELSE control,
                        "tag", "container")
    /\ UNCHANGED <<graphDataVars, tables, job, got, answer, grown>>

\* clone_tags and tags: the container is reserved, then id() is called.
Reserve ==
    /\ pc = "container"
    /\ got' = <<>>
    /\ pc' = "id"
    /\ control' = Enter(control, "tag", "id")
    /\ UNCHANGED <<graphDataVars, tables, job, answer, grown>>

ReserveFails == pc = "container" /\ Fails(graph, tables)

Intern ==
    /\ pc = "id"
    /\ LET tag == JobTags[Len(got) + 1]
           done == Leave(control)
       IN  /\ tables' = Interned(tables, tag)
           /\ got' = Append(got, IdIn(tables.pair, Entries(tables, tag).pair))
           /\ IF Len(got) + 1 < Len(JobTags)
              THEN pc' = "id" /\ control' = Enter(done, "tag", "id")
              ELSE pc' = "record" /\ control' = Leave(done)
    /\ UNCHANGED <<graphDataVars, job, answer, grown>>

InternThrows ==
    /\ pc = "id"
    /\ \E part \in {"key", "value", "pair"}, done \in 0..1 :
          LET tag == JobTags[Len(got) + 1]
          IN  /\ Entries(tables, tag)[part] \notin DOMAIN tables[part].there
              /\ Fails(graph, InternFails(tables, tag, part, done))

\* emplace: the tags of an id that is there already stay.
Record ==
    /\ pc = "record"
    /\ tables' = IF job.kind = "vertex"
                 THEN [tables EXCEPT !.nodes = Emplaced(@, job.id, got)]
                 ELSE [tables EXCEPT !.edges = Emplaced(@, job.id, got)]
    /\ pc' = "add"
    /\ control' = Leave(control)
    /\ UNCHANGED <<graphDataVars, job, got, answer, grown>>

RecordFails == pc = "record" /\ Fails(graph, tables)

\* The innermost call, that of the graph helper, returns.
Returns ==
    /\ pc' = "returned"
    /\ control' = Leave(control)

NewVertex == CHOOSE v \in FreeVertices(graph) : TRUE
NewEdge   == CHOOSE e \in FreeEdges(graph) : TRUE

\* The sets of addresses bound how much is imported.
StoreVertex ==
    /\ pc = "add" /\ job.kind = "vertex"
    /\ FreeVertices(graph) # {}
    /\ graph' = WithVertex(graph, NewVertex)
    /\ vid' = [vid EXCEPT ![NewVertex] = job.id]
    /\ pc' = "index"
    /\ UNCHANGED <<dirty, eid, indexMap, tables, job, control, got, answer, grown>>

StoreVertexFails == pc = "add" /\ job.kind = "vertex" /\ Fails(graph, tables)

From == indexMap[job.from + 1]
To   == indexMap[job.to + 1]

StoreEdge ==
    /\ pc = "add" /\ job.kind = "edge"
    /\ FreeEdges(graph) # {}
    /\ graph' = WithEdge(graph, NewEdge, From, To)
    /\ eid' = [eid EXCEPT ![NewEdge] = job.id]
    /\ Returns
    /\ UNCHANGED <<dirty, vid, indexMap, tables, job, got, answer, grown>>

StoreEdgeFails ==
    /\ pc = "add" /\ job.kind = "edge"
    /\ FreeEdges(graph) # {}
    /\ \E n \in 0..(Len(Places(graph, From, To)) - 1) :
          Fails(EdgeFails(graph, NewEdge, From, To, n), tables)

\* _add_to_vertex_index_map.
Newest == graph.vertices[Len(graph.vertices)]

IndexVertex ==
    /\ pc = "index"
    /\ indexMap' = Append(indexMap, Newest)
    /\ answer' = graph.vindex[Newest]
    /\ Returns
    /\ UNCHANGED <<graph, dirty, vid, eid, tables, job, got, grown>>

IndexFails == pc = "index" /\ Fails(WithoutVertex(graph, Newest), tables)

\* merge_edge_tags, in simplify.
Merge ==
    /\ pc = "merge"
    /\ tables' = [tables EXCEPT !.edges = Merged(@, job.id, job.other)]
    /\ pc' = "returned"
    /\ control' = Leave(Leave(control))
    /\ UNCHANGED <<graphDataVars, job, got, answer, grown>>

MergeFails == pc = "merge" /\ Fails(graph, tables)

\* The exception reaches the innermost active call.
Unwind ==
    /\ pc = "throw"
    /\ LET f == Head(control.stack)
           after == Caught(control)
       IN  /\ control' = after
           /\ grown' = IF f.guarded THEN [grown EXCEPT ![f.helper] = @ + 1] ELSE grown
           /\ pc' = CASE Len(after.stack) = Len(control.stack) -> f.at
                      [] after.stack = <<>>                    -> "gave up"
                      [] OTHER                                 -> "throw"
    /\ UNCHANGED <<graphDataVars, tables, job, got, answer>>

StoreStep ==
    \/ Begin
    \/ TakeMap
    \/ Reserve \/ ReserveFails
    \/ Intern \/ InternThrows
    \/ Record \/ RecordFails
    \/ StoreVertex \/ StoreVertexFails \/ StoreEdge \/ StoreEdgeFails
    \/ IndexVertex \/ IndexFails
    \/ Merge \/ MergeFails
    \/ Unwind

\* A call returned and its caller goes on.
Resume ==
    /\ pc = "returned"
    /\ pc' = "idle"
    /\ UNCHANGED <<graphDataVars, tables, job, control, got, answer, grown>>

\* What an importer may ask for: an edge between vertices that have an index,
\* a merge of the tags of edges that are there.
Request ==
    \/ \E id \in DOMAIN NodeTags : Call([kind |-> "vertex", id |-> id])
    \/ \E id \in DOMAIN WayTags, from, to \in 0..(Len(indexMap) - 1) :
          Call([kind |-> "edge", id |-> id, from |-> from, to |-> to])
    \/ \E e, f \in Members(graph.edges) :
          /\ eid[e] # eid[f]
          /\ Call([kind |-> "merge", id |-> eid[e], other |-> eid[f]])

ImportStoreNext == Request \/ StoreStep \/ Resume

ImportStoreSpec == ImportStoreInit /\ [][ImportStoreNext]_importStoreVars

-----------------------------------------------------------------------------
(* Properties.                                                             *)

Invertible(table) ==
    /\ DOMAIN table.back = 0..(NextId(table) - 1)
    /\ \A x \in DOMAIN table.there :
          /\ table.there[x] \in DOMAIN table.back
          /\ table.back[table.there[x]] = x

\* However often interning fails in the middle, the dictionaries stay each
\* other's inverse and their ids stay the numbers below their size, so that
\* the next id is a new one; and what was recorded can be read back.
TablesInvertible ==
    /\ Invertible(tables.key) /\ Invertible(tables.value) /\ Invertible(tables.pair)
    /\ \A map \in {tables.nodes, tables.edges} :
          \A id \in DOMAIN map : \A i \in DOMAIN map[id] : Readable(tables, map[id][i])

\* A file is not mapped anew between the point where a function takes a
\* reference into it and the point where it uses that: what the flags
\* _critical are there for.
NoStaleReference ==
    pc \in {"record", "add"} => Head(control.stack).ref # "stale"

IndexIn(list, v) == CHOOSE i \in DOMAIN list : list[i] = v

IndexOf(v) == IndexIn(indexMap, v)

\* The network as an importer sees it: vertices by index, edges in order, and
\* the tags of the edges by id.
StoredNodes ==
    [i \in DOMAIN indexMap |->
        [id |-> vid[indexMap[i]], tags |-> TagsRead(tables, tables.nodes, vid[indexMap[i]])]]

StoredEdges ==
    [i \in DOMAIN graph.edges |->
        [id   |-> eid[graph.edges[i]],
         from |-> IndexOf(graph.source[graph.edges[i]]),
         to   |-> IndexOf(graph.target[graph.edges[i]])]]

StoredIds == {eid[e] : e \in Members(graph.edges)}

StoredTags == [id \in StoredIds |-> TagsRead(tables, tables.edges, id)]

Stored == INSTANCE NetworkStore
              WITH nodes <- StoredNodes, edges <- StoredEdges, tagged <- StoredTags

\* The helpers implement NetworkStore: through failures, growth and retries
\* each vertex and each edge appears once, whole and with its own tags, and
\* nothing else changes.
StoreRefined == Stored!StoreSpec
=============================================================================
