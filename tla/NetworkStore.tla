---------------------------- MODULE NetworkStore ----------------------------
(***************************************************************************)
(* What an importer may rely on when it adds to a network through          *)
(* io::helper::graph_helper: the network grows by whole vertices and whole *)
(* edges, each with the tags of its source, whatever memory had to be      *)
(* found for it on the way.                                                *)
(***************************************************************************)
EXTENDS Naturals, Sequences

CONSTANTS
    NodeTags,   \* the tags of each node of the source, in order, by id
    WayTags     \* the tags of each way of the source, in order, by id

VARIABLES
    nodes,      \* the vertices by index: id and tags
    edges,      \* the edges in the order of their insertion: id, from, to
    tagged      \* the tags of the edges, by id; the edges of a way share them

storeVars == <<nodes, edges, tagged>>

StoreInit == nodes = <<>> /\ edges = <<>> /\ tagged = <<>>

InsertVertex(id) ==
    /\ nodes' = Append(nodes, [id |-> id, tags |-> NodeTags[id]])
    /\ UNCHANGED <<edges, tagged>>

InsertEdge(id, from, to) ==
    /\ edges' = Append(edges, [id |-> id, from |-> from, to |-> to])
    /\ tagged' = [x \in DOMAIN tagged \cup {id} |-> IF x \in DOMAIN tagged THEN tagged[x] ELSE WayTags[x]]
    /\ UNCHANGED nodes

\* The tags of a list that are not in the other.
Lacking(own, tags) ==
    LET rest[n \in 0..Len(tags)] ==
            IF n = 0 THEN <<>>
            ELSE IF tags[n] \in {own[k] : k \in DOMAIN own} THEN rest[n - 1]
            ELSE Append(rest[n - 1], tags[n])
    IN  rest[Len(tags)]

\* The edges of way id also stand for the edges of way other.
MergeTags(id, other) ==
    /\ id # other
    /\ tagged' = [tagged EXCEPT ![id] = @ \o Lacking(tagged[id], tagged[other])]
    /\ UNCHANGED <<nodes, edges>>

StoreNext ==
    \/ \E id \in DOMAIN NodeTags : InsertVertex(id)
    \/ \E id \in DOMAIN WayTags, from, to \in DOMAIN nodes : InsertEdge(id, from, to)
    \/ \E id, other \in DOMAIN tagged : MergeTags(id, other)

StoreSpec == StoreInit /\ [][StoreNext]_storeVars
=============================================================================
