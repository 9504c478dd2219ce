---------------------------- MODULE MCOsmImport ----------------------------
(***************************************************************************)
(* Instances of OsmImport for TLC.  Tags of different ways share keys and  *)
(* values.                                                                 *)
(***************************************************************************)
EXTENDS OsmImport

SomeNodeTags == <<<<>>, <<<<"highway", "crossing">>>>, <<>>, <<>>>>

SomeWayTags ==
    <<<<<<"highway", "residential">>, <<"surface", "paved">>>>,
      <<<<"highway", "residential">>, <<"oneway", "yes">>>>,
      <<<<"highway", "paved">>>>,
      <<<<"oneway", "reverse">>>>>>

Way(id, refs, oneway, reverse) ==
    [id |-> id, refs |-> refs, oneway |-> oneway, reverse |-> reverse]

\* Node 5 is in none of the files.
SomeWays ==
    {Way(1, <<3, 1>>, FALSE, FALSE),
     Way(2, <<1, 2, 1>>, TRUE, FALSE),
     Way(3, <<2, 5, 4, 2>>, TRUE, TRUE),
     Way(4, <<1, 2>>, FALSE, TRUE)}

-----------------------------------------------------------------------------
\* The passes over a network that was imported, each on all small networks.
CONSTANTS w1, w2, Calls, AllocFails, End

VARIABLES
    passGraph, passDirty, passWay, passPc,   \* graph, dirty, way and pc of NetworkImport
    call, at, line, cursor, resuming, marked, failed, worklist, visited, components, nodes,
    imported

passVars == <<passGraph, passDirty, passWay, passPc, call, at, line, cursor, resuming, marked,
              failed, worklist, visited, components, nodes, imported>>

Passes == INSTANCE NetworkImport
          WITH graph <- passGraph, dirty <- passDirty, way <- passWay, pc <- passPc,
               Vertices <- 1..4, Edges <- 1..5, VertexOrder <- <<1, 2, 3, 4>>, Points <- 1..4,
               Ways <- {w1, w2}

ASSUME PassesAssumption == Passes!ImportAssumption

\* No pass runs, and there is no network: what happens in behaviours about the files.
NoPass ==
    /\ call = [pass |-> "none", simplify |-> FALSE, complete |-> FALSE]
    /\ passGraph = Passes!EmptyGraph("bidirectional") /\ passDirty = FALSE
    /\ at = <<>> /\ line = <<>> /\ passWay = <<>> /\ imported = Passes!Network
    /\ passPc = "none" /\ cursor = End
    /\ resuming = FALSE /\ marked = -1 /\ failed = FALSE
    /\ worklist = <<>> /\ visited = {} /\ components = <<>> /\ nodes = <<>>

\* Which pass, with simplify or not, for all ids and tags or not, and its networks: where the
\* vertices are, between which ones there are edges and of which ways, and how many at most.
Pass(pass, simplify, complete, placements, ends, labels, edges) ==
    [pass |-> pass, simplify |-> simplify, complete |-> complete,
     placements |-> placements, ends |-> ends, labels |-> labels, edges |-> edges]

\* Distinct coordinates are interchangeable: one way to place the vertices.  Or the first
\* vertex stands anywhere, by symmetry at point 1; two others may stand at the same
\* coordinates, the fourth is alone.
OfOneEach == {[v \in 1..4 |-> v]}
Coinciding == {w \in [1..4 -> 1..4] : w[1] = 1 /\ \A v \in 1..4 : w[v] = 4 <=> v = 4}

Between(vs) == {p \in vs \X vs : p[1] # p[2]}
TwoWayChain == {p \in Between(1..4) : p[2] - p[1] \in {-1, 1}}

\* The passes that thin out a network, after the import; then those that look for equals,
\* and simplify where ids and tags matter.
AllPasses ==
    {Pass("simplify", TRUE, TRUE, OfOneEach, Between(1..4), {w1}, 4),
     Pass("dead ends", TRUE, TRUE, OfOneEach, Between(1..4), {w1}, 3),
     Pass("dead ends", TRUE, TRUE, OfOneEach, TwoWayChain, {w1}, 4),
     Pass("unconnected", TRUE, TRUE, OfOneEach, Between(1..4), {w1}, 3),
     Pass("simplify", TRUE, FALSE, OfOneEach, Between(1..3), {w1, w2}, 3),
     Pass("duplicate nodes", TRUE, TRUE, Coinciding, Between(1..3), {w1}, 3),
     Pass("duplicate nodes", FALSE, TRUE, Coinciding, Between(1..3), {w1}, 3),
     Pass("duplicate edges", TRUE, TRUE, OfOneEach, Between(1..3), {w1, w2}, 3)}

\* Edges that lead from a vertex to itself too.
DeadEnds == {Pass("dead ends", TRUE, TRUE, OfOneEach, (1..3) \X (1..3), {w1}, 3)}

\* Three nodes at one place, two of which are joined to the fourth, or all of them.
Coincide == {<<1, 1, 1, 4>>}
ToTheFourth == {p \in Between(1..4) : 4 \in {p[1], p[2]}}
Joined == {Pass("duplicate nodes", TRUE, TRUE, Coincide, ToTheFourth, {w1}, 3)}

\* A behaviour reads files, or is one pass.
Init ==
    /\ OsmInit
    /\ NoPass \/ Passes!ImportInit

\* Reading may end, a pass may not get stuck.
Next ==
    \/ NoPass /\ (OsmNext \/ UNCHANGED allVars) /\ UNCHANGED passVars
    \/ ~NoPass /\ Passes!ImportNext /\ UNCHANGED allVars

Spec == Init /\ [][Next]_<<allVars, passVars>>

\* The passes keep the pieces of road and the routes between the nodes that are left
\* (network_import.hpp).
RoadsAndRoutesKept == Passes!RoadsAndRoutesKept

\* The passes do all that they were called for (network_import.hpp).
PassesComplete == Passes!PassesComplete

\* No pass uses an iterator to a vertex that it has removed (network_import.hpp:145).
NoStaleIterator == Passes!NoStaleIterator

\* No two nodes with equal coordinates are left (options.cpp:1011).
NoDuplicateNodes == Passes!NoDuplicateNodes

=============================================================================
