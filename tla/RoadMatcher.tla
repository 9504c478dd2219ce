----------------------------- MODULE RoadMatcher ----------------------------
(***************************************************************************)
(* The light road graph of the HD map tools: read from an .osm file around *)
(* the anchor of a drive, with an adjacency list, a nearest-edge query and *)
(* Dijkstra's algorithm.                                                   *)
(* Positions are points of a grid and distances are city-block distances,  *)
(* so roads run along the grid.  A file is a sequence of the lines that    *)
(* the reader looks at: nodes, ways, their refs and tags.                  *)
(*                                                                         *)
(* Then the matching of the positions of a drive to it: candidates within  *)
(* a radius of each position, the best chain of candidates by a forward    *)
(* pass over the layers that have candidates, and a walk back along the    *)
(* chain.                                                                  *)
(***************************************************************************)
EXTENDS Integers, FiniteSetsExt, SequencesExt, Functions

CONSTANTS
    KeepClasses,   \* the classes of roads that are kept
    DefaultSpeed,  \* the speed limit of each class
    NoDistance       \* more than any distance

VARIABLES
    roadFile, roadLine,   \* the file, and the number of its next line
    rawNodes, rawWays, building, inWay,
    graph,        \* [nodes, edges, adjacency]
    search        \* one run of dijkstra

readerVars == << roadFile, roadLine, rawNodes, rawWays, building, inWay >>
roadVars == << readerVars, graph, search >>

Abs(n) == IF n < 0 THEN -n ELSE n
Distance(p, q) == Abs(p[1] - q[1]) + Abs(p[2] - q[2])
Clamp(n, a, b) == Max({ Min({ n, Max({ a, b }) }), Min({ a, b }) })

\* A position relative to the anchor.
ToEnu(p, anchor) == << p[1] - anchor[1], p[2] - anchor[2] >>

\* The point of the segment that is closest to p.
Project(p, a, b) == << Clamp(p[1], a[1], b[1]), Clamp(p[2], a[2], b[2]) >>

-----------------------------------------------------------------------------
\* Reading the file line by line.

NoWay == [refs |-> << >>, highway |-> "", maxspeed |-> 0]
NoGraph == [nodes |-> << >>, edges |-> << >>, adjacency |-> << >>]
NoSearch == [phase |-> "none"]

RoadInit ==
  /\ roadFile = << >> /\ roadLine = 1
  /\ rawNodes = << >> /\ rawWays = << >>
  /\ building = NoWay /\ inWay = FALSE
  /\ graph = NoGraph /\ search = NoSearch

OpenFile(content) ==
  roadFile' = content /\ UNCHANGED << roadLine, rawNodes, rawWays, building, inWay, graph, search >>
Reading(kind) == roadLine <= Len(roadFile) /\ roadFile[roadLine].kind = kind
Consume == roadLine' = roadLine + 1 /\ UNCHANGED << roadFile, graph, search >>

\* A later node of the same id replaces the earlier one.
ReadNode ==
  /\ Reading("node")
  /\ LET new == roadFile[roadLine]
     IN  rawNodes' = [id \in DOMAIN rawNodes \cup {new.id} |-> IF id = new.id THEN new.at ELSE rawNodes[id]]
  /\ Consume /\ UNCHANGED << rawWays, building, inWay >>

WayGoesOn == building
FreshWay == NoWay

ReadWay ==
  /\ Reading("way")
  /\ inWay' = TRUE /\ building' = FreshWay
  /\ Consume /\ UNCHANGED << rawNodes, rawWays >>

ReadRef ==
  /\ Reading("nd")
  /\ building' = IF inWay THEN [building EXCEPT !.refs = Append(@, roadFile[roadLine].ref)] ELSE building
  /\ Consume /\ UNCHANGED << rawNodes, rawWays, inWay >>

\* Tags outside of a way, as those of a node or a relation, are passed over.
ReadTag ==
  /\ Reading("tag")
  /\ building' = IF inWay /\ roadFile[roadLine].k \in {"highway", "maxspeed"}
                  THEN [building EXCEPT ![roadFile[roadLine].k] = roadFile[roadLine].v] ELSE building
  /\ Consume /\ UNCHANGED << rawNodes, rawWays, inWay >>

EndWay ==
  /\ Reading("/way")
  /\ rawWays' = IF inWay /\ building.highway # "" THEN Append(rawWays, building) ELSE rawWays
  /\ inWay' = FALSE
  /\ Consume /\ UNCHANGED << rawNodes, building >>

-----------------------------------------------------------------------------
\* Building the graph: an edge from each known ref of a kept way to the next one.

IndexOf(nodes, id) == CHOOSE i \in DOMAIN nodes : nodes[i].id = id
HasNode(nodes, id) == \E i \in DOMAIN nodes : nodes[i].id = id

GetNode(g, anchor, id) ==
  IF id \notin DOMAIN rawNodes \/ HasNode(g.nodes, id) THEN g
  ELSE [g EXCEPT !.nodes = Append(@, [id |-> id, pos |-> ToEnu(rawNodes[id], anchor)])]

SpeedOf(way) == IF way.maxspeed > 0 THEN way.maxspeed ELSE DefaultSpeed[way.highway]

AddEdge(g, way, a, b) ==
  IF a \notin DOMAIN rawNodes \/ b \notin DOMAIN rawNodes THEN g
  ELSE LET from == IndexOf(g.nodes, a)
           to == IndexOf(g.nodes, b)
           ends == << g.nodes[from].pos, g.nodes[to].pos >>
       IN  [g EXCEPT !.edges = Append(@, [id |-> Len(@), from |-> from, to |-> to, speed |-> SpeedOf(way),
                                          class |-> way.highway, polyline |-> ends,
                                          length |-> Distance(ends[1], ends[2])])]

Kept(way) == way.highway \in KeepClasses /\ Len(way.refs) >= 2

AddPair(g, way, anchor, a, b) == AddEdge(GetNode(GetNode(g, anchor, a), anchor, b), way, a, b)

AddWay(g, way, anchor) ==
  LET upTo[i \in 0..Len(way.refs) - 1] ==
        IF i = 0 THEN g ELSE AddPair(upTo[i - 1], way, anchor, way.refs[i], way.refs[i + 1])
  IN  upTo[Len(way.refs) - 1]

AddIfKept(g, way, anchor) == IF Kept(way) THEN AddWay(g, way, anchor) ELSE g

AddWays(anchor) ==
  LET upTo[k \in 0..Len(rawWays)] ==
        IF k = 0 THEN NoGraph ELSE AddIfKept(upTo[k - 1], rawWays[k], anchor)
  IN  upTo[Len(rawWays)]

\* Each edge goes to the end of the list of the node that it leaves.
AtSource(lists, g, e) == [lists EXCEPT ![g.edges[e].from] = Append(@, e)]
OutEdges(g) ==
  LET upTo[e \in 0..Len(g.edges)] ==
        IF e = 0 THEN [n \in DOMAIN g.nodes |-> << >>] ELSE AtSource(upTo[e - 1], g, e)
  IN  upTo[Len(g.edges)]
BuildAdjacency(g) == [g EXCEPT !.adjacency = OutEdges(g)]

BuildGraph(anchor) ==
  /\ roadLine > Len(roadFile)
  /\ graph' = BuildAdjacency(AddWays(anchor))
  /\ UNCHANGED << readerVars, search >>

ReaderNext == ReadNode \/ ReadWay \/ ReadRef \/ ReadTag \/ EndWay

-----------------------------------------------------------------------------
\* Dijkstra's algorithm.  A node may be in the queue with several distances; only
\* the last one is not stale.  A node that was not reached is infinitely far.

Unreached == -1

StartSearch(source, target) ==
  /\ search' = IF source \in DOMAIN graph.nodes /\ target \in DOMAIN graph.nodes
               THEN [phase |-> "search", source |-> source, target |-> target, nodes |-> << >>, at |-> target,
                     queue |-> {<< 0, source >>}, prev |-> [n \in DOMAIN graph.nodes |-> 0],
                     dist |-> [n \in DOMAIN graph.nodes |-> IF n = source THEN 0 ELSE Unreached]]
               ELSE [phase |-> "unreachable", source |-> source, target |-> target]
  /\ UNCHANGED << readerVars, graph >>

Earlier(p, q) == p[1] < q[1] \/ (p[1] = q[1] /\ p[2] <= q[2])
Top == CHOOSE p \in search.queue : \A q \in search.queue : Earlier(p, q)

Relax(s, e, d) ==
  LET edge == graph.edges[e]
      nd == d + edge.length
  IN  IF s.dist[edge.to] # Unreached /\ nd >= s.dist[edge.to] THEN s
      ELSE [s EXCEPT !.dist[edge.to] = nd, !.prev[edge.to] = edge.from, !.queue = @ \cup {<< nd, edge.to >>}]

Popped == [search EXCEPT !.queue = @ \ {Top}]
RelaxAll(d, u) ==
  LET out == graph.adjacency[u]
      upTo[k \in 0..Len(out)] == IF k = 0 THEN Popped ELSE Relax(upTo[k - 1], out[k], d)
  IN  upTo[Len(out)]

\* The search ends when the target is found, not when it leaves the queue.
EndsWhenSeen(d, u) == u = search.target \/ search.dist[search.target] # Unreached
EndsAt(d, u) == u = search.target

PopQueue ==
  /\ search.phase = "search" /\ search.queue # {}
  /\ LET d == Top[1]
         u == Top[2]
     IN  search' = IF d > search.dist[u] THEN Popped
                   ELSE IF EndsAt(d, u) THEN [search EXCEPT !.phase = "trace"]
                   ELSE RelaxAll(d, u)
  /\ UNCHANGED << readerVars, graph >>

QueueEmpty ==
  /\ search.phase = "search" /\ search.queue = {}
  /\ search' = [search EXCEPT !.phase =
       IF search.dist[search.target] = Unreached THEN "unreachable" ELSE "trace"]
  /\ UNCHANGED << readerVars, graph >>

Trace ==
  /\ search.phase = "trace"
  /\ search' = [search EXCEPT !.nodes = << search.at >> \o @, !.at = search.prev[search.at],
                              !.phase = IF search.at = search.source THEN "found" ELSE "trace"]
  /\ UNCHANGED << readerVars, graph >>

SearchNext == PopQueue \/ QueueEmpty \/ Trace

\* The edge that is nearest to a position, and how far it is.
EdgeDistance(e, q) == Distance(q, Project(q, graph.edges[e].polyline[1], graph.edges[e].polyline[2]))
NearestDistance(q) == Min({ EdgeDistance(e, q) : e \in DOMAIN graph.edges } \cup {NoDistance})

\* Do two edges share a node?
EdgesShareNode(a, b) ==
  { graph.edges[a].from, graph.edges[a].to } \cap { graph.edges[b].from, graph.edges[b].to } # {}

-----------------------------------------------------------------------------
\* The lines of the way that a line of the file is in, and the last tag of a key there.
WayStart(i) == Max({ k \in 1..i : roadFile[k].kind = "way" })
WayEnd(i) == Min({ k \in i..Len(roadFile) : roadFile[k].kind = "/way" })
Tagged(i, key, none) ==
  LET tags == { k \in WayStart(i)..WayEnd(i) : roadFile[k].kind = "tag" /\ roadFile[k].k = key }
  IN  IF tags = {} THEN none ELSE roadFile[Max(tags)].v
Class(i) == Tagged(i, "highway", "")
Speed(i) == IF Tagged(i, "maxspeed", 0) > 0 THEN Tagged(i, "maxspeed", 0) ELSE DefaultSpeed[Class(i)]
KnownRef(i) == \E k \in DOMAIN roadFile : roadFile[k].kind = "node" /\ roadFile[k].id = roadFile[i].ref
Refs == { i \in DOMAIN roadFile : roadFile[i].kind = "nd" }
Streets ==
  { p \in Refs \X Refs :
      /\ p[1] < p[2] /\ WayStart(p[1]) = WayStart(p[2])
      /\ \A k \in p[1] + 1..p[2] - 1 : roadFile[k].kind # "nd"
      /\ Class(p[1]) \in KeepClasses /\ KnownRef(p[1]) /\ KnownRef(p[2]) }

\* The graph has an edge for each two successive known refs of a road that is kept,
\* of its class, with its speed limit and in its direction, and nothing else - a way that
\* says no class is no road, whatever the way before it was; each osm node is one node of
\* the graph; and the adjacency list has each edge at its source
\* (osm_importer.cpp:82-160).
RoadsAreTheFile ==
  /\ \A i, k \in DOMAIN graph.nodes : i # k => graph.nodes[i].id # graph.nodes[k].id
  /\ Len(graph.edges) = Cardinality(Streets)
  /\ \A e \in DOMAIN graph.edges :
       \E p \in Streets :
         /\ Cardinality({ q \in Streets : q[1] <= p[1] }) = e
         /\ graph.nodes[graph.edges[e].from].id = roadFile[p[1]].ref
         /\ graph.nodes[graph.edges[e].to].id = roadFile[p[2]].ref
         /\ graph.edges[e].class = Class(p[1]) /\ graph.edges[e].speed = Speed(p[1])
  /\ \A e \in DOMAIN graph.edges :
       \A n \in DOMAIN graph.nodes : Contains(graph.adjacency[n], e) <=> graph.edges[e].from = n

\* The ways to go from one node to another along the edges without coming back.
Edge(a, b) == { e \in DOMAIN graph.edges : graph.edges[e].from = a /\ graph.edges[e].to = b }
Walks(source, target) ==
  { w \in UNION { [1..n -> DOMAIN graph.nodes] : n \in 1..Len(graph.nodes) } :
      /\ w[1] = source /\ w[Len(w)] = target /\ IsInjective(w)
      /\ \A i \in 1..Len(w) - 1 : Edge(w[i], w[i + 1]) # {} }
Shortest(a, b) == Min({ graph.edges[e].length : e \in Edge(a, b) })
Costs(walk) == [i \in 1..Len(walk) - 1 |-> Shortest(walk[i], walk[i + 1])]
Length(walk) ==
  LET upTo[n \in 0..Len(Costs(walk))] == IF n = 0 THEN 0 ELSE upTo[n - 1] + Costs(walk)[n]
  IN  upTo[Len(Costs(walk))]

\* What Dijkstra's algorithm finds is a walk along the edges of which the cost is the
\* length, none is shorter, and it finds one whenever there is one
\* (graph_algorithms.hpp:34-70).
PathIsShortest ==
  /\ search.phase = "found" =>
       /\ search.nodes \in Walks(search.source, search.target)
       /\ \A w \in Walks(search.source, search.target) : search.dist[search.target] <= Length(w)
       /\ search.dist[search.target] = Length(search.nodes)
  /\ search.phase = "unreachable" /\ {search.source, search.target} \subseteq DOMAIN graph.nodes =>
       Walks(search.source, search.target) = {}

-----------------------------------------------------------------------------
(* Matching.  Logarithms of probabilities are integers: minus the square   *)
(* of the distance, and minus the difference of the two lengths of a step. *)

CONSTANTS
    Radius,         \* the search radius
    MaxCandidates   \* so many candidates are kept for a position

ASSUME MatcherAssumption == MaxCandidates \in Nat /\ Radius \in Nat /\ NoDistance \in Nat

VARIABLES
    positions,     \* of the drive
    cands,         \* of each position, the nearest first
    vit, predecessors,     \* the score of each candidate and its predecessor in prevLayer
    prevLayer,     \* the last layer that was scored
    layer,         \* the position that is looked at
    cursor,        \* the candidate that the walk back reads next
    roadPoints,        \* the result for each position
    matching       \* the part of the function that runs

trellisVars == << positions, cands, vit, predecessors, prevLayer >>
matcherVars == << trellisVars, layer, cursor, roadPoints, matching >>

\* Minus infinity, and the order of scores; no logarithm of a probability is positive.
NegInf == 1
NotAbove(a, b) == a = NegInf \/ (b # NegInf /\ a <= b)
Unmatched == [matched |-> FALSE]
NoPoints == << >>

MatcherInit ==
  /\ positions = << >> /\ cands = << >> /\ vit = << >> /\ predecessors = << >>
  /\ prevLayer = 1 /\ layer = 1 /\ cursor = 0 /\ roadPoints = NoPoints /\ matching = "none"

\* Without positions or edges nothing is matched.
StartMatching(drive) ==
  /\ positions' = drive
  /\ roadPoints' = [i \in DOMAIN drive |-> Unmatched]
  /\ layer' = 1
  /\ matching' = IF drive = << >> \/ graph.edges = << >> THEN "done" ELSE "candidates"
  /\ UNCHANGED << cands, vit, predecessors, prevLayer, cursor >>

-----------------------------------------------------------------------------
Emission(dist) == -(dist * dist)

Candidate(e, q) ==
  [edge |-> e, dist |-> EdgeDistance(e, q),
   snapped |-> Project(q, graph.edges[e].polyline[1], graph.edges[e].polyline[2])]

Within(q) == { Candidate(e, q) : e \in { f \in DOMAIN graph.edges : EdgeDistance(f, q) <= Radius } }

\* The sort leaves candidates of one distance in any order.
NearestFirst(S) == { s \in SetToSeqs(S) : \A i, k \in DOMAIN s : i < k => s[i].dist <= s[k].dist }

FindCandidates ==
  /\ matching = "candidates" /\ layer <= Len(positions)
  /\ \E s \in NearestFirst(Within(positions[layer])) :
       cands' = Append(cands, SubSeq(s, 1, Min({ Len(s), MaxCandidates })))
  /\ layer' = layer + 1
  /\ UNCHANGED << positions, vit, predecessors, prevLayer, cursor, roadPoints, matching >>

\* The first layer has its emissions only.
SeedTrellis ==
  /\ matching = "candidates" /\ layer > Len(positions)
  /\ vit' = [i \in DOMAIN cands |->
       [j \in DOMAIN cands[i] |-> IF i = 1 THEN Emission(cands[i][j].dist) ELSE NegInf]]
  /\ predecessors' = [i \in DOMAIN cands |-> [j \in DOMAIN cands[i] |-> 0]]
  /\ prevLayer' = 1 /\ layer' = 2 /\ matching' = "forward"
  /\ UNCHANGED << positions, cands, cursor, roadPoints >>

Transition(k, j) ==
  -Abs(Distance(positions[prevLayer], positions[layer])
       - Distance(cands[prevLayer][k].snapped, cands[layer][j].snapped))

Score(k, j) == vit[prevLayer][k] + Transition(k, j) + Emission(cands[layer][j].dist)
Viable == { k \in DOMAIN cands[prevLayer] : vit[prevLayer][k] # NegInf }
NearestViable(j) == Min(Viable)
Best(j) == Min({ k \in Viable : \A l \in Viable : Score(l, j) <= Score(k, j) })

\* A layer without candidates is passed over.
PassLayer ==
  /\ matching = "forward" /\ layer <= Len(positions)
  /\ cands[layer] = << >> \/ cands[prevLayer] = << >>
  /\ prevLayer' = IF cands[layer] = << >> THEN prevLayer ELSE layer
  /\ layer' = layer + 1
  /\ UNCHANGED << positions, cands, vit, predecessors, cursor, roadPoints, matching >>

\* A candidate without a viable predecessor starts a chain of its own.
ScoreLayer ==
  /\ matching = "forward" /\ layer <= Len(positions)
  /\ cands[layer] # << >> /\ cands[prevLayer] # << >>
  /\ vit' = [vit EXCEPT ![layer] = [j \in DOMAIN @ |->
       IF Viable = {} THEN Emission(cands[layer][j].dist) ELSE Score(Best(j), j)]]
  /\ predecessors' = [predecessors EXCEPT ![layer] = [j \in DOMAIN @ |-> IF Viable = {} THEN 0 ELSE Best(j)]]
  /\ prevLayer' = layer /\ layer' = layer + 1
  /\ UNCHANGED << positions, cands, cursor, roadPoints, matching >>

-----------------------------------------------------------------------------
\* The walk back, from the best candidate of the last layer that has some.

BestOf(i) == Min({ j \in DOMAIN vit[i] : \A k \in DOMAIN vit[i] : NotAbove(vit[i][k], vit[i][j]) })
Layers == { i \in DOMAIN cands : cands[i] # << >> }

StartBacktrace ==
  /\ matching = "forward" /\ layer > Len(positions)
  /\ IF Layers = {} THEN matching' = "done" /\ UNCHANGED << layer, cursor >>
     ELSE matching' = "back" /\ layer' = Max(Layers) /\ cursor' = BestOf(Max(Layers))
  /\ UNCHANGED << trellisVars, roadPoints >>

\* The predecessor is looked for in the layer before, where a chain that was
\* restarted goes on with the best candidate.
Predecessor(i, j) ==
  IF predecessors[i][j] # 0 THEN predecessors[i][j]
  ELSE IF cands[i - 1] = << >> THEN 0 ELSE BestOf(i - 1)

Snap(c) == [matched |-> TRUE, edge |-> c.edge, snapped |-> c.snapped, dist |-> c.dist]

BacktraceStep ==
  /\ matching = "back" /\ cursor \in DOMAIN cands[layer]
  /\ roadPoints' = [roadPoints EXCEPT ![layer] = Snap(cands[layer][cursor])]
  /\ LET next == IF layer = 1 THEN 0 ELSE Predecessor(layer, cursor)
     IN  /\ cursor' = next
         /\ matching' = IF next = 0 THEN "done" ELSE "back"
  /\ layer' = IF layer = 1 THEN 1 ELSE layer - 1
  /\ UNCHANGED trellisVars

\* The walk reads a candidate that is not there, beyond the end of an empty vector.
ReadBeyond ==
  /\ matching = "back" /\ cursor \notin DOMAIN cands[layer]
  /\ matching' = "crashed"
  /\ UNCHANGED << trellisVars, layer, cursor, roadPoints >>

MatcherNext ==
  FindCandidates \/ SeedTrellis \/ PassLayer \/ ScoreLayer \/ StartBacktrace \/ BacktraceStep \/ ReadBeyond

-----------------------------------------------------------------------------
\* All ways to choose one of the candidates of each position from the first one.
LinkScore(choice, i, first) ==
  IF i < first THEN 0
  ELSE Emission(cands[i][choice[i]].dist)
         - (IF i = first THEN 0
            ELSE Abs(Distance(positions[i - 1], positions[i])
                     - Distance(cands[i - 1][choice[i - 1]].snapped, cands[i][choice[i]].snapped)))
ChainScore(choice, first) ==
  LET upTo[i \in 0..Len(cands)] == IF i = 0 THEN 0 ELSE upTo[i - 1] + LinkScore(choice, i, first)
  IN  upTo[Len(cands)]
Selections(first) == { c \in [first..Len(cands) -> 1..MaxCandidates] : \A i \in DOMAIN c : c[i] <= Len(cands[i]) }

\* A position is matched if and only if an edge is within the radius.  If each one
\* is, no other choice of candidates is more likely than the one that was made; if
\* only some at the start are not, the choice is the best one from the second
\* candidate layer on, where the first chain starts (map_matcher.cpp:79-168).
MostLikelyChoice ==
  matching = "done" /\ graph.edges # << >> /\ Layers # {} /\ Layers = Min(Layers)..Len(cands) =>
    LET first == IF Min(Layers) = 1 THEN 1 ELSE Min({ Min(Layers) + 1, Len(cands) })
        made == [i \in Layers |-> CHOOSE j \in DOMAIN cands[i] : Snap(cands[i][j]) = roadPoints[i]]
    IN  /\ { i \in DOMAIN roadPoints : roadPoints[i].matched } = Layers
        /\ \A c \in Selections(first) : ChainScore(c, first) <= ChainScore(made, first)

\* The walk back reads candidates that are there: positions without candidates stay
\* unmatched, and are no layer of the chain.
BacktraceHasCandidate == matching = "back" => cursor \in DOMAIN cands[layer]
=============================================================================
