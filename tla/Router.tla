------------------------------- MODULE Router -------------------------------
(***************************************************************************)
(* The two searches in a road network, Dijkstra's algorithm for all the    *)
(* goals of a candidate and A* for a single goal, with the visitor that    *)
(* cuts the search at a maximum distance, and the router of a match task,  *)
(* which caches what they find.  A network is a record of the points of    *)
(* its vertices and of its edges, each with its source, its target and its *)
(* line.  The queue is the set of its entries: a vertex is entered again   *)
(* only with a smaller distance.  Of entries with the same priority the one*)
(* with the smallest vertex comes out first.                               *)
(***************************************************************************)
EXTENDS Routes


Vertices(net) == DOMAIN net.points
Edges(net) == DOMAIN net.edges
Source(net, e) == net.edges[e].source
Target(net, e) == net.edges[e].target
Line(net, e) == net.edges[e].line
Weight(net, e) == Length(Line(net, e))
OutEdges(net, v) == { e \in Edges(net) : Source(net, e) = v }

Unseen == -1
NoLimit == -1

\* The entries of the queue, the maps of the search and what is blackened.
\* A predecessor that was never set reads as the first vertex.
StartSearch(net, start, goals, limit, aStar) ==
  [queue |-> {<< 0, start >>}, black |-> {}, found |-> {},
   pred  |-> [v \in Vertices(net) |-> IF v = start THEN start ELSE 1],
   dist  |-> [v \in Vertices(net) |-> IF v = start THEN 0 ELSE Unseen],
   goals |-> goals, limit |-> limit, aStar |-> aStar]

Heuristic(net, search, v) ==
  IF search.aStar
    THEN PointDistance(net.points[v], net.points[CHOOSE g \in search.goals : TRUE])
    ELSE 0

\* examine_edge: the target of an edge that ends beyond the limit is disabled.
ExamineEdge(net, search, e) ==
  IF search.limit # NoLimit
       /\ search.dist[Source(net, e)] + Weight(net, e) > search.limit
    THEN [search EXCEPT !.black = @ \cup {Target(net, e)}]
    ELSE search

\* The target gets the smaller distance through this edge.  Dijkstra's search
\* adds to the distance it took from the queue, A* to the one in the map.
RelaxEdge(net, search, distance, e) ==
  LET t   == Target(net, e)
      new == (IF search.aStar THEN search.dist[Source(net, e)] ELSE distance)
               + Weight(net, e)
  IN  IF t \notin search.black /\ (search.dist[t] = Unseen \/ search.dist[t] > new)
        THEN [search EXCEPT !.pred[t] = Source(net, e),
                            !.dist[t] = new,
                            !.queue = @ \cup {<< new + Heuristic(net, search, t), t >>}]
        ELSE search

RECURSIVE VisitEdges(_, _, _, _)
VisitEdges(net, search, distance, edges) ==
  IF edges = {} THEN search
  ELSE LET e == Least(edges)
       IN  VisitEdges(net, RelaxEdge(net, ExamineEdge(net, search, e), distance, e),
                      distance, edges \ {e})

\* finish_vertex: the search stops once every goal is found.
FinishVertex(search, v) ==
  [search EXCEPT !.black = @ \cup {v}, !.found = @ \cup ({v} \cap search.goals)]
Stopped(search) == Cardinality(search.found) >= Cardinality(search.goals)

NextEntry(queue) ==
  CHOOSE a \in queue :
    \A b \in queue : a[1] < b[1] \/ (a[1] = b[1] /\ a[2] <= b[2])

RECURSIVE Explore(_, _)
Explore(net, search) ==
  IF search.queue = {} THEN search
  ELSE LET entry == NextEntry(search.queue)
           taken == [search EXCEPT !.queue = @ \ {entry}]
           next  == FinishVertex(VisitEdges(net, taken, entry[1],
                                            OutEdges(net, entry[2])), entry[2])
       IN  IF Stopped(next) THEN next ELSE Explore(net, next)

RECURSIVE PathTo(_, _)
PathTo(pred, v) == IF pred[v] = v THEN << v >> ELSE Append(PathTo(pred, pred[v]), v)

Limit(maxDistance, factor) == IF factor < 0 THEN NoLimit ELSE factor * maxDistance

\* dijkstra_shortest_paths: the paths to the goals that were found.
DijkstraShortestPaths(net, start, goals, maxDistance, factor) ==
  LET end == Explore(net, StartSearch(net, start, goals,
                                      Limit(maxDistance, factor), FALSE))
  IN  { PathTo(end.pred, g) : g \in end.found }

\* a_star_shortest_paths: the path to the goal, read from the predecessors
\* whether or not it was found.
AStarShortestPath(net, start, goal, maxDistance, factor) ==
  LET end == Explore(net, StartSearch(net, start, {goal},
                                      Limit(maxDistance, factor), TRUE))
  IN  PathTo(end.pred, goal)

\* extract_route: the shortest edge of each step of the path.
Between(net, v, w) == { e \in OutEdges(net, v) : Target(net, e) = w }
AnyEdgeBetween(net, v, w) == Least(Between(net, v, w))
ShortestEdge(net, v, w) ==
  LET least == Least({ Weight(net, e) : e \in Between(net, v, w) })
  IN  Least({ e \in Between(net, v, w) : Weight(net, e) = least })

ExtractRoute(net, path) ==
  LET lines[i \in 1..Len(path)] ==
        IF i = 1 THEN << >>
        ELSE IF Between(net, path[i - 1], path[i]) = {} THEN lines[i - 1]
        ELSE Append(lines[i - 1], Line(net, ShortestEdge(net, path[i - 1], path[i])))
  IN  RouteOf(lines[Len(path)])

-----------------------------------------------------------------------------
(***************************************************************************)
(* The router.  A candidate is a point of the track with the edges, and    *)
(* their nodes, that it may lie on; each edge has the projection of the    *)
(* point, and the parts of its line before (from) and after (to) it.  The  *)
(* routes between the end of one edge and the start of another one are kept*)
(* in a cache, a function from pairs of vertices, and every operation that *)
(* may search returns the cache with its result.                           *)
(***************************************************************************)
EmptyCache == << >>
Enter(cache, key, route) == [k \in DOMAIN cache \cup {key} |->
                               IF k = key THEN route ELSE cache[k]]

CandidateEdge(candidates, pair) == candidates[pair[1]].edges[pair[2]]
EdgeOf(candidates, pair) == CandidateEdge(candidates, pair).edge

\* The key of the route from one candidate edge to another one.
CacheKey(net, candidates, from, to) ==
  << Target(net, EdgeOf(candidates, from)), Source(net, EdgeOf(candidates, to)) >>

\* shortest_paths: Dijkstra's search to all the nodes of the next candidate,
\* within a multiple of the distance to the farthest one.
ShortestPaths(net, candidates, from, to, factor) ==
  LET start == Target(net, EdgeOf(candidates, from))
      nodes == candidates[to[1]].nodes
      goals == { nodes[i].vertex : i \in DOMAIN nodes }
      far   == { PointDistance(net.points[start], net.points[g]) : g \in goals }
  IN  DijkstraShortestPaths(net, start, goals, Greatest(far \cup {0}), factor)

\* shortest_path: the search with A* to the start of the next edge only.
ShortestPathOf(net, candidates, from, to, factor) ==
  LET key == CacheKey(net, candidates, from, to)
  IN  AStarShortestPath(net, key[1], key[2],
        PointDistance(net.points[key[1]], net.points[key[2]]), factor)

\* Every path that was found is entered unless there is one already.
RECURSIVE EnterPaths(_, _, _)
EnterPaths(net, cache, paths) ==
  IF paths = {} THEN cache
  ELSE LET path == CHOOSE p \in paths : TRUE
           key  == << path[1], LastOf(path) >>
       IN  EnterPaths(net, IF key \in DOMAIN cache THEN cache
                             ELSE Enter(cache, key, ExtractRoute(net, path)),
                      paths \ {path})

\* The cache after the route for the two candidate edges was asked for: the
\* route itself, valid or not, is in it.
Routed(net, candidates, cache, from, to, aStar, factor) ==
  LET key   == CacheKey(net, candidates, from, to)
      paths == IF aStar THEN {ShortestPathOf(net, candidates, from, to, factor)}
                        ELSE ShortestPaths(net, candidates, from, to, factor)
      more  == EnterPaths(net, cache, paths)
  IN  IF key \in DOMAIN cache THEN cache
      ELSE IF key \in DOMAIN more THEN more
      ELSE Enter(more, key, NoRoute)

-----------------------------------------------------------------------------
\* The two positions are the same, or the second one is farther along the
\* same edge: no search is needed.
SamePlace(a, b) == a.projection = b.projection
AlongEdge(net, a, b) ==
  /\ a.edge = b.edge
  /\ HasLength(a.to) /\ HasLength(b.from)
  /\ Length(a.to) + Length(b.from) >= Weight(net, a.edge)
  /\ HasLength(a.from)
  /\ Length(a.from) <= Length(b.from)

AttachedMerge(routes) == IF MergesAttached(routes) THEN Merge(routes) ELSE NoRoute

\* The way from one edge over the route to the other one, with turns within
\* the edges trimmed where the parts run along each other.
AddTrimmed(routes, next, trimmed) ==
  IF trimmed.invalid THEN Append(routes, next)
                     ELSE Append(SubSeq(routes, 1, Len(routes) - 1), trimmed)
Trim(routes, next) == AddTrimmed(routes, next, TrimMerge(routes[Len(routes)], next))

Connect(start, route, end, withinEdgeTurns) ==
  IF route.invalid THEN NoRoute
  ELSE IF withinEdgeTurns THEN AttachedMerge(Trim(Trim(<< start >>, route), end))
  ELSE AttachedMerge(<< start, route, end >>)

\* candidate_route: the cache afterwards and the route.
RouteOver(cache, key, a, b, withinEdgeTurns) ==
  [cache |-> cache,
   route |-> Connect(RouteOf(<< a.to >>), cache[key], RouteOf(<< b.from >>), withinEdgeTurns)]
CandidateRoute(net, candidates, cache, from, to, withinEdgeTurns, aStar, factor) ==
  LET a == CandidateEdge(candidates, from)
      b == CandidateEdge(candidates, to)
  IN  IF SamePlace(a, b) THEN [cache |-> cache, route |-> StayRoute]
      ELSE IF AlongEdge(net, a, b)
        THEN [cache |-> cache,
              route |-> RouteOf(<< Substring(Line(net, a.edge), Length(a.from),
                                    Length(b.from), a.projection, b.projection) >>)]
      ELSE RouteOver(Routed(net, candidates, cache, from, to, aStar, factor),
                     CacheKey(net, candidates, from, to), a, b, withinEdgeTurns)

-----------------------------------------------------------------------------
(***************************************************************************)
(* candidates_route makes the match out of a policy, the sequence of the   *)
(* candidate edges that were chosen.  A pair that repeats its candidate is *)
(* a skip: no route leads over it.  The walk is a record of its position i *)
(* (the code's i plus one), the routes so far, whether a skip is open, the *)
(* override that a concatenated skip sets, and the cache.                  *)
(***************************************************************************)
\* point_in_edges: the point is a point of the network's lines.
PointInEdges(net, p) ==
  \E e \in Edges(net) : \E i \in DOMAIN Line(net, e) : Line(net, e)[i] = p

\* join_route: joins are removed unless they are points of the network.
JoinsAnywhere(net, routes, route, skipped, opt) ==
  /\ opt.joinMerges /\ ~skipped
  /\ routes # << >> /\ ~route.invalid /\ route.lines # << >>
Joins(net, routes, route, skipped, opt) ==
  /\ opt.joinMerges /\ ~skipped
  /\ routes # << >> /\ ~route.invalid /\ route.lines # << >>
  /\ LET prev == routes[Len(routes)]
     IN  /\ ~prev.invalid /\ prev.lines # << >> /\ LastLine(prev) # << >>
         /\ ~PointInEdges(net, LastOf(LastLine(prev)))

AddRoute(net, walk, route, opt) ==
  LET n      == Len(walk.routes)
      joined == Join(walk.routes[n], route, TRUE)
      joins  == Joins(net, walk.routes, route, walk.skipped, opt)
      before == IF joins THEN [walk.routes EXCEPT ![n] = joined[1]] ELSE walk.routes
      new    == IF joins THEN joined[2] ELSE route
  IN  IF ~new.invalid /\ RouteHasLength(new)
        THEN [walk EXCEPT !.routes = Append(before, new), !.skipped = FALSE]
        ELSE [walk EXCEPT !.routes = before]

SkipStep(walk, opt) ==
  IF opt.concatenateSkips THEN [walk EXCEPT !.i = @ + 1, !.turns = TRUE]
                          ELSE [walk EXCEPT !.i = @ + 2, !.skipped = TRUE]

AddFound(net, walk, found, opt) ==
  [AddRoute(net, walk, found.route, opt) EXCEPT
     !.i = @ + 1, !.turns = opt.withinEdgeTurns, !.cache = found.cache]
RouteStep(net, candidates, policy, walk, opt) ==
  AddFound(net, walk, CandidateRoute(net, candidates, walk.cache, policy[walk.i],
             policy[walk.i + 1], walk.turns, opt.aStar \/ opt.exportFactor < 0,
             opt.exportFactor), opt)

RECURSIVE WalkPolicy(_, _, _, _, _)
WalkPolicy(net, candidates, policy, walk, opt) ==
  IF walk.i + 1 > Len(policy) THEN walk
  ELSE WalkPolicy(net, candidates, policy,
         IF policy[walk.i][1] = policy[walk.i + 1][1]
           THEN SkipStep(walk, opt)
           ELSE RouteStep(net, candidates, policy, walk, opt), opt)

StartWalk(cache, opt) == [i |-> 1, routes |-> << >>, skipped |-> FALSE,
                          turns |-> opt.withinEdgeTurns, cache |-> cache]

CandidatesRoute(net, candidates, policy, cache, opt) ==
  LET walk == WalkPolicy(net, candidates, policy, StartWalk(cache, opt), opt)
  IN  [cache |-> walk.cache, route |-> Merge(walk.routes), routes |-> walk.routes]

-----------------------------------------------------------------------------
(***************************************************************************)
(* edges_list: the edge that fits each segment of the match best, by the   *)
(* angle between the two (in quarters of a turn) and then by the distances *)
(* of their ends, each edge once in a row.                                 *)
(***************************************************************************)
Direction(a, b) == << Clamp(b[1] - a[1], -1, 1), Clamp(b[2] - a[2], -1, 1) >>
Turn(d, c) == IF d = c THEN 0 ELSE IF d[1] = -c[1] /\ d[2] = -c[2] THEN 2 ELSE 1

\* Two segments of the grid meet where their boxes do.
Between1(n, m, k) == Clamp(n, m, k) = n
Overlap(a, b, c, d) == Between1(c, a, b) \/ Between1(d, a, b) \/ Between1(a, c, d)
Intersect(a, b, c, d) == Overlap(a[1], b[1], c[1], d[1]) /\ Overlap(a[2], b[2], c[2], d[2])

NearSegments(net, a, b) ==
  UNION { { << e, i >> : i \in { j \in 1..Len(Line(net, e)) - 1 :
              Intersect(a, b, Line(net, e)[j], Line(net, e)[j + 1]) } } :
          e \in Edges(net) }

Better(p, q) ==
  \/ p[1] < q[1]
  \/ p[1] = q[1] /\ p[2] < q[2]
  \/ p[1] = q[1] /\ p[2] = q[2] /\ p[3] <= q[3]

FittingEdges(net, a, b) ==
  LET near == NearSegments(net, a, b)
      score(s) == LET c == Line(net, s[1])[s[2]]
                      d == Line(net, s[1])[s[2] + 1]
                  IN  << Turn(Direction(a, b), Direction(c, d)),
                         PointDistance(a, c) + PointDistance(b, d), s[1] >>
  IN  { s[1] : s \in { r \in near : \A q \in near : Better(score(r), score(q)) } }

\* The edge of a segment follows the ones so far unless it is the last one.
WithEdge(edges, a, b, net) ==
  LET fitting == FittingEdges(net, a, b)
      edge    == CHOOSE e \in fitting : TRUE
  IN  IF a = b \/ fitting = {} \/ (edges # << >> /\ edges[Len(edges)] = edge)
        THEN edges ELSE Append(edges, edge)

EdgesOfLine(net, edges, line) ==
  LET upTo[i \in 1..Len(line)] ==
        IF i = 1 THEN edges ELSE WithEdge(upTo[i - 1], line[i - 1], line[i], net)
  IN  IF line = << >> THEN edges ELSE upTo[Len(line)]

EdgesList(net, route) ==
  LET lines == MultiLine(route)
      upTo[i \in 0..Len(lines)] ==
        IF i = 0 THEN << >> ELSE EdgesOfLine(net, upTo[i - 1], lines[i])
  IN  upTo[Len(lines)]

ExportEdgesRoute(net, edges) == RouteOf([i \in DOMAIN edges |-> Line(net, edges[i])])
=============================================================================
