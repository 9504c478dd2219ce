-------------------------- MODULE CandidateSearch --------------------------
(***************************************************************************)
(* What set() makes of a track before it is matched - defects are detected *)
(* and removed, and the rest is simplified - and the candidate search: for *)
(* every point of the track the edges it may lie on.                       *)
(* A track is a record of its points and of their times.  An edge set of   *)
(* the code, ordered by distance with equal ones in the order they came    *)
(* in, is a sequence.  The answers of the spatial index are sets, and of   *)
(* segments at the same distance the nearest ones are those of the edges   *)
(* with the smaller numbers.                                               *)
(***************************************************************************)
EXTENDS Router

-----------------------------------------------------------------------------
(* The preparation of a track.                                             *)

Remove(track, indices) ==
  [points |-> Erase(track.points, indices), times |-> Erase(track.times, indices)]

\* _equal: the second of two equal positions in a row is a defect.
Duplicates(track) ==
  { i \in 2..Len(track.points) : track.points[i - 1] = track.points[i] }

\* _warp: the way from point i to the next one is too fast.  Times are
\* unsigned: a step back in time is a step by a huge difference.
Warp(track, i, warpSpeed) ==
  LET time == track.times[i + 1] - track.times[i]
      way  == PointDistance(track.points[i], track.points[i + 1])
  IN  /\ way > 0
      /\ time >= 0
      /\ time = 0 \/ way >= warpSpeed * time

\* Of the two points of a warp the one without which the track is shorter.
Unbounded == 1000000
WarpDefect(track, i) ==
  LET n           == Len(track.points)
      destination == IF i + 2 <= n THEN PointDistance(track.points[i], track.points[i + 2])
                                   ELSE Unbounded
      origin      == IF i >= 2 THEN PointDistance(track.points[i - 1], track.points[i + 1])
                               ELSE Unbounded
  IN  IF destination <= origin THEN i + 1 ELSE i

Warps(track, warpSpeed) ==
  { WarpDefect(track, i) :
      i \in { j \in 1..Len(track.points) - 1 : Warp(track, j, warpSpeed) } }

Defects(track, opt) ==
  Duplicates(track) \cup (IF opt.filterWarps THEN Warps(track, opt.warpSpeed) ELSE {})

RemoveDefects(track, opt) ==
  IF opt.filterDuplicates THEN Remove(track, Defects(track, opt)) ELSE track

SimplifyTrack(track, opt) ==
  IF opt.simplify
    THEN Remove(track, SimplifyIndices(track.points, 1, Len(track.points), opt.tolerance))
    ELSE track

-----------------------------------------------------------------------------
(* The candidate search.                                                   *)

Segments(net) ==
  UNION { { << e, i >> : i \in 1..Len(Line(net, e)) - 1 } : e \in Edges(net) }
SegmentDistance(net, s, p) ==
  PointDistance(p, Projection(p, Line(net, s[1])[s[2]], Line(net, s[1])[s[2] + 1]))

\* The edges of the k segments nearest to p.
Nearer(net, p, s, r) ==
  LET a == SegmentDistance(net, s, p)
      b == SegmentDistance(net, r, p)
  IN  a < b \/ (a = b /\ (s[1] < r[1] \/ (s[1] = r[1] /\ s[2] < r[2])))
NearestEdges(net, p, k) ==
  { s[1] : s \in { r \in Segments(net) :
      Cardinality({ q \in Segments(net) : Nearer(net, p, q, r) }) < k } }

\* The edges that reach into the box around p.
EdgesInBox(net, p, radius) ==
  LET low  == << p[1] - radius, p[2] - radius >>
      high == << p[1] + radius, p[2] + radius >>
  IN  { s[1] : s \in { r \in Segments(net) :
          Intersect(low, high, Line(net, r[1])[r[2]], Line(net, r[1])[r[2] + 1]) } }

\* The radius that an adaptive search uses at a point of the track.
Lesser(a, b) == IF a < b THEN a ELSE b
CurrentRadius(track, index, radius, adaptive, opt) ==
  LET p        == track.points[index]
      before   == IF index > 1 THEN Lesser(radius, PointDistance(track.points[index - 1], p))
                               ELSE radius
      after    == IF index < Len(track.points)
                    THEN Lesser(before, PointDistance(p, track.points[index + 1]))
                    ELSE before
      adapted  == IF after < opt.radiusLower THEN opt.radiusLower ELSE after
  IN  Lesser(IF adaptive THEN adapted ELSE radius, opt.radiusUpper)

\* The loop that doubles the radius until an edge is found: a circle search
\* asks the index again, a combined one only keeps what was near enough.
RECURSIVE WithinRadius(_, _, _, _, _, _, _)
WithinRadius(net, track, index, edges, radius, adaptive, opt) ==
  LET p     == track.points[index]
      r     == CurrentRadius(track, index, radius, adaptive, opt)
      asked == IF opt.search = "circle" THEN EdgesInBox(net, p, r) ELSE edges
      kept  == { e \in asked : LineDistance(Line(net, e), p) <= r }
  IN  IF kept = {} /\ r < opt.radiusUpper
        THEN WithinRadius(net, track, index, kept, 2 * r, FALSE, opt)
        ELSE kept

\* _additions_next: the edges that leave the ends of the ones found (the test
\* compares an edge with itself), and then the reverse ones.
Adjacent(net, edges) ==
  UNION { OutEdges(net, Source(net, e)) \cup OutEdges(net, Target(net, e)) : e \in edges }
Reverse(net, edges) ==
  UNION { Between(net, Target(net, e), Source(net, e)) : e \in edges }
AdditionsNext(net, edges) ==
  LET more == edges \cup Adjacent(net, edges) IN more \cup Reverse(net, more)

EdgeResult(net, track, index, opt) ==
  LET p       == track.points[index]
      nearest == IF opt.search = "circle" THEN {} ELSE NearestEdges(net, p, opt.kNearest)
      within  == IF opt.search \in {"circle", "combined"}
                   THEN WithinRadius(net, track, index, nearest, opt.radius,
                                     opt.adaptiveRadius, opt)
                   ELSE nearest
  IN  IF opt.search = "next" THEN AdditionsNext(net, within) ELSE within

-----------------------------------------------------------------------------
\* Where in an edge set a candidate edge goes: after those as near as it is.
InsertEdge(edgeSet, new) ==
  LET before == Cardinality({ i \in DOMAIN edgeSet : edgeSet[i].distance <= new.distance })
  IN  SubSeq(edgeSet, 1, before) \o << new >> \o SubSeq(edgeSet, before + 1, Len(edgeSet))

\* The candidate edge of a point on an edge, with the two parts of its line.
Projected(net, p, e) ==
  LET line == Line(net, e)
      at   == ClosestPoint(line, p)
  IN  [adopted |-> FALSE, edge |-> e, projection |-> at,
       distance |-> PointDistance(p, at),
       from |-> IF First(line) = at THEN << >>
                ELSE IF LastOf(line) = at THEN line ELSE SubstringTo(line, at),
       to   |-> IF First(line) = at THEN line
                ELSE IF LastOf(line) = at THEN << >> ELSE SubstringFrom(line, at)]

RECURSIVE ProcessEdges(_, _, _, _)
ProcessEdges(net, p, edgeSet, edges) ==
  IF edges = {} THEN edgeSet
  ELSE LET e == Least(edges)
       IN  ProcessEdges(net, p, IF HasLength(Line(net, e))
                                  THEN InsertEdge(edgeSet, Projected(net, p, e))
                                  ELSE edgeSet, edges \ {e})

EdgeSets(net, track, opt) ==
  [i \in DOMAIN track.points |->
     ProcessEdges(net, track.points[i], << >>, EdgeResult(net, track, i, opt))]

-----------------------------------------------------------------------------
(***************************************************************************)
(* Adoption: a candidate edge is also taken by other points of the track,  *)
(* with their distance to its projection.                                  *)
(***************************************************************************)
AddCandidate(p, candidate, edgeSet) ==
  LET distance == PointDistance(p, candidate.projection)
      new      == [candidate EXCEPT !.adopted = TRUE, !.distance = distance]
  IN  IF \E i \in DOMAIN edgeSet :
           /\ edgeSet[i].distance = distance
           /\ edgeSet[i].edge = candidate.edge
           /\ edgeSet[i].projection = candidate.projection
        THEN edgeSet
        ELSE InsertEdge(edgeSet, new)

Own(candidate) == ~candidate.adopted

RECURSIVE AddAll(_, _, _)
AddAll(p, adopted, edgeSet) ==
  IF adopted = << >> THEN edgeSet
  ELSE AddAll(p, Tail(adopted), AddCandidate(p, adopted[1], edgeSet))

\* The candidates found by other points whose way to the network comes within
\* the distance of the farthest candidate of this point.
NearbyFound(track, found, edgeSets, index) ==
  LET p       == track.points[index]
      longest == LastOf(edgeSets[index]).distance
      near(i) == LET Near(c) == PointDistance(p, Projection(p, track.points[i], c.projection))
                                  <= longest
                 IN  SelectSeq(found[i], Near)
      upTo[i \in 0..Len(found)] ==
        IF i = 0 THEN << >>
        ELSE upTo[i - 1] \o IF i = index THEN << >>
                            ELSE [k \in DOMAIN near(i) |-> << i, near(i)[k] >>]
  IN  IF edgeSets[index] = << >> \/ longest = 0 THEN << >> ELSE upTo[Len(found)]

RECURSIVE AdoptEach(_, _, _, _, _)
AdoptEach(track, edgeSets, index, results, opt) ==
  IF results = << >> THEN edgeSets
  ELSE LET other   == results[1][1]
           adopted == [edgeSets EXCEPT ![index] =
                         AddCandidate(track.points[index], results[1][2], @)]
           both    == IF opt.adoptReverse
                        THEN [adopted EXCEPT ![other] =
                                AddAll(track.points[other],
                                       SelectSeq(adopted[index], Own), @)]
                        ELSE adopted
       IN  AdoptEach(track, both, index, Tail(results), opt)

RECURSIVE AdoptNearby(_, _, _, _, _)
AdoptNearby(track, found, edgeSets, index, opt) ==
  IF index > Len(edgeSets) THEN edgeSets
  ELSE AdoptNearby(track, found,
         AdoptEach(track, edgeSets, index,
                   NearbyFound(track, found, edgeSets, index), opt), index + 1, opt)

RECURSIVE AdoptSiblings(_, _, _)
AdoptSiblings(track, edgeSets, index) ==
  IF index > Len(edgeSets) THEN edgeSets
  ELSE LET p        == track.points[index]
           previous == IF index > 1 THEN SelectSeq(edgeSets[index - 1], Own) ELSE << >>
           next     == IF index < Len(edgeSets)
                         THEN SelectSeq(edgeSets[index + 1], Own) ELSE << >>
       IN  AdoptSiblings(track, [edgeSets EXCEPT ![index] = AddAll(p, previous \o next, @)],
                         index + 1)

Adopted(track, edgeSets, opt) ==
  LET nearby == IF opt.adoptNearby THEN AdoptNearby(track, edgeSets, edgeSets, 1, opt)
                                   ELSE edgeSets
  IN  IF opt.adoptSiblings THEN AdoptSiblings(track, nearby, 1) ELSE nearby

-----------------------------------------------------------------------------
\* The nodes of a candidate: the ends of its edges, by their distance.
NodesOf(net, p, edgeSet) ==
  LET found == UNION { {Source(net, edgeSet[i].edge), Target(net, edgeSet[i].edge)} :
                       i \in DOMAIN edgeSet }
      distance(v) == PointDistance(p, net.points[v])
      rank(v) == Cardinality({ w \in found : \/ distance(w) < distance(v)
                                             \/ distance(w) = distance(v) /\ w <= v })
  IN  [k \in 1..Cardinality(found) |->
         LET v == CHOOSE w \in found : rank(w) = k
         IN  [vertex |-> v, distance |-> distance(v)]]

Candidate(net, track, edgeSet, index) ==
  [index |-> index, point |-> track.points[index],
   nextEqual |-> /\ index < Len(track.points)
                 /\ track.points[index] = track.points[index + 1],
   nodes |-> NodesOf(net, track.points[index], edgeSet), edges |-> edgeSet]

Candidates(net, track, opt) ==
  LET sets == Adopted(track, EdgeSets(net, track, opt), opt)
  IN  [i \in DOMAIN sets |-> Candidate(net, track, sets[i], i)]

=============================================================================
