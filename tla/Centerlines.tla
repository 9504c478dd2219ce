---------------------------- MODULE Centerlines ----------------------------
(***************************************************************************)
(* centerline_extractor: the positions of a drive are grouped by the       *)
(* direction in which it goes on from them and by where they are, and the  *)
(* centers of the groups of one direction are joined to a line.            *)
(* A direction is one of eight, the signs of the two differences; its unit *)
(* vector is the pair of signs.  A center is a sum of positions over their *)
(* number, so distances to it are compared as fractions.                   *)
(***************************************************************************)
EXTENDS Integers, FiniteSetsExt, SequencesExt

CONSTANTS
    ClusterRadius,      \* a position joins a center that is not farther
    IntersectionDist    \* centers of two directions that are not farther are an intersection

VARIABLES
    trace,      \* the positions of the drive
    sample,     \* the position that is looked at
    clusters,   \* [bin, sum, support] of each group
    centerline  \* its edges and intersections, and the directions that are not joined yet

centerlineVars == << trace, sample, clusters, centerline >>
NoLine == [edges |-> << >>, intersections |-> {}, left |-> {}]

Sign(n) == IF n < 0 THEN -1 ELSE IF n > 0 THEN 1 ELSE 0
Direction(p, q) == << Sign(q[1] - p[1]), Sign(q[2] - p[2]) >>
Magnitude(n) == IF n < 0 THEN -n ELSE n

CenterlineInit == trace = << >> /\ sample = 0 /\ clusters = << >> /\ centerline = NoLine

\* Nothing comes of fewer than two positions.
StartCenterline(positions) ==
  /\ trace' = positions /\ clusters' = << >> /\ sample' = 1
  /\ centerline' = NoLine

-----------------------------------------------------------------------------
\* support times the distance from a position to the center.
ScaledDistance(c, p) ==
  Magnitude(c.sum[1] - c.support * p[1]) + Magnitude(c.sum[2] - c.support * p[2])

AnyBin(bin, p) ==
  { i \in DOMAIN clusters : ScaledDistance(clusters[i], p) <= ClusterRadius * clusters[i].support }
InReach(bin, p) ==
  { i \in DOMAIN clusters :
      clusters[i].bin = bin /\ ScaledDistance(clusters[i], p) <= ClusterRadius * clusters[i].support }

Closer(i, k, p) ==
  ScaledDistance(clusters[i], p) * clusters[k].support <= ScaledDistance(clusters[k], p) * clusters[i].support

\* The nearest center, the last one of several.
Nearest(S, p) == Max({ i \in S : \A k \in S : Closer(i, k, p) })

Sampling == sample >= 1 /\ sample < Len(trace)
Bin == Direction(trace[sample], trace[sample + 1])
NextSample == sample' = sample + 1 /\ UNCHANGED trace
SameLine == UNCHANGED centerline

\* A position that the drive does not move on from has no direction.
SkipStanding == Sampling /\ Bin = << 0, 0 >> /\ NextSample /\ SameLine /\ UNCHANGED clusters

JoinCluster ==
  /\ Sampling /\ Bin # << 0, 0 >> /\ InReach(Bin, trace[sample]) # {}
  /\ LET p == trace[sample]
         i == Nearest(InReach(Bin, p), p)
     IN  clusters' = [clusters EXCEPT ![i].sum = << @[1] + p[1], @[2] + p[2] >>, ![i].support = @ + 1]
  /\ NextSample /\ SameLine

NewCluster ==
  /\ Sampling /\ Bin # << 0, 0 >> /\ InReach(Bin, trace[sample]) = {}
  /\ clusters' = Append(clusters, [bin |-> Bin, sum |-> trace[sample], support |-> 1])
  /\ NextSample /\ SameLine

-----------------------------------------------------------------------------
\* How far the center of group i is along the direction, times its support.
Along(i, bin) == clusters[i].sum[1] * bin[1] + clusters[i].sum[2] * bin[2]
NotBehind(i, k, bin) == Along(i, bin) * clusters[k].support <= Along(k, bin) * clusters[i].support

Bins == { << e, n >> : e, n \in {-1, 0, 1} } \ {<< 0, 0 >>}
Members(bin) == { i \in DOMAIN clusters : clusters[i].bin = bin }
Orders(bin) == { s \in SetToSeqs(Members(bin)) : \A i, k \in DOMAIN s : i < k => NotBehind(s[i], s[k], bin) }
Chain(s) == [k \in 1..Len(s) - 1 |-> << s[k], s[k + 1] >>]

CentersWithin(i, k, dist) ==
  LET c == clusters[i]
      d == clusters[k]
  IN  Magnitude(c.sum[1] * d.support - d.sum[1] * c.support)
        + Magnitude(c.sum[2] * d.support - d.sum[2] * c.support) <= dist * c.support * d.support

Crossings ==
  { i \in DOMAIN clusters :
      \E k \in DOMAIN clusters : clusters[k].bin # clusters[i].bin /\ CentersWithin(i, k, IntersectionDist) }

MarkIntersections ==
  /\ sample >= 1 /\ sample = Len(trace)
  /\ centerline' = [centerline EXCEPT !.intersections = Crossings, !.left = { c.bin : c \in ToSet(clusters) }]
  /\ NextSample /\ UNCHANGED clusters

\* Each direction is one chain of its centers, whatever lies between two of them.
ConnectBin ==
  /\ centerline.left # {}
  /\ LET bin == CHOOSE b \in centerline.left : TRUE
     IN  \E s \in Orders(bin) :
           centerline' = [centerline EXCEPT !.edges = @ \o Chain(s), !.left = @ \ {bin}]
  /\ UNCHANGED << trace, sample, clusters >>

CenterlineNext == SkipStanding \/ JoinCluster \/ NewCluster \/ MarkIntersections \/ ConnectBin

-----------------------------------------------------------------------------
Moving(bin) == { i \in 1..Len(trace) - 1 : Direction(trace[i], trace[i + 1]) = bin }

\* The sum of the entries of a list at the places in S.
Total(S, list) ==
  LET upTo[i \in 0..Len(list)] == IF i = 0 THEN 0 ELSE upTo[i - 1] + (IF i \in S THEN list[i] ELSE 0)
  IN  upTo[Len(list)]
Supports == [i \in DOMAIN clusters |-> clusters[i].support]
CenterSums(c) == [i \in DOMAIN clusters |-> clusters[i].sum[c]]
Coordinates(c) == [i \in DOMAIN trace |-> trace[i][c]]

\* Every position that the drive moved on from is in one group of its direction, and
\* the groups of a direction are one chain of edges that never lead backwards
\* (centerline_extractor.cpp:49-149).
CenterlineIsSound ==
  sample > Len(trace) /\ centerline.left = {} =>
    /\ \A bin \in Bins :
         /\ Total(Members(bin), Supports) = Cardinality(Moving(bin))
         /\ \A c \in 1..2 : Total(Members(bin), CenterSums(c)) = Total(Moving(bin), Coordinates(c))
         /\ LET edges == { e \in DOMAIN centerline.edges : centerline.edges[e][1] \in Members(bin) }
            IN  Cardinality(edges) = Max({ 0, Cardinality(Members(bin)) - 1 })
    /\ \A e \in DOMAIN centerline.edges :
         LET from == centerline.edges[e][1]
             to == centerline.edges[e][2]
         IN  /\ clusters[from].bin = clusters[to].bin /\ NotBehind(from, to, clusters[from].bin)
             /\ \A f \in DOMAIN centerline.edges \ {e} :
                  centerline.edges[f][1] # from /\ centerline.edges[f][2] # to
=============================================================================
