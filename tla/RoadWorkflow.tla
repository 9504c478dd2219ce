---------------------------- MODULE RoadWorkflow ----------------------------
(***************************************************************************)
(* tools/kitti_osm_workflow.cpp: the drive is loaded, the road file is     *)
(* imported around the same anchor, every position is compared with its    *)
(* nearest edge (the baseline) and matched, and a report and some lists    *)
(* are written.  The other tools load the LiDAR of a drive, derive a       *)
(* centerline from it, or search a path in the graph.                      *)
(* Means and percentiles are kept as fractions << numerator, denominator >>.*)
(***************************************************************************)
EXTENDS KittiSequence, RoadMatcher, Centerlines

CONSTANTS
    RoadFiles,      \* the .osm files
    LowConfidence   \* from this distance on the confidence is below the threshold

\* A road file has finitely many lines, and a node in it has a position.
ASSUME RoadFilesAssumption ==
  \A content \in RoadFiles :
    /\ Len(content) \in Nat
    /\ \A i \in 1..Len(content) : content[i].kind = "node" => content[i].at \in Int \X Int

VARIABLES stage, baseline, report

workflowVars == << sequenceVars, roadVars, matcherVars, centerlineVars, stage, baseline, report >>

NoReport == << >>

WorkflowInit ==
  /\ SequenceInit /\ RoadInit /\ MatcherInit /\ CenterlineInit
  /\ stage = "load" /\ baseline = << >> /\ report = NoReport

-----------------------------------------------------------------------------
\* The distances of a sample from the smallest to the largest: at place k is the least
\* one that at least k of them do not exceed.
UpTo(dists, x) == { i \in DOMAIN dists : dists[i] <= x }
Ordered(dists) ==
  [k \in DOMAIN dists |-> Min({ x \in ToSet(dists) : Cardinality(UpTo(dists, x)) >= k })]

\* values[lo] + frac * (values[lo + 1] - values[lo]) for the rank p % of the last index.
RankAbove(p, n) == (p * (n - 1)) \div 100 + 1
RankBelow(p, n) == (p * (n - 1)) \div 100

Percentile(dists, p) ==
  LET n == Len(dists)
      v == Ordered(dists)
      lo == RankBelow(p, n) + 1
      rest == (p * (n - 1)) % 100
  IN  IF n = 0 THEN 0
      ELSE IF lo + 1 > n THEN 100 * v[n]
      ELSE 100 * v[lo] + rest * (v[lo + 1] - v[lo])

SnapStats(dists) ==
  [count |-> Len(dists), sum |-> Total(DOMAIN dists, dists), p50 |-> Percentile(dists, 50),
   p95 |-> Percentile(dists, 95), max |-> Max({0} \cup ToSet(dists))]

MatchedPoints == { i \in DOMAIN roadPoints : roadPoints[i].matched }

\* The distances of the matched points, in the order of the drive.
DistanceIfMatched(dists, p) == IF p.matched THEN Append(dists, p.dist) ELSE dists
MatchedDistances ==
  LET upTo[i \in 0..Len(roadPoints)] ==
        IF i = 0 THEN << >> ELSE DistanceIfMatched(upTo[i - 1], roadPoints[i])
  IN  upTo[Len(roadPoints)]

\* Two matched points in a row on edges that do not touch; the code has this loop twice,
\* for the count in the report and for the list that is drawn.
Jumps ==
  { i \in 2..Len(roadPoints) :
      /\ roadPoints[i - 1].matched /\ roadPoints[i].matched
      /\ roadPoints[i].edge # roadPoints[i - 1].edge
      /\ ~EdgesShareNode(roadPoints[i - 1].edge, roadPoints[i].edge) }

LowConfidencePoints == { i \in MatchedPoints : roadPoints[i].dist >= LowConfidence }

-----------------------------------------------------------------------------
LoadStep ==
  /\ stage = "load" /\ SequenceNext
  /\ UNCHANGED << roadVars, matcherVars, centerlineVars, stage, baseline, report >>

\* KittiSequence goes on with the LiDAR; the workflow does not, and skips a drive
\* without frames.
OxtsLoaded ==
  /\ stage = "load" /\ reading.what = "oxts" /\ ~HasFile("oxts")
  /\ IF oxts.frames = << >> THEN stage' = "skipped" /\ UNCHANGED roadVars
     ELSE stage' = "import" /\ \E content \in RoadFiles : OpenFile(content)
  /\ UNCHANGED << sequenceVars, matcherVars, centerlineVars, baseline, report >>

DrivePositions == [i \in DOMAIN oxts.frames |-> oxts.frames[i].enu]

\* centerline_extractor::extract
CenterlineStep ==
  /\ \/ /\ stage = "load" /\ reading.what = "oxts" /\ ~HasFile("oxts")
        /\ StartCenterline(DrivePositions) /\ stage' = "centerline"
     \/ stage = "centerline" /\ CenterlineNext /\ UNCHANGED stage
  /\ UNCHANGED << sequenceVars, roadVars, matcherVars, baseline, report >>

ImportStep ==
  /\ stage = "import"
  /\ \/ ReaderNext /\ UNCHANGED << stage >>
     \/ BuildGraph(oxts.anchor) /\ stage' = "baseline"
  /\ UNCHANGED << sequenceVars, matcherVars, centerlineVars, baseline, report >>

SearchStep ==
  /\ stage = "baseline"
  /\ \/ search = NoSearch /\ \E s, t \in 1..Len(graph.nodes) + 1 : StartSearch(s, t)
     \/ SearchNext
  /\ UNCHANGED << sequenceVars, matcherVars, centerlineVars, stage, baseline, report >>

Baseline ==
  /\ stage = "baseline" /\ search = NoSearch
  /\ baseline' = [i \in DOMAIN oxts.frames |-> NearestDistance(oxts.frames[i].enu)]
  /\ StartMatching(DrivePositions)
  /\ stage' = "match"
  /\ UNCHANGED << sequenceVars, roadVars, centerlineVars, report >>

MatchStep ==
  /\ stage = "match" /\ MatcherNext
  /\ UNCHANGED << sequenceVars, roadVars, centerlineVars, stage, baseline, report >>

Report ==
  /\ stage = "match" /\ matching = "done"
  /\ report' = [hmm |-> SnapStats(MatchedDistances), base |-> SnapStats(baseline),
                total |-> Len(roadPoints), matched |-> Cardinality(MatchedPoints),
                low |-> Cardinality(LowConfidencePoints),
                jumps |-> Cardinality(Jumps)]
  /\ stage' = "done"
  /\ UNCHANGED << sequenceVars, roadVars, centerlineVars, matcherVars, baseline >>

WorkflowNext ==
  LoadStep \/ CenterlineStep \/ OxtsLoaded \/ ImportStep \/ SearchStep \/ Baseline \/ MatchStep \/ Report

WorkflowSpec == WorkflowInit /\ [][WorkflowNext]_workflowVars

-----------------------------------------------------------------------------
\* At least half of the sample is not above the value, and half not below.
HalfAround(dists, hundredfold) ==
  /\ 2 * Cardinality({ i \in DOMAIN dists : 100 * dists[i] <= hundredfold }) >= Len(dists)
  /\ 2 * Cardinality({ i \in DOMAIN dists : 100 * dists[i] >= hundredfold }) >= Len(dists)

\* The two kinds of numbers of a report fit together: no matched position is closer
\* to its edge than the nearest edge is, a position is matched only if the nearest
\* edge is within the radius; in both samples half of the values are on each side of the
\* median, which is not above the 95th percentile, nor that above the maximum
\* (kitti_osm_workflow.cpp:140-182, pipeline_report.hpp:28-58).
ReportIsConsistent ==
  stage = "done" =>
    /\ \A i \in DOMAIN roadPoints :
         roadPoints[i].matched => baseline[i] <= roadPoints[i].dist /\ baseline[i] <= Radius
    /\ \A s \in {report.hmm, report.base} :
         /\ s.p50 <= s.p95 /\ s.p95 <= 100 * s.max /\ s.sum <= s.count * s.max
    /\ HalfAround(MatchedDistances, report.hmm.p50) /\ HalfAround(baseline, report.base.p50)
    /\ report.hmm.count = report.matched /\ report.base.count = report.total

\* What the workflow goes on with is the graph of the file.
RoadsAreImported == stage = "baseline" /\ search = NoSearch => RoadsAreTheFile
=============================================================================
