--------------------------- MODULE MCTrackReading ---------------------------
(***************************************************************************)
(* Files of up to three rows, or two of up to two, with two ids and times  *)
(* that are equal, out of order, missing and far apart; ground truths and  *)
(* matches that repeat an id, miss one or have one more; gpx tracks of one *)
(* segment, of two of one size or of two and three points, and of three.   *)
(* Lines of a street with a stub, compared with lines of it that may pass  *)
(* beside its middle.  Calls that give some of the options of each group.  *)
(* Drives and road files as in MCRoadWorkflow.                             *)
(* A behaviour reads tracks, compares a pair of lines, is one call of the  *)
(* program, or takes a drive through the HD-map tools.                     *)
(***************************************************************************)
EXTENDS TrackReading, LineComparison, CommandOptions, MCRoadWorkflow, NetworkFormats

Point(id, time) == [kind |-> "point", id |-> id, time |-> time]
Lines(id, sizes) == [kind |-> "lines", id |-> id, sizes |-> sizes]
Track(id, times) == [kind |-> "track", id |-> id, times |-> times]

MCNoTime == 99
Gone == 7   \* farther than the split time from all others
Far == {0, 3, 6}
Points == {Point("a", time) : time \in {0, 1, Gone, MCNoTime}} \cup {Point("b", time) : time \in {0, MCNoTime}}
RowForms == Points \cup {Lines("a", <<2>>)}
Few == {Point("a", 0), Point("b", 1), Lines("a", <<2, 1>>), Lines("b", <<0>>)}

Match(noId, splitTime, grouped) ==
    [command |-> "match", grouped |-> grouped, noId |-> noId, splitTime |-> splitTime, ignore |-> FALSE]
Compare(ignore, grouped) ==
    [command |-> "compare", grouped |-> grouped, noId |-> "no", splitTime |-> 0, ignore |-> ignore]

MCSettings ==
    {Match(noId, splitTime, grouped) : noId \in {"no", "rows", "files"}, splitTime \in {0, 3}, grouped \in BOOLEAN}
    \cup {Compare(ignore, grouped) : ignore, grouped \in BOOLEAN}

Gpx == Track("a", << <<7, 0, 1>>, <<8, MCNoTime>> >>)
MCReadings ==
    {<< <<file>> >> : file \in BoundedSeq(RowForms, 3)}
    \cup {<< <<one, two>> >> : one, two \in BoundedSeq(Few, 2)}
    \cup {<< <<truth>>, <<match>> >> : truth, match \in BoundedSeq(Few, 2)}
    \cup {<< <<<<Gpx>>>> , <<match>> >> : match \in BoundedSeq(Few, 2)}
    \cup {<< <<<<Track("a", <<times>>)>>>> >> : times \in [1..4 -> Far]}
    \cup {<< <<<<Track("a", <<one, two>>)>>>> >> : one, two \in [1..2 -> Far]}
    \cup {<< <<<<Track("a", <<one, two>>)>>>> >> : one, two \in [1..3 -> {0, 3}]}
    \cup {<< <<<<Track("a", <<one, two>>)>>>> >> : one \in [1..2 -> {0, 3}], two \in [1..3 -> Far]}
    \cup {<< <<<<Track("a", <<one, two>>)>>>> >> : one \in [1..3 -> Far], two \in [1..2 -> {0, 3}]}
    \cup {<< <<<<Track("a", <<one, two, <<6, 6>>>>)>>>> >> : one \in [1..3 -> {0, 3}], two \in [1..2 -> {3, 6}]}

-----------------------------------------------------------------------------
\* A street of 10 m with a stub in the middle, and a point 0.2 m beside the middle.
West == << 0, 0 >>
Middle == << 50, 0 >>
Beside == << 50, 2 >>
East == << 100, 0 >>
Stub == << 50, 50 >>
Street == { << West, Middle >>, << Middle, East >>, << Middle, Stub >> }
Off02 == { << West, Beside >>, << Beside, East >>, << Beside, Stub >>, << Middle, Beside >> }
Paths(edges, corners, n) ==
  { p \in [1..n -> corners] : \A k \in 1..n - 1 : << p[k], p[k + 1] >> \in edges \/ << p[k + 1], p[k] >> \in edges }

MCTruths == { << p >> : p \in UNION { Paths(Street, { West, Middle, East, Stub }, n) : n \in { 0, 2, 3, 4, 5 } } }
MCMatches ==
  { << p >> : p \in UNION { Paths(Street \cup Off02, { West, Middle, Beside, East, Stub }, n) : n \in { 0, 2, 3, 4 } } }

-----------------------------------------------------------------------------
\* All ways to give some of the options, each one of its values.
Given(choices) == UNION { [O -> BOOLEAN] : O \in SUBSET choices }
Line(base, extra) == [line |-> base @@ extra, file |-> NoDefaults, exists |-> FALSE]
Lined(base, choices) == { Line(base, extra) : extra \in Given(choices) }
Listed(base, option, values) == { Line(base, option :> v) : v \in values }

PrepareLine == "prepare" :> TRUE @@ "file" :> << "osm" >> @@ "output" :> "directory"
MatchLine == "match" :> TRUE @@ "input" :> "directory" @@ "tracks" :> << "csv" >>
CompareLine == "compare" :> TRUE @@ "match-tracks" :> << "csv" >> @@ "compare-tracks" :> << "gpx" >>

MCCalls ==
  \* no mode, several, help and version
  { [line |-> line, file |-> file, exists |-> exists] :
      line \in Given(Modes) \cup { m :> TRUE @@ h :> TRUE : m \in Modes, h \in { "help", "version", "quiet" } }
               \cup { "help" :> TRUE, "version" :> TRUE, "config" :> "other.conf" },
      file \in { "verbose" :> TRUE, "match" :> TRUE, "radius" :> 100 }, exists \in BOOLEAN }
  \* groups, and the file against the line
  \cup Lined(PrepareLine, { "memory-mapping", "memory-mapped-preparation", "memory-mapped-graph",
                        "memory-mapped-tags-import" })
  \cup Lined(MatchLine, { "trajectory-simplification", "median-merge", "filter-warps", "memory-mapping",
                      "memory-mapped-tags" })
  \cup Lined(MatchLine, { "candidate-adoption", "candidate-adoption-siblings", "candidate-adoption-nearby",
                      "candidate-adoption-reverse", "within-edge-turns" })
  \cup { [line |-> MatchLine @@ line, file |-> file, exists |-> TRUE] :
           line, file \in Given({ "candidate-adoption", "candidate-adoption-nearby", "quiet" })
                         \cup Given({ "candidate-adoption-reverse", "verbose" }) }
  \* values that depend on each other, and values nobody knows
  \cup { Line(MatchLine, "radius" :> r @@ "radius-upper-limit" :> u @@ "radius-lower-limit" :> l) :
           r, u, l \in { 100, 200, 300 } }
  \cup { Line(MatchLine, "candidate-search" :> s @@ "k-nearest" :> 4 @@ "concatenate-skips" :> skips) :
           s \in { "next", "circle", "other" }, skips \in BOOLEAN }
  \cup Lined(MatchLine, { "a-star", "a-star-euclidean", "candidates-export-all", "read-line" })
  \cup Listed(MatchLine, "candidates-columns", { << "id", "is_result" >> })
  \cup Listed(PrepareLine, "format", { "seattle", "giscup", "other" })
  \cup Listed(PrepareLine, "graph-file", { "tags.bin", "tmp_graph.bin" })
  \cup Listed("prepare" :> TRUE @@ "output" :> "directory", "file", { << "osm", "missing" >> })
  \cup Listed("match" :> TRUE @@ "input" :> "directory", "tracks",
              { << "csv", "csv" >>, << "csv", "gpx" >>, << "txt" >>, << "list" >> })
  \cup Listed("match" :> TRUE @@ "input" :> "directory" @@ "tracks" :> << "txt" >>, "tracks-file-type", { "csv" })
  \cup Listed(MatchLine, "model", { "viterbi", "other" }) \cup Listed(MatchLine, "state-size", { 1, 3 })
  \cup { Line(CompareLine, NoDefaults) } \cup Listed(CompareLine, "radius", { 100 })
  \cup Listed("compare" :> TRUE @@ "match-tracks" :> << "csv" >>, "compare-tracks", { << "list" >>, << "txt" >> })

-----------------------------------------------------------------------------
readingVars == << setting, readings, at, pc, points, currentId, flushed, accepted, matched, truths, matches, tasks >>
NoReading ==
  /\ setting = Compare(FALSE, FALSE) /\ readings = << >> /\ at = << 1, 1, 1 >> /\ pc = "none"
  /\ points = Empty /\ currentId = {} /\ flushed = FALSE /\ accepted = << >>
  /\ matched = << >> /\ truths = Empty /\ matches = Empty /\ tasks = << >>
comparisonVars == << phase, comparison >>
NotComparing == phase = "none" /\ comparison = NoComparison
optionVars == << step, call, stored, data, work, code >>
NoCall == step = "none" /\ call = NotCalled /\ stored = NothingStored /\ data = NoDefaults /\ work = NoDefaults /\ code = -1

NoDrive ==
  /\ drive = [oxts |-> << >>, velodyne |-> << >>] /\ oxts = NoFrames /\ lidar = NoScans /\ reading = InList("none", 0)
  /\ RoadInit /\ MatcherInit /\ CenterlineInit /\ stage = "none" /\ baseline = << >> /\ report = NoReport

-----------------------------------------------------------------------------
(* The parts that networks and routes are made of, beside them.            *)
CONSTANTS Lines0, Others, MaxPoints, PartLists, MaxParts, CandidateLines, EdgeLines, MaxEdges,
          Network, RouteInputs
VARIABLES
  routeStep,   \* step of RouteOwnership
  kind, line, collection, turns, local, answer, reader, nextItem, ids, pieces, queue, best, truth, counter, passed, status

partsVars ==
  << routeStep, kind, line, collection, turns, local, answer, networkVars,
     reader, nextItem, ids, pieces, queue, best, truth, counter, passed, status >>

Parts == INSTANCE MCNetworkParts WITH step <- routeStep

ASSUME PartsAssumption == NetworkAssumption

Cases == INSTANCE MCPartsCases
MCLines == Cases!MCLines
MCOthers == Cases!MCOthers
MCParts == Cases!MCParts
MCMovingLines == Cases!MCMovingLines
MCNetworkInputs == Cases!MCNetworkInputs
MCImported == Cases!MCImported
MCNetwork == Cases!MCNetwork
MCRouteInputs == Cases!MCRouteInputs

-----------------------------------------------------------------------------
Init ==
  \/ ReadingInit /\ NotComparing /\ NoCall /\ NoDrive /\ Parts!NoPart
  \/ NoReading /\ ComparisonInit /\ NoCall /\ NoDrive /\ Parts!NoPart
  \/ NoReading /\ NotComparing /\ OptionsInit /\ NoDrive /\ Parts!NoPart
  \/ NoReading /\ NotComparing /\ NoCall /\ WorkflowInit /\ Parts!NoPart
  \/ NoReading /\ NotComparing /\ NoCall /\ NoDrive /\ Parts!Init
Next ==
  \/ pc # "none" /\ ReadingNext /\ UNCHANGED << comparisonVars, optionVars, workflowVars, partsVars >>
  \/ ComparisonNext /\ UNCHANGED << readingVars, optionVars, workflowVars, partsVars >>
  \/ OptionsNext /\ UNCHANGED << readingVars, comparisonVars, workflowVars, partsVars >>
  \/ stage # "none" /\ WorkflowNext /\ UNCHANGED << readingVars, comparisonVars, optionVars, partsVars >>
  \/ Parts!Next /\ UNCHANGED << readingVars, comparisonVars, optionVars, workflowVars >>
Spec == Init /\ [][Next]_<< readingVars, comparisonVars, optionVars, workflowVars, partsVars >>

\* What lines and collections of lines keep of what was asked before is what they would
\* compute now (rich_line_data.hpp, eager_rich_line.hpp, multi_rich_line_data.hpp).
CachesAreFresh == Parts!CachesAreFresh

\* No line of an ended route is used (candidate_graph.hpp, route.hpp).
LinesOutliveRoute == Parts!LinesOutliveRoute

\* Routes are followed through the network as the files say (route readers).
RoutesAreFollowed == Parts!RoutesAreFollowed
=============================================================================
