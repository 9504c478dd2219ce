---------------------------- MODULE TrackReading ----------------------------
(***************************************************************************)
(* How tracks get from files to the matcher and to the comparator.         *)
(*                                                                         *)
(* csv_track_importer collects points row by row under the id of the row   *)
(* and passes a track on when the id changes (grouped) or at the end; a    *)
(* row with a line is a track of its own.  gpx_track_importer passes one   *)
(* track with several lines at a time.  The match command has the time     *)
(* splitter behind the importer.  The compare command reads the ground     *)
(* truth, then the matches, and pairs them by id for the comparator.       *)
(*                                                                         *)
(* A row has a kind, an id, and for "point" a time, for "lines" how many   *)
(* points each of its lines has, for "track" (of a gpx file) the times of  *)
(* the points of each of its segments.  The place of a row stands for what *)
(* is read there.                                                          *)
(* Selectors, formats, projections and the regional filter are left out.   *)
(***************************************************************************)
EXTENDS Integers, FiniteSets, Sequences, SequencesExt, Functions

CONSTANTS
    TimeRange,  \* timestamps are unsigned, their differences modulo this
    Settings,   \* [command, grouped, noId, splitTime, ignore], see ReadingInit
    Readings,   \* sequences of files, the files sequences of rows or of tracks
    NoTime      \* in a row: the column is empty or missing

ASSUME TimeRangeAssumption == TimeRange \in Nat \ {0}

VARIABLES
    setting,    \* the options of the command
    readings,   \* what is read: <<tracks>> or <<ground truth, matches>>
    at,         \* <<reading, file, row>>, the row that is next
    pc,         \* "row", "pass" while finish_import passes tracks, "pair", "done", "threw"
    points,     \* _points: the points collected for each id
    currentId,  \* {_current_id}, {} before the first row (_id_set)
    flushed,    \* finish_import was done for the row that is next, or for the end
    accepted,   \* history: the tracks that the importer passed on, per reading
    matched,    \* what reaches the matcher, in order
    truths, matches,  \* comparator_forwarder_data: by id, tracks without a partner
    tasks       \* the comparisons that were started

vars == <<setting, readings, at, pc, points, currentId, flushed, accepted, matched, truths, matches, tasks>>
sinks == <<matched, truths, matches, tasks>>

-----------------------------------------------------------------------------
(* Splitting a track at gaps in time: multi_rich_line_time_split, the      *)
(* extract of multi_rich_line and the track_time_splitter that uses both.  *)
(*                                                                         *)
(* A track is a sequence of lines, a line a sequence of points; a point    *)
(* has a time and may be invalid when it was read without one.  Positions  *)
(* count from 0 as in the code, so the point at <<i, j>> of lines is       *)
(* lines[i + 1][j + 1].  Extract can throw: it has a set with the lines as *)
(* its one member, or the empty set.                                       *)

At(lines, pos) == lines[pos[1] + 1][pos[2] + 1]

\* All positions of points, in order.
Positions(lines) ==
    FlattenSeq([i \in DOMAIN lines |-> [j \in DOMAIN lines[i] |-> <<i - 1, j - 1>>]])

\* Mutant: a difference as large as the setting does not split.
GapLate(prev, curr, splitTime) ==
    prev.valid /\ curr.valid /\ (curr.time - prev.time) % TimeRange > splitTime
Gap(prev, curr, splitTime) ==
    prev.valid /\ curr.valid /\ (curr.time - prev.time) % TimeRange >= splitTime

\* Where a new part begins.  The point before may be in the line before.
Cuts(lines, splitTime) ==
    LET all == Positions(lines)
        late == SelectSeq([k \in DOMAIN all |-> k],
                    LAMBDA k : k > 1 /\ Gap(At(lines, all[k - 1]), At(lines, all[k]), splitTime))
    IN  [k \in DOMAIN late |-> all[late[k]]]

SubLine(line, from, to) ==
    IF from <= to /\ from < Len(line) /\ to <= Len(line) THEN {SubSeq(line, from + 1, to)} ELSE {}

\* _adjust_extract_bounds: neither the last point of a line begins a part nor the first
\* one ends it.  The bound that moves back takes the size of the line it leaves.
FromBound(lines, from) ==
    IF from[2] + 1 >= Len(lines[from[1] + 1]) THEN <<from[1] + 1, 0>> ELSE from
ToBound(lines, from, to) ==
    IF to[2] <= 1 /\ to[1] > 0 /\ to[1] > from[1] THEN <<to[1] - 1, Len(lines[to[1]])>> ELSE to

\* The line of to is excluded, its points up to the inner bound belong to the line before.
ExtractAdjusted(lines, from, to) ==
    IF from[1] + 1 > to[1] THEN {<<>>}
    ELSE IF from[1] + 1 = to[1] THEN
        {<<line>> : line \in SubLine(lines[from[1] + 1], from[2], to[2])}
    ELSE
        {<<first>> \o SubSeq(lines, from[1] + 2, to[1] - 1) \o <<last>> :
            first \in SubLine(lines[from[1] + 1], from[2], Len(lines[from[1] + 1])),
            last \in SubLine(lines[to[1]], 0, to[2])}

Extract(lines, from, to) ==
    LET start == FromBound(lines, from)
    IN  ExtractAdjusted(lines, start, ToBound(lines, start, to))

\* The parts in order, each a set as Extract has it; no part when there is no gap.
TimeSplit(lines, splitTime) ==
    LET cuts == Cuts(lines, splitTime)
        starts == <<<<0, 0>>>> \o cuts
        ends == [k \in DOMAIN cuts |-> <<cuts[k][1] + 1, cuts[k][2]>>]
                \o <<<<Len(lines), Len(Last(lines))>>>>
    IN  IF cuts = <<>> THEN <<>>
        ELSE [k \in DOMAIN starts |-> Extract(lines, starts[k], ends[k])]

\* track_time_splitter::pass.  A part that throws ends the reading, the parts
\* before it were passed on.
SplitTrack(track, splitTime) ==
    IF splitTime = 0 THEN <<{track}>>
    ELSE LET parts == TimeSplit(track.lines, splitTime)
         IN  IF parts = <<>> THEN <<{track}>>
             ELSE [k \in DOMAIN parts |-> {[id |-> <<track.id, k - 1>>, lines |-> lines] : lines \in parts[k]}]

-----------------------------------------------------------------------------
(* The importers.                                                          *)

Empty == [i \in {} |-> {}]

ReadingInit ==
    /\ setting \in Settings
    /\ readings \in Readings
    /\ Len(readings) = IF setting.command = "match" THEN 1 ELSE 2
    /\ at = <<1, 1, 1>> /\ pc = "row"
    /\ points = Empty /\ currentId = {} /\ flushed = FALSE
    /\ accepted = [r \in DOMAIN readings |-> <<>>]
    /\ matched = <<>> /\ truths = Empty /\ matches = Empty /\ tasks = <<>>

File == readings[at[1]][at[2]]
Row == File[at[3]]
AtRow == at[2] <= Len(readings[at[1]]) /\ at[3] <= Len(File)
AtFileEnd == at[2] <= Len(readings[at[1]]) /\ at[3] > Len(File)
AtEnd == at[2] > Len(readings[at[1]])

\* The id that a row counts under: without ids its number, which starts again in each
\* file, or the number of the file.
IdOf(row, place) ==
    CASE setting.noId = "rows" -> place[3] - 1
      [] setting.noId = "files" -> place[2] - 1
      [] OTHER -> row.id

\* Without ids a line counts under its number, also where points count under the file's.
LineId(row, place) == IF setting.noId # "no" THEN place[3] - 1 ELSE row.id

\* Without a time a point is put behind those that its id has, but is not valid.
PointOf(place, time, sofar) ==
    IF time # NoTime THEN [place |-> place, time |-> time, valid |-> TRUE]
    ELSE [place |-> place, time |-> sofar, valid |-> FALSE]

\* stable_sort with the timestamp_comparator: by time, then as they were read.
Sorted(line) ==
    LET ranked == SortSeq([i \in DOMAIN line |-> i],
                    LAMBDA i, j : line[i].time < line[j].time \/ (line[i].time = line[j].time /\ i < j))
    IN  [i \in DOMAIN line |-> line[ranked[i]]]

-----------------------------------------------------------------------------
(* The forwarders.                                                         *)

With(map, id, track) == [i \in DOMAIN map \cup {id} |-> IF i = id THEN track ELSE map[i]]
Without(map, id) == [i \in DOMAIN map \ {id} |-> map[i]]

\* Mutant: the match of a pair is left for finish.
PairKept(match) ==
    IF match.id \in DOMAIN truths
    THEN /\ tasks' = Append(tasks, [truth |-> truths[match.id], match |-> match])
         /\ UNCHANGED <<truths, matches>>
    ELSE /\ matches' = IF match.id \in DOMAIN matches THEN matches ELSE With(matches, match.id, match)
         /\ UNCHANGED <<truths, tasks>>
\* comparator_forwarder_matches::pass.
Pair(match) ==
    IF match.id \in DOMAIN truths
    THEN /\ tasks' = Append(tasks, [truth |-> truths[match.id], match |-> match])
         /\ truths' = Without(truths, match.id)
         /\ UNCHANGED matches
    ELSE /\ matches' = IF match.id \in DOMAIN matches THEN matches ELSE With(matches, match.id, match)
         /\ UNCHANGED <<truths, tasks>>

\* comparator_forwarder_compares::pass; emplace keeps the first of an id.  The
\* ground truth is read first, so no match waits for it yet.
KeepTruth(truth) ==
    /\ truths' = IF truth.id \in DOMAIN truths THEN truths ELSE With(truths, truth.id, truth)
    /\ UNCHANGED <<matches, tasks>>

\* The parts up to the first that throws.
Deliver(track) ==
    /\ accepted' = [accepted EXCEPT ![at[1]] = Append(@, track)]
    /\ IF setting.command = "match"
       THEN LET parts == SplitTrack(track, setting.splitTime)
                bad == {k \in DOMAIN parts : parts[k] = {}}
            IN  /\ matched' = matched \o [k \in {j \in DOMAIN parts : \A b \in bad : j < b} |->
                                            CHOOSE part \in parts[k] : TRUE]
                /\ pc' = IF bad # {} THEN "threw" ELSE pc
                /\ UNCHANGED <<truths, matches, tasks>>
       ELSE /\ IF at[1] = 1 THEN KeepTruth(track) ELSE Pair(track)
            /\ UNCHANGED <<matched, pc>>

-----------------------------------------------------------------------------
(* The importers.                                                          *)

\* A change of the id passes on what was collected, in any order of the map.
NeedsFlush ==
    \/ AtEnd
    \/ AtRow /\ Row.kind # "track" /\ setting.grouped /\ currentId # {}
             /\ IdOf(Row, at) \notin currentId

BeginFlush ==
    /\ pc = "row" /\ ~flushed /\ NeedsFlush
    /\ pc' = "pass"
    /\ UNCHANGED <<setting, readings, at, points, currentId, flushed, accepted, sinks>>

PassTrack ==
    /\ pc = "pass"
    /\ \E id \in DOMAIN points :
          /\ Deliver([id |-> id, lines |-> <<Sorted(points[id])>>])
          /\ points' = Without(points, id)
    /\ UNCHANGED <<setting, readings, at, currentId, flushed>>

EndFlush ==
    /\ pc = "pass" /\ points = Empty
    /\ pc' = "row" /\ flushed' = TRUE
    /\ UNCHANGED <<setting, readings, at, points, currentId, accepted, sinks>>

AtReadableRow(kind) == pc = "row" /\ AtRow /\ Row.kind = kind /\ (NeedsFlush => flushed)

RowDone == at' = [at EXCEPT ![3] = @ + 1] /\ flushed' = FALSE /\ UNCHANGED <<setting, readings>>

ReadPoint ==
    /\ AtReadableRow("point")
    /\ LET id == IdOf(Row, at)
           line == IF id \in DOMAIN points THEN points[id] ELSE <<>>
       IN  /\ points' = With(points, id, Append(line, PointOf(at, Row.time, Len(line))))
           /\ currentId' = {id}
    /\ RowDone
    /\ UNCHANGED <<pc, accepted, sinks>>

\* A row with a LINESTRING, a MULTILINESTRING or an empty GEOMETRYCOLLECTION.
ReadLine ==
    /\ AtReadableRow("lines")
    /\ LET id == LineId(Row, at)
       IN  /\ Deliver([id |-> id,
                       lines |-> [i \in DOMAIN Row.sizes |->
                                    [j \in 1..Row.sizes[i] |-> PointOf(<<at, <<i, j>>>>, NoTime, 0)]]])
           /\ currentId' = {id}
    /\ RowDone
    /\ UNCHANGED points

\* A track of a gpx file: each segment becomes a line that is sorted by itself.  Tracks
\* without ids are counted over all files.
ReadTrack ==
    /\ AtReadableRow("track")
    /\ Deliver([id |-> IF setting.noId # "no" THEN Len(accepted[at[1]]) ELSE Row.id,
                lines |-> [i \in DOMAIN Row.times |->
                             Sorted([j \in DOMAIN Row.times[i] |-> PointOf(<<at, <<i, j>>>>, Row.times[i][j], j - 1)])]])
    /\ RowDone
    /\ UNCHANGED <<points, currentId>>

NextFile ==
    /\ pc = "row" /\ AtFileEnd
    /\ at' = <<at[1], at[2] + 1, 1>>
    /\ UNCHANGED <<setting, readings, pc, points, currentId, flushed, accepted, sinks>>

\* The matches are read by an importer of their own.
ReadMatches ==
    /\ pc = "row" /\ AtEnd /\ flushed /\ at[1] < Len(readings)
    /\ at' = <<at[1] + 1, 1, 1>>
    /\ currentId' = {} /\ flushed' = FALSE
    /\ UNCHANGED <<setting, readings, pc, points, accepted, sinks>>

\* comparator_forwarder_data::finish; the order of the map is not modelled.
Finish ==
    /\ pc = "row" /\ AtEnd /\ flushed /\ at[1] = Len(readings)
    /\ tasks' = IF setting.ignore THEN tasks
                ELSE tasks \o [k \in 1..Cardinality(DOMAIN truths) |->
                        LET id == SetToSeq(DOMAIN truths)[k]
                        IN  [truth |-> truths[id], match |-> [id |-> id, lines |-> <<>>]]]
    /\ pc' = "done"
    /\ UNCHANGED <<setting, readings, at, points, currentId, flushed, accepted, matched, truths, matches>>

ReadingNext ==
    \/ BeginFlush \/ PassTrack \/ EndFlush \/ ReadPoint \/ ReadLine \/ ReadTrack
    \/ NextFile \/ ReadMatches \/ Finish

-----------------------------------------------------------------------------
(* Properties.                                                             *)

RowsOf(r) == UNION {{<<r, f, k>> : k \in DOMAIN readings[r][f]} : f \in DOMAIN readings[r]}
RowAt(place) == readings[place[1]][place[2]][place[3]]
PointRows(r) == {place \in RowsOf(r) : RowAt(place).kind = "point"}

Before(p, q) == p[2] < q[2] \/ (p[2] = q[2] /\ p[3] < q[3])

OwnId(place) ==
    IF RowAt(place).kind = "lines" THEN LineId(RowAt(place), place) ELSE IdOf(RowAt(place), place)

\* Rows of one id without another in between, as grouped input has to be.
Grouped(r) ==
    \A p, q, s \in RowsOf(r) :
        Before(p, q) /\ Before(q, s) /\ OwnId(p) = OwnId(s) => OwnId(q) = OwnId(p)

IsRead(r) == r < at[1] \/ pc = "done"

PointTracks(r) ==
    {t \in DOMAIN accepted[r] : \E point \in ToSet(accepted[r][t].lines[1]) : point.place \in PointRows(r)}

\* Each point row ends up in exactly one track, the one of its id, where points are in
\* the order of time and, at one time, of the rows.  If the input is grouped as the
\* option says, or is not said to be, an id has one track (csv_track_importer.hpp).
TracksAreFaithful ==
    \A r \in DOMAIN readings : IsRead(r) =>
        /\ \A place \in PointRows(r) :
              Cardinality({<<t, k>> \in PointTracks(r) \X (1..Cardinality(RowsOf(r))) :
                  /\ k \in DOMAIN accepted[r][t].lines[1]
                  /\ accepted[r][t].lines[1][k].place = place
                  /\ accepted[r][t].id = IdOf(RowAt(place), place)}) = 1
        /\ \A t \in PointTracks(r) : LET line == accepted[r][t].lines[1] IN
              \A k \in 1..Len(line) - 1 :
                  \/ line[k].time < line[k + 1].time
                  \/ line[k].time = line[k + 1].time /\ Before(line[k].place, line[k + 1].place)
        /\ (setting.grouped => Grouped(r)) =>
              \A t, u \in PointTracks(r) : accepted[r][t].id = accepted[r][u].id => t = u

FirstOf(tracks, id) == SelectSeq(tracks, LAMBDA track : track.id = id)[1]
IdsOf(tracks) == {tracks[t].id : t \in DOMAIN tracks}

\* Every ground truth is compared exactly once, with the first match of its id or with
\* none when there is no such match, unless those are ignored; matches without a ground
\* truth and second tracks of an id are not compared
\* (comparator_forwarder_matches.cpp, comparator_forwarder_data.cpp).
EachTruthOnce ==
    pc = "done" /\ setting.command = "compare" =>
        /\ {tasks[k].truth.id : k \in DOMAIN tasks} \subseteq IdsOf(accepted[1])
        /\ \A id \in IdsOf(accepted[1]) :
              LET mine == SelectSeq(tasks, LAMBDA task : task.truth.id = id)
                  partner == IF id \in IdsOf(accepted[2]) THEN FirstOf(accepted[2], id)
                             ELSE [id |-> id, lines |-> <<>>]
              IN  mine = IF id \notin IdsOf(accepted[2]) /\ setting.ignore THEN <<>>
                         ELSE <<[truth |-> FirstOf(accepted[1], id), match |-> partner]>>

\* Consecutive points of one line.
Segments(lines) ==
    UNION {{<<lines[i][j], lines[i][j + 1]>> : j \in 1..Len(lines[i]) - 1} : i \in DOMAIN lines}
\* Consecutive points, also of two lines.
Steps(lines) ==
    LET all == FlattenSeq(lines) IN {<<all[k], all[k + 1]>> : k \in 1..Len(all) - 1}

IsGap(step) ==
    /\ setting.splitTime # 0 /\ step[1].valid /\ step[2].valid
    /\ (step[2].time - step[1].time) % TimeRange >= setting.splitTime

\* A part ends before the first or second point of a line, and the line before, in which
\* it then ends, is of another size: its last inner point is counted in the wrong line.
EndsInUnequal(lines) ==
    \E cut \in ToSet(Cuts(lines, setting.splitTime)) :
        cut[1] > 0 /\ cut[2] <= 1 /\ Len(lines[cut[1]]) # Len(lines[cut[1] + 1])
Uneven(track) == setting.splitTime # 0 /\ EndsInUnequal(track.lines)

Copies(segment) == Cardinality({m \in DOMAIN matched : segment \in Segments(matched[m].lines)})
NoGapInside == \A m \in DOMAIN matched : \A step \in Steps(matched[m].lines) : ~IsGap(step)

\* The parts of the tracks have every segment of them that is no gap, once, and no gap
\* between any two of their points; splitting does not throw
\* (options.cpp, "the track is split into two parts, and so on, until all individual
\* track parts have no time delta between any two points that exceeds this value").
\* Where a part ends in front of a line of another size this does not hold, see
\* PartsLoseNothing: the end of the line before may be missing, or the splitting throws and
\* the reading ends.  Even then nothing is in two parts, and no part has a gap.
PartsKeepTheTrack ==
    /\ pc = "threw" => Uneven(Last(accepted[1]))
    /\ NoGapInside
    /\ pc = "done" /\ setting.command = "match" =>
          \A track \in ToSet(accepted[1]) : \A segment \in Segments(track.lines) : ~IsGap(segment) =>
              Copies(segment) = 1 \/ (Copies(segment) = 0 /\ Uneven(track))

\* What the comment says of the bounds of a part, "first point or before first point in
\* inner, move outer to previous only if possible" (multi_rich_line.hpp:556): a part that
\* ends in front of a line has the line before to its end, whatever its size, so splitting
\* loses nothing and does not throw.
PartsLoseNothing ==
    /\ pc # "threw"
    /\ pc = "done" /\ setting.command = "match" =>
          \A track \in ToSet(accepted[1]) : \A segment \in Segments(track.lines) :
              ~IsGap(segment) => Copies(segment) = 1

\* No point and no track is lost or doubled on its way to the matcher or the comparator
\* (csv_track_importer.hpp, comparator_forwarder_matches.cpp).
TracksAreWhole == TracksAreFaithful /\ EachTruthOnce
=============================================================================
