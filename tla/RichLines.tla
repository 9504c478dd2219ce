------------------------------ MODULE RichLines ------------------------------
(***************************************************************************)
(* What a line says about itself - its length, its azimuth, its turns -    *)
(* and the values that the lazy and the eager line keep of it (rich_line   *)
(* and rich_line_data).  A point is a pair of integers; the length of a    *)
(* segment is the city-block distance, an azimuth the eighth of the        *)
(* compass it points to.  A line is a record of its points and of what is  *)
(* kept: its totals, and one length and one azimuth per segment.  kept and *)
(* mixed are not in the code: kept names the totals that an operation left *)
(* as they were although it changed the line (see SubData and EraseOne),   *)
(* mixed says that points were assigned over what was kept of others, or   *)
(* that a merge was refused when the entries were already there.           *)
(*                                                                         *)
(* The life of a lazy_rich_line or an eager_rich_line: it is built from    *)
(* points, asked for what it knows, cut, thinned out, merged with others,  *)
(* assigned and converted, by any sequence of calls that the code allows.  *)
(* A mixed line may look up entries that it has not got: no call of it is  *)
(* followed.  The lazy line computes what it is asked for when it is asked *)
(* first, the eager line everything after each change.                     *)
(***************************************************************************)
EXTENDS Lines, Folds, SequencesExt

CONSTANTS Lines0,    \* the points a line is built from
          Others,    \* the points of lines of another kind that it is assigned from
          MaxPoints  \* no merge makes a line longer

VARIABLES kind,      \* "lazy" or "eager"
          line       \* the line and what it keeps

lineVars == << kind, line >>

-----------------------------------------------------------------------------
(* What a line keeps.                                                      *)

\* Values of a length or an angle that was not computed yet, or does not exist.
NotInitialized == -100
NotValid == -101
Valid(x) == x # NotInitialized /\ x # NotValid

-----------------------------------------------------------------------------
(* The plain line computes everything from its points.                     *)

SegmentLength(points, i) ==
  IF points[i] = points[i + 1] THEN NotValid ELSE PointDistance(points[i], points[i + 1])

Sign(n) == IF n < 0 THEN -1 ELSE IF n = 0 THEN 0 ELSE 1
Compass == << << -3, -2, -1 >>, << 4, 0, 0 >>, << 3, 2, 1 >> >>
Azimuth(p, q) ==
  IF p = q THEN NotValid ELSE Compass[Sign(q[1] - p[1]) + 2][Sign(q[2] - p[2]) + 2]
SegmentAzimuth(points, i) == Azimuth(points[i], points[i + 1])

SegmentLengths(points) == [i \in 1..Len(points) - 1 |-> SegmentLength(points, i)]
SegmentAzimuths(points) == [i \in 1..Len(points) - 1 |-> SegmentAzimuth(points, i)]

\* The difference of two azimuths, in half a turn to either side.
Turn(a, b) ==
  LET d == a - b
  IN  IF ~Valid(a) \/ ~Valid(b) THEN NotValid
      ELSE IF d >= 4 THEN d - 8 ELSE IF d <= -4 THEN d + 8 ELSE d
Turns(azimuths) == [i \in 1..Len(azimuths) - 1 |-> Turn(azimuths[i], azimuths[i + 1])]

Amount(x) == IF Valid(x) THEN Abs(x) ELSE x
Amounts(values) == [i \in DOMAIN values |-> Amount(values[i])]

\* The sum of the values that exist, if any does.
Total(values) ==
  LET existing == SelectSeq(values, Valid)
  IN  IF existing = << >> THEN NotValid ELSE FoldLeft(+, 0, existing)

LineLength(points) == Total(SegmentLengths(points))
LineAzimuth(points) == IF Len(points) < 2 THEN NotValid ELSE Azimuth(points[1], points[Len(points)])
LineDirections(points) == Total(Turns(SegmentAzimuths(points)))
LineAbsoluteDirections(points) == Total(Amounts(Turns(SegmentAzimuths(points))))

\* The points from index from up to, and without, index to, counted from 0.
SubLine(points, from, to) == SubSeq(points, from + 1, to)
CanSub(points, from, to) == from <= to /\ from < Len(points) /\ to <= Len(points)

Attachable(points, next) == points = << >> \/ next = << >> \/ Attaches(points, next)
MergedPoints(points, next) ==
  IF points = << >> THEN next ELSE IF next = << >> THEN points ELSE points \o Tail(next)

-----------------------------------------------------------------------------
(* What rich_line_data keeps.                                              *)

Plain(points) ==
  [points |-> points, length |-> NotInitialized, azimuth |-> NotInitialized,
   directions |-> NotInitialized, absolute |-> NotInitialized,
   lengths |-> << >>, azimuths |-> << >>, kept |-> {}, mixed |-> "no"]

Invalidate(data, azimuth) ==
  [data EXCEPT !.length = NotInitialized,
               !.azimuth = IF azimuth THEN NotInitialized ELSE @,
               !.directions = NotInitialized, !.absolute = NotInitialized,
               !.kept = IF azimuth THEN {} ELSE @ \cap {"azimuth"}]

ComputeLengths(data) ==
  IF data.lengths = << >> THEN [data EXCEPT !.lengths = SegmentLengths(data.points)] ELSE data
ComputeAzimuths(data) ==
  IF data.azimuths = << >> THEN [data EXCEPT !.azimuths = SegmentAzimuths(data.points)] ELSE data

Filled(values, computed) ==
  [i \in DOMAIN values |-> IF values[i] = NotInitialized THEN computed[i] ELSE values[i]]

InitializeLength(data, i) ==
  [data EXCEPT !.lengths[i] = IF @ = NotInitialized THEN SegmentLength(data.points, i) ELSE @]
InitializeAzimuth(data, i) ==
  [data EXCEPT !.azimuths[i] = IF @ = NotInitialized THEN SegmentAzimuth(data.points, i) ELSE @]

WithLength(data, lengths) == [data EXCEPT !.lengths = lengths, !.length = Total(lengths)]
ComputeLength(data) ==
  IF data.length # NotInitialized THEN data
  ELSE WithLength(data, Filled(ComputeLengths(data).lengths, SegmentLengths(data.points)))

ComputeAzimuth(data) ==
  IF data.azimuth # NotInitialized THEN data ELSE [data EXCEPT !.azimuth = LineAzimuth(data.points)]

\* One azimuth has no turn, and is not looked at.
WithDirections(data, azimuths) ==
  [data EXCEPT !.azimuths = azimuths, !.directions = Total(Turns(azimuths)),
               !.absolute = Total(Amounts(Turns(azimuths)))]
ComputeDirections(data) ==
  LET azimuths == ComputeAzimuths(data).azimuths
  IN  IF data.directions # NotInitialized /\ data.absolute # NotInitialized THEN data
      ELSE WithDirections(data, IF Len(azimuths) < 2 THEN azimuths
                                ELSE Filled(azimuths, SegmentAzimuths(data.points)))

Compute(data) == ComputeDirections(ComputeAzimuth(ComputeLength(data)))
Rebuild(data, azimuth) == Compute(Invalidate(data, azimuth))

\* The turn at a point: both azimuths are computed, but a return is missing, and the
\* function throws in any case.
InitializeDirection(data, i) ==
  IF i < Len(data.azimuths) THEN InitializeAzimuth(InitializeAzimuth(data, i), i + 1) ELSE data

\* The values of a part of the line.  The totals are kept if the part starts at the first
\* point and no length, or one, is cut off behind it - so also where none is known.
Part(values, from, to) ==
  IF from < Len(values) /\ to <= Len(values) THEN SubSeq(values, from + 1, to) ELSE << >>
SubData(data, from, to) ==
  LET last == to - 1
      whole(values) == from = 0 /\ to >= Len(values)
      totals == (IF whole(data.lengths) THEN {"length", "azimuth"} ELSE {})
                  \cup (IF whole(data.azimuths) THEN {"directions", "absolute"} ELSE {})
      keep(total) == IF total \in totals THEN data[total] ELSE NotInitialized
      part == SubLine(data.points, from, to)
  IN  IF to = 0 \/ from >= last THEN Plain(part)
      ELSE [points |-> part, length |-> keep("length"), azimuth |-> keep("azimuth"),
            directions |-> keep("directions"), absolute |-> keep("absolute"),
            lengths |-> Part(data.lengths, from, last), azimuths |-> Part(data.azimuths, from, last),
            kept |-> IF to = Len(data.points) THEN data.kept \cap totals ELSE totals,
            mixed |-> "no"]

\* The entries of the lines one after the other, with place for those that are missing.
Padded(values, points) ==
  IF points = << >> THEN values
  ELSE values \o [i \in 1..(Len(points) - 1 - Len(values)) |-> NotInitialized]
MergeData(data, next) ==
  [data EXCEPT !.lengths = Padded(@, data.points) \o Padded(next.lengths, next.points),
               !.azimuths = Padded(@, data.points) \o Padded(next.azimuths, next.points)]

\* The segments around the point that was erased become one.  Its index counts from 0,
\* points are those that are left.
Replaced(values, points, index, computed) ==
  LET left == RemoveAt(values, IF index < Len(values) THEN index + 1 ELSE index)
  IN  IF values = << >> \/ index > Len(values) THEN values
      ELSE IF left # << >> /\ index > 0 /\ index < Len(points)
             THEN [left EXCEPT ![index] = computed[index]] ELSE left
EraseAndReplace(data, index) ==
  [data EXCEPT !.lengths = Replaced(@, data.points, index, SegmentLengths(data.points)),
               !.azimuths = Replaced(@, data.points, index, SegmentAzimuths(data.points))]

-----------------------------------------------------------------------------
(* The life of a line.                                                     *)

\* An eager line computes what it has not got.
Built(k, l) == IF k = "eager" THEN Compute(l) ELSE l

LinesInit ==
  /\ kind \in {"lazy", "eager"}
  /\ line \in { Built(kind, Plain(points)) : points \in Lines0 }

-----------------------------------------------------------------------------
(* A lazy line computes when it is asked; an eager line has the answer.    *)

ReadLength == kind = "lazy" /\ line' = ComputeLength(line) /\ UNCHANGED kind
ReadAzimuth == kind = "lazy" /\ line' = ComputeAzimuth(line) /\ UNCHANGED kind
ReadAzimuths == kind = "lazy" /\ line' = ComputeAzimuths(line) /\ UNCHANGED kind
ReadDirections == kind = "lazy" /\ line' = ComputeDirections(line) /\ UNCHANGED kind

Segments(l) == 1..Len(l.points) - 1
ReadLengthAt(i) ==
  /\ kind = "lazy" /\ i \in Segments(line)
  /\ line' = InitializeLength(ComputeLengths(line), i)
  /\ UNCHANGED kind
ReadAzimuthAt(i) ==
  /\ kind = "lazy" /\ i \in Segments(line)
  /\ line' = InitializeAzimuth(ComputeAzimuths(line), i)
  /\ UNCHANGED kind
ReadDirectionAt(i) ==
  /\ kind = "lazy" /\ i \in Segments(line)
  /\ line' = InitializeDirection(ComputeAzimuths(line), i)
  /\ UNCHANGED kind

\* A segment takes along what the line has of it: the lazy line asks itself only where it
\* has entries, the eager line has them.
RichSegment(l, i) ==
  [length  |-> IF i <= Len(l.lengths) THEN InitializeLength(l, i).lengths[i] ELSE NotInitialized,
   azimuth |-> IF i <= Len(l.azimuths) THEN InitializeAzimuth(l, i).azimuths[i]
                                       ELSE NotInitialized]
ReadSegment(i) ==
  /\ kind = "lazy" /\ i \in Segments(line)
  /\ line' = [line EXCEPT !.lengths = IF i <= Len(@) THEN InitializeLength(line, i).lengths ELSE @,
                          !.azimuths = IF i <= Len(@) THEN InitializeAzimuth(line, i).azimuths
                                                      ELSE @]
  /\ UNCHANGED kind

\* A segment of its own computes what it has not got, from its two points.
SegmentReads(segment, points, i) ==
  [length  |-> IF segment.length = NotInitialized THEN SegmentLength(points, i) ELSE segment.length,
   azimuth |-> IF segment.azimuth = NotInitialized THEN SegmentAzimuth(points, i)
                                                   ELSE segment.azimuth]

-----------------------------------------------------------------------------
(* Changes.                                                                *)

SubRichLine(from, to) ==
  /\ CanSub(line.points, from, to)
  /\ line' = Built(kind, SubData(line, from, to))
  /\ UNCHANGED kind

PointErased(l, index) == EraseAndReplace([l EXCEPT !.points = RemoveAt(@, index + 1)], index)
Renewed(k, l, azimuth) == IF k = "eager" THEN Rebuild(l, azimuth) ELSE Invalidate(l, azimuth)

\* The azimuth is renewed if the first point was erased, or the point that is then the
\* last but one is where the erased one was: not if the last one was erased.
AzimuthChanges(index, size) == index = 0 \/ index + 1 = size
EraseOne(index) ==
  /\ index < Len(line.points)
  /\ LET left == PointErased(line, index)
         azimuth == AzimuthChanges(index, Len(left.points))
         stays == Renewed(kind, left, azimuth)
     IN  line' = IF index = Len(left.points) /\ ~azimuth /\ stays.azimuth # NotInitialized
                 THEN [stays EXCEPT !.kept = {"azimuth"}] ELSE stays
  /\ UNCHANGED kind

\* Several at once: the azimuth is decided on before, the points go from the back.
EraseAll(indices) ==
  /\ indices # {} /\ \A i \in indices : i < Len(line.points)
  /\ LET azimuth == 0 \in indices \/ Len(line.points) - 1 \in indices
         from[n \in 0..Len(line.points)] ==
           IF n = Len(line.points) THEN line
           ELSE IF n \in indices THEN PointErased(from[n + 1], n) ELSE from[n + 1]
     IN  line' = Renewed(kind, from[0], azimuth)
  /\ UNCHANGED kind

\* Another line of the same kind is appended, read or not.  If it does not attach, the
\* points are refused, but the entries were merged before.
\* Mutant: a merge keeps the azimuth.
MergedKeeps(k, l, next) ==
  Renewed(k, [MergeData(l, next) EXCEPT !.points = MergedPoints(@, next.points)], FALSE)
Merged(k, l, next) ==
  Renewed(k, [MergeData(l, next) EXCEPT !.points = MergedPoints(@, next.points)], TRUE)
Appended(points, read) == IF read THEN Compute(Plain(points)) ELSE Built(kind, Plain(points))
AppendLine(points, read) ==
  /\ Attachable(line.points, points)
  /\ Len(MergedPoints(line.points, points)) <= MaxPoints
  /\ line' = Merged(kind, line, Appended(points, read))
  /\ UNCHANGED kind
AppendRefused(points, read) ==
  /\ ~Attachable(line.points, points)
  /\ line' = [MergeData(line, Appended(points, read)) EXCEPT !.mixed = "refused"]
  /\ UNCHANGED kind

\* A lazy line that becomes an eager one is asked for its totals first, then its entries
\* are copied; an eager line that becomes a lazy one is copied.
Asked(l) == ComputeAzimuths(ComputeDirections(ComputeAzimuth(ComputeLength(l))))
ToEager == kind = "lazy" /\ kind' = "eager" /\ line' = Asked(line)
ToLazy == kind = "eager" /\ kind' = "lazy" /\ UNCHANGED line

\* New points drop everything that was kept.
AssignLine(points) == line' = Built(kind, Plain(points)) /\ UNCHANGED kind

\* A line without memory gives its points only, and an eager line does not compute what it
\* takes for known.
AssignPlain(points) ==
  /\ line' = Built(kind, [line EXCEPT !.points = points,
                            !.mixed = IF line = Plain(line.points) THEN "no" ELSE "assigned"])
  /\ UNCHANGED kind

\* A line of the other kind gives all that it knows; the eager line puts the entries of the
\* lazy one behind its own.
AssignEager(points) == kind = "lazy" /\ line' = Compute(Plain(points)) /\ UNCHANGED kind
AssignLazy(points) ==
  /\ kind = "eager"
  /\ LET other == Asked(Plain(points))
     IN  line' = [other EXCEPT !.lengths = line.lengths \o @, !.azimuths = line.azimuths \o @,
                               !.mixed = IF line.lengths \o line.azimuths = << >>
                                         THEN "no" ELSE "assigned"]
  /\ UNCHANGED kind

CallLine ==
  \/ ReadLength \/ ReadAzimuth \/ ReadAzimuths \/ ReadDirections
  \/ \E i \in Segments(line) :
       ReadLengthAt(i) \/ ReadAzimuthAt(i) \/ ReadDirectionAt(i) \/ ReadSegment(i)
  \/ \E from, to \in 0..Len(line.points) : SubRichLine(from, to)
  \/ \E index \in 0..Len(line.points) - 1 : EraseOne(index)
  \/ \E indices \in SUBSET (0..Len(line.points) - 1) : EraseAll(indices)
  \/ \E points \in Lines0, read \in BOOLEAN : AppendLine(points, read) \/ AppendRefused(points, read)
  \/ ToEager \/ ToLazy
  \/ \E points \in Lines0 : AssignLine(points)
  \/ \E points \in Others : AssignPlain(points) \/ AssignEager(points) \/ AssignLazy(points)

LinesNext == line.mixed = "no" /\ CallLine

-----------------------------------------------------------------------------
(* What a line keeps is what a line without memory would compute.          *)

Fresh(l, total) ==
  CASE total = "length"     -> LineLength(l.points)
    [] total = "azimuth"    -> LineAzimuth(l.points)
    [] total = "directions" -> LineDirections(l.points)
    [] total = "absolute"   -> LineAbsoluteDirections(l.points)
Totals == {"length", "azimuth", "directions", "absolute"}

EntriesFit(values, computed) ==
  values = << >> \/ ( /\ DOMAIN values = DOMAIN computed
                      /\ \A i \in DOMAIN values : values[i] \in {NotInitialized, computed[i]} )

RightSegments(l) ==
  \A i \in Segments(l) :
    SegmentReads(RichSegment(l, i), l.points, i)
      = [length |-> SegmentLength(l.points, i), azimuth |-> SegmentAzimuth(l.points, i)]

\* Whatever was called, in whatever order: each total and each entry that is kept equals
\* what the plain line computes from the points; and a segment that is taken out of a line
\* says the same as one built from its points (rich_line_data.hpp, sub_data, erase; lazy and
\* eager_rich_line).  Not so in the code, and left out here: the totals of a line that was
\* cut at its end (rich_line_data.hpp:478) or lost its last point (lazy_rich_line.hpp:335),
\* a line that was assigned a line of another kind (AssignedLineIsItself), and one whose
\* merge was refused (lazy_rich_line.hpp:357).
KeptIsFresh ==
  line.mixed = "no" =>
  /\ \A total \in Totals \ line.kept : line[total] \in {NotInitialized, Fresh(line, total)}
  /\ EntriesFit(line.lengths, SegmentLengths(line.points))
  /\ EntriesFit(line.azimuths, SegmentAzimuths(line.points))
  /\ RightSegments(line)

\* An eager line is never asked for what it has not computed: its totals are known, and
\* of every segment the length, and the azimuth where it has a turn.
EagerIsReady ==
  kind = "eager" /\ line.mixed = "no" =>
    /\ \A total \in Totals : line[total] # NotInitialized
    /\ "length" \notin line.kept => line.lengths = SegmentLengths(line.points)
    /\ Len(line.points) > 2 /\ "directions" \notin line.kept
         => line.azimuths = SegmentAzimuths(line.points)

\* A line that was assigned another one says what that one says, which the tests ask of all
\* pairs of kinds: "rich_line_3 = rich_line_1; test_rich_line_equality(rich_line_3,
\* rich_line_1);" (model_tests.cpp:392), where the two have the same points.  Not so where
\* the line knew something of other points (eager_rich_line.hpp:204, lazy_rich_line.hpp:173).
AssignedLineIsItself ==
  line.mixed = "assigned" =>
    /\ \A total \in Totals : line[total] \in {NotInitialized, Fresh(line, total)}
    /\ EntriesFit(line.lengths, SegmentLengths(line.points))
    /\ EntriesFit(line.azimuths, SegmentAzimuths(line.points))
=============================================================================
