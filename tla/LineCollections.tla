--------------------------- MODULE LineCollections ---------------------------
(***************************************************************************)
(* What several lines say together: a multi_rich_line (plain, or with kept *)
(* totals: lazy and eager) and a route of lines (lazy and eager).  Both    *)
(* add up what their lines know and the turns at the joints, a route also  *)
(* whether it is connected.  stale is not in the code: it names the totals *)
(* that a change of the lines left as they were.                           *)
(***************************************************************************)
EXTENDS RichLines

CONSTANTS PartLists,   \* the lines a collection is built from
          MaxParts     \* no merge makes a collection longer

VARIABLE collection    \* its sort, how it keeps its totals, its lines and its totals

R == INSTANCE Routes

Each(f(_), parts) == [i \in DOMAIN parts |-> f(parts[i])]
FirstPoint(parts) == parts[1][1]
LastPoint(parts) == parts[Len(parts)][Len(parts[Len(parts)])]

-----------------------------------------------------------------------------
(* The totals of the parts.                                                *)

PartLengths(parts) == Each(LineLength, parts)
PartsLength(parts) == Total(PartLengths(parts))

PartsAzimuth(parts) ==
  IF parts = << >> THEN NotValid
  ELSE IF Len(parts) = 1 THEN LineAzimuth(parts[1]) ELSE Azimuth(FirstPoint(parts), LastPoint(parts))

\* The turn from the last segment of a line into the first one of the next.
JointTurn(a, b) ==
  IF Attaches(a, b) /\ Len(a) >= 2 /\ Len(b) >= 2
    THEN Turn(SegmentAzimuth(a, Len(a) - 1), SegmentAzimuth(b, 1)) ELSE NotValid
JointTurns(parts) == [i \in 1..Len(parts) - 1 |-> JointTurn(parts[i], parts[i + 1])]

PartsDirections(parts, turns) == Total(Each(LineDirections, parts) \o turns)
PartsAbsolute(parts, turns) == Total(Each(LineAbsoluteDirections, parts) \o Amounts(turns))

\* What the plain multi line answers each time it is asked.
PlainTotals(parts) ==
  [length |-> PartsLength(parts), azimuth |-> PartsAzimuth(parts)]
PlainDirections(parts) ==
  [directions |-> PartsDirections(parts, JointTurns(parts)),
   absolute   |-> PartsAbsolute(parts, JointTurns(parts))]

PartsTouch(parts) == \A i \in 1..Len(parts) - 1 : Attaches(parts[i], parts[i + 1])

-----------------------------------------------------------------------------
(* What a collection keeps: nothing, or the totals it was asked for, a     *)
(* multi line also the length of each line and the turn at each joint.     *)

Bare(sort, mode, parts) ==
  [sort |-> sort, mode |-> mode, parts |-> parts,
   length |-> NotInitialized, azimuth |-> NotInitialized,
   directions |-> NotInitialized, absolute |-> NotInitialized,
   connected |-> FALSE, lengths |-> << >>, turns |-> << >>, stale |-> {}]

KnownLengths(c) == IF c.lengths = << >> THEN PartLengths(c.parts) ELSE c.lengths
KnownTurns(c) == IF c.turns = << >> THEN JointTurns(c.parts) ELSE c.turns

MultiLength(c) ==
  IF c.length # NotInitialized THEN c
  ELSE [c EXCEPT !.lengths = KnownLengths(c), !.length = Total(KnownLengths(c))]
RouteLengthKept(c) ==
  IF c.length # NotInitialized THEN c ELSE [c EXCEPT !.length = PartsLength(c.parts)]

MultiDirections(c) ==
  IF c.directions # NotInitialized /\ c.absolute # NotInitialized THEN c
  ELSE [c EXCEPT !.turns = KnownTurns(c), !.directions = PartsDirections(c.parts, KnownTurns(c)),
                 !.absolute = PartsAbsolute(c.parts, KnownTurns(c))]
RouteDirectionsKept(c) ==
  IF c.directions # NotInitialized /\ c.absolute # NotInitialized THEN c
  ELSE [c EXCEPT !.directions = PartsDirections(c.parts, JointTurns(c.parts)),
                 !.absolute = PartsAbsolute(c.parts, JointTurns(c.parts)),
                 !.connected = PartsTouch(c.parts)]

AskLength(c) == IF c.sort = "multi" THEN MultiLength(c) ELSE RouteLengthKept(c)
AskAzimuth(c) ==
  IF c.azimuth # NotInitialized THEN c ELSE [c EXCEPT !.azimuth = PartsAzimuth(c.parts)]
AskDirections(c) == IF c.sort = "multi" THEN MultiDirections(c) ELSE RouteDirectionsKept(c)
AskAll(c) == AskDirections(AskAzimuth(AskLength(c)))

Made(sort, mode, parts) ==
  IF mode = "eager" THEN AskAll(Bare(sort, mode, parts)) ELSE Bare(sort, mode, parts)

\* The totals of a part of a multi line.  They are kept if the part starts at the first
\* line and takes all the entries there are - so also where none is known.
SubTotals(c, from, to) ==
  LET part(values, end) ==
        IF from < Len(values) /\ end <= Len(values) /\ from <= end
          THEN SubSeq(values, from + 1, end) ELSE << >>
      kept == (IF from = 0 /\ to >= Len(c.lengths) THEN {"length", "azimuth"} ELSE {})
                \cup (IF from = 0 /\ to - 1 >= Len(c.turns) THEN {"directions", "absolute"} ELSE {})
      keep(total) == IF total \in kept THEN c[total] ELSE NotInitialized
  IN  [c EXCEPT !.parts = SubSeq(@, from + 1, to),
                !.length = keep("length"), !.azimuth = keep("azimuth"),
                !.directions = keep("directions"), !.absolute = keep("absolute"),
                !.lengths = part(@, to), !.turns = part(@, to - 1),
                !.stale = IF to = Len(c.parts) THEN @ \cap kept
                          ELSE { total \in kept : c[total] # NotInitialized }]

-----------------------------------------------------------------------------
(* The life of a collection.                                               *)

CollectionInit ==
  \E sort \in {"multi", "route"}, mode \in {"plain", "lazy", "eager"}, parts \in PartLists :
    /\ sort = "route" => mode # "plain"
    /\ collection = Made(sort, mode, parts)

AskCollection ==
  /\ collection.mode = "lazy"
  /\ \/ collection' = AskLength(collection)
     \/ collection' = AskAzimuth(collection)
     \/ collection' = AskDirections(collection)

SubMultiRichLine(from, to) ==
  /\ collection.sort = "multi"
  /\ from < to /\ to <= Len(collection.parts)
  /\ collection' = IF collection.mode = "eager" THEN AskAll(SubTotals(collection, from, to))
                                                ELSE SubTotals(collection, from, to)

\* merge: lines that follow one another become one line, a gap begins another one.
MergedLines(lines) ==
  LET add(runs, points) ==
        IF runs = << >> \/ ~Attaches(runs[Len(runs)], points) THEN Append(runs, points)
        ELSE [runs EXCEPT ![Len(runs)] = MergedPoints(@, points)]
  IN  FoldLeft(add, << >>, lines)
MergeLines(lines) ==
  /\ collection.mode = "plain"
  /\ Len(collection.parts) + Len(lines) <= MaxParts
  /\ collection' = [collection EXCEPT !.parts = @ \o MergedLines(lines)]

\* A conversion between multi lines asks a lazy one for its totals, and copies the
\* entries; from a plain one nothing is taken.
ConvertMulti(mode) ==
  /\ collection.sort = "multi" /\ mode # collection.mode
  /\ collection' = IF collection.mode = "plain" THEN Made("multi", mode, collection.parts)
                   ELSE IF mode = "plain" THEN Bare("multi", "plain", collection.parts)
                   ELSE [AskAll(collection) EXCEPT !.mode = mode]

\* join moves the joint of two routes by a point.  What the first route was asked for
\* before is not dropped.
JoinRoute(next) ==
  /\ collection.sort = "route" /\ collection.parts # << >>
  /\ LET joined == R!Join(R!RouteOf(collection.parts), R!RouteOf(<< next >>), TRUE)[1].lines
         known == { total \in {"length", "azimuth", "directions", "absolute"} :
                      collection[total] # NotInitialized }
     IN  /\ joined # collection.parts
         /\ collection' = [collection EXCEPT !.parts = joined, !.stale = known]

\* An assignment takes the lines and the totals of another collection of the same type.
AssignCollection(parts) ==
  collection' = Made(collection.sort, collection.mode, parts)

CollectionNext ==
  \/ AskCollection
  \/ \E parts \in PartLists : AssignCollection(parts)
  \/ \E from, to \in 0..Len(collection.parts) : SubMultiRichLine(from, to)
  \/ \E lines \in PartLists : MergeLines(lines)
  \/ \E mode \in {"plain", "lazy", "eager"} : ConvertMulti(mode)
  \/ \E parts \in PartLists : parts # << >> /\ JoinRoute(parts[1])

-----------------------------------------------------------------------------
(* The whole and its parts.                                                *)

\* What a collection says of its lines is what the line says that they form together: its
\* length and turns are those of its connected stretches, its azimuth that from its first
\* to its last point.  A total that a change left as it was is not asked, and a line of
\* one point makes no turn at its joints (multi_rich_line_data, route_data, their reads).
CollectionAddsUp ==
  LET c == IF collection.mode # "plain" THEN collection
           ELSE PlainTotals(collection.parts) @@ PlainDirections(collection.parts) @@ collection
      runs == MergedLines(c.parts)
      turning == \A i \in DOMAIN c.parts : Len(c.parts[i]) >= 2
      fits(total, value) == total \in c.stale \/ c[total] \in {NotInitialized, value}
  IN  /\ fits("length", Total(Each(LineLength, runs)))
      /\ fits("azimuth", IF runs = << >> THEN NotValid ELSE Azimuth(FirstPoint(runs), LastPoint(runs)))
      /\ turning => fits("directions", Total(Each(LineDirections, runs)))
      /\ turning => fits("absolute", Total(Each(LineAbsoluteDirections, runs)))
      /\ c.sort = "route" /\ c.directions # NotInitialized /\ "directions" \notin c.stale
           => (c.connected <=> Len(runs) <= 1)
=============================================================================
