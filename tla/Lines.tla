-------------------------------- MODULE Lines --------------------------------
(***************************************************************************)
(* Points, lines and the operations of the geometry library the matching   *)
(* is built from, on an integer grid.  A point is a pair of coordinates,   *)
(* a line (the rich_line of the code) the sequence of its points.  Streets *)
(* run parallel to the axes, so the distance between two points of the     *)
(* grid is the city-block one, and projections are points of the grid.     *)
(* Indices are the code's plus one.                                        *)
(***************************************************************************)
EXTENDS Integers, Sequences, FiniteSets

Abs(n) == IF n < 0 THEN -n ELSE n
Least(S) == CHOOSE n \in S : \A m \in S : n <= m
Greatest(S) == CHOOSE n \in S : \A m \in S : n >= m

PointDistance(p, q) == Abs(p[1] - q[1]) + Abs(p[2] - q[2])

HasLength(line) == Len(line) >= 2

\* The way along the line to each of its points.
Travelled(line) ==
  LET way[i \in 1..Len(line)] ==
        IF i = 1 THEN 0
                 ELSE way[i - 1] + PointDistance(line[i - 1], line[i])
  IN  way

Length(line) == IF HasLength(line) THEN Travelled(line)[Len(line)] ELSE 0

\* The point of the segment from a to b that is nearest to p.
Clamp(n, m, k) == IF m <= k THEN IF n < m THEN m ELSE IF n > k THEN k ELSE n
                            ELSE IF n < k THEN k ELSE IF n > m THEN m ELSE n
Projection(p, a, b) == << Clamp(p[1], a[1], b[1]), Clamp(p[2], a[2], b[2]) >>
Covers(line, i, p) == Projection(p, line[i], line[i + 1]) = p

\* The point of the line that is nearest to p, the first one if several are.
ClosestPoint(line, p) ==
  LET at(i)  == Projection(p, line[i], line[i + 1])
      best   == Least({ PointDistance(p, at(i)) : i \in 1..Len(line) - 1 })
  IN  at(Least({ i \in 1..Len(line) - 1 : PointDistance(p, at(i)) = best }))

LineDistance(line, p) == PointDistance(p, ClosestPoint(line, p))

Attaches(a, b) == a # << >> /\ b # << >> /\ a[Len(a)] = b[1]

-----------------------------------------------------------------------------
\* The points with the given indices removed.
Erase(line, indices) ==
  LET kept   == (1..Len(line)) \ indices
      nth(k) == CHOOSE i \in kept : Cardinality({ j \in kept : j <= i }) = k
  IN  [k \in 1..Cardinality(kept) |-> line[nth(k)]]

\* Where a point of the line lies on it: the way to its first occurrence as
\* the start of a segment, to its last one as the end of a segment, or to the
\* point on the first, or last, segment that contains it.
DistanceFrom(line, p) ==
  LET starts == { i \in 1..Len(line) - 1 : line[i] = p }
      holds  == { i \in 1..Len(line) - 1 : Covers(line, i, p) }
      i      == Least(IF starts # {} THEN starts ELSE holds)
  IN  Travelled(line)[i] + PointDistance(line[i], p)

DistanceTo(line, p) ==
  LET ends  == { i \in 1..Len(line) - 1 : line[i + 1] = p }
      holds == { i \in 1..Len(line) - 1 : Covers(line, i, p) }
      i     == Greatest(IF ends # {} THEN ends ELSE holds)
  IN  Travelled(line)[i] + PointDistance(line[i], p)

\* The part of the line between two distances along it, of which the points
\* are known; nothing where it would run backwards.
Substring(line, fromDistance, toDistance, from, to) ==
  LET way    == Travelled(line)
      after  == { i \in 2..Len(line) : way[i] > fromDistance }
      before == { i \in 2..Len(line) : way[i] >= toDistance }
      middle == SubSeq(line, Least(after), Least(before) - 1)
  IN  IF line = << >> \/ from = to THEN << >>
      ELSE IF Len(line) = 1 \/ (fromDistance = 0 /\ toDistance = Length(line))
             THEN line
      ELSE IF fromDistance >= toDistance THEN << >>
      ELSE IF middle = << >> THEN << from, to >>
      ELSE (IF from # middle[1] THEN << from >> ELSE << >>)
             \o middle
             \o (IF middle[Len(middle)] # to THEN << to >> ELSE << >>)

SubstringTo(line, p) == Substring(line, 0, DistanceTo(line, p), line[1], p)
SubstringFrom(line, p) ==
  Substring(line, DistanceFrom(line, p), Length(line), p, line[Len(line)])

-----------------------------------------------------------------------------
(***************************************************************************)
(* The simplification of Ramer, Douglas and Peucker.  The distance of p to *)
(* the segment from a to b is squared and multiplied with the square of    *)
(* the segment's length, so that it stays an integer.                      *)
(***************************************************************************)
Square(n) == n * n
SquaredDistance(p, q) == Square(p[1] - q[1]) + Square(p[2] - q[2])
ScaledOffset(p, a, b) ==
  LET size  == SquaredDistance(a, b)
      along == (p[1] - a[1]) * (b[1] - a[1]) + (p[2] - a[2]) * (b[2] - a[2])
      cross == (p[1] - a[1]) * (b[2] - a[2]) - (p[2] - a[2]) * (b[1] - a[1])
  IN  IF size = 0 THEN SquaredDistance(p, a)
      ELSE IF along <= 0 THEN SquaredDistance(p, a) * size
      ELSE IF along >= size THEN SquaredDistance(p, b) * size
      ELSE Square(cross)

\* The inner points of line[from..to] the simplification removes.
RECURSIVE SimplifyIndices(_, _, _, _)
SimplifyIndices(line, from, to, tolerance) ==
  LET inner     == from + 1 .. to - 1
      offset(i) == ScaledOffset(line[i], line[from], line[to])
      worst     == Greatest({ offset(i) : i \in inner } \cup {0})
      size      == SquaredDistance(line[from], line[to])
      split     == Least({ i \in inner : offset(i) = worst })
  IN  IF inner = {} THEN {}
      ELSE IF worst > Square(tolerance) * (IF size = 0 THEN 1 ELSE size)
             THEN SimplifyIndices(line, from, split, tolerance)
                    \cup SimplifyIndices(line, split, to, tolerance)
      ELSE inner

=============================================================================
