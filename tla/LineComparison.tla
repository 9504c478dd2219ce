--------------------------- MODULE LineComparison ---------------------------
(***************************************************************************)
(* line_comparator: how far a match differs from its ground truth.  Both   *)
(* are cut into segments, straightened, drawn onto each other's points and *)
(* split at them; then the two lists are walked along, turning movements   *)
(* are set aside, and what is left over on the two sides is reconciled.    *)
(* A point is a pair of coordinates in tenths of a metre; distances are    *)
(* compared by their squares.                                              *)
(***************************************************************************)
EXTENDS Integers, Sequences, SequencesExt, FiniteSetsExt, BagsExt

CONSTANTS Truths,      \* the ground truths: sequences of lines
          Matches,     \* the matches they are compared with
          Simplifying, \* simplifying_tolerance: how far a point left out may be off
          Adoption,    \* adoption_distance_tolerance: points this near are one
          Splitting    \* split_distance_tolerance: a point this near splits a segment

VARIABLES phase,       \* "none", "walk", the reconciliations in their order, "done"
          comparison   \* the two lines, their segments and what was found so far

-----------------------------------------------------------------------------
(* Geometry.                                                               *)

Minus(p, q) == << p[1] - q[1], p[2] - q[2] >>
Dot(u, v) == u[1] * v[1] + u[2] * v[2]
Cross(u, v) == u[1] * v[2] - u[2] * v[1]
Square(u) == Dot(u, u)
Heading(s) == Minus(s[2], s[1])

\* Unequal points that are less than the tolerance apart.
NearTo(p, q, tolerance) == p # q /\ Square(Minus(p, q)) < tolerance * tolerance

\* The square of the distance of a point to a segment, times that of its length.
Off(p, s) ==
  LET along == Dot(Minus(p, s[1]), Heading(s))
  IN  IF Heading(s) = << 0, 0 >> THEN Square(Minus(p, s[1]))
      ELSE IF along <= 0 THEN Square(Minus(p, s[1])) * Square(Heading(s))
      ELSE IF along >= Square(Heading(s)) THEN Square(Minus(p, s[2])) * Square(Heading(s))
      ELSE Cross(Minus(p, s[1]), Heading(s)) * Cross(Minus(p, s[1]), Heading(s))
Scale(s) == IF Heading(s) = << 0, 0 >> THEN 1 ELSE Square(Heading(s))

\* The segment turns straight back: the direction is 180 degrees.
TurnsBack(s, t) == Cross(Heading(s), Heading(t)) = 0 /\ Dot(Heading(s), Heading(t)) < 0
Absolute(n) == IF n < 0 THEN -n ELSE n
SegmentLength(s) == Max({ Absolute(Heading(s)[1]), Absolute(Heading(s)[2]) })

SegmentsOf(line) == [i \in 1..Len(line) - 1 |-> << line[i], line[i + 1] >>]
AllSegments(multi) == FlattenSeq([i \in DOMAIN multi |-> SegmentsOf(multi[i])])

-----------------------------------------------------------------------------
(* Simplifying: of each piece between two reversals only the corners stay. *)

\* The first start of a segment that is farthest off, if one is off at all.
Farthest(segments, complete) ==
  LET starts == 2..Len(segments)
      far(i) == Off(segments[i][1], complete)
      most == Max({ 0 } \cup { far(i) : i \in starts })
  IN  IF most > Simplifying * Simplifying * Scale(complete) /\ most > 0
        THEN Min({ i \in starts : far(i) = most }) ELSE 0

RECURSIVE Straightened(_)
Straightened(segments) ==
  IF Len(segments) < 2 THEN segments
  ELSE LET complete == << segments[1][1], segments[Len(segments)][2] >>
           cut == Farthest(segments, complete)
       IN  IF cut = 0 THEN << complete >>
           ELSE Straightened(SubSeq(segments, 1, cut - 1)) \o Straightened(SubSeq(segments, cut, Len(segments)))

\* Mutant: a reversal is straightened like any other point.
SimplifiedThroughTurns(segments) == Straightened(segments)
RECURSIVE Simplified(_)
Simplified(segments) ==
  LET turns == { i \in 1..Len(segments) - 1 : TurnsBack(segments[i], segments[i + 1]) }
  IN  IF turns = {} THEN Straightened(segments)
      ELSE Straightened(SubSeq(segments, 1, Min(turns)))
             \o Simplified(SubSeq(segments, Min(turns) + 1, Len(segments)))

-----------------------------------------------------------------------------
(* Adoption and splitting.                                                 *)

PointsOf(segments) == UNION { { segments[i][1], segments[i][2] } : i \in DOMAIN segments }

\* The nearest of the points that is close enough, or the point itself.
Adopted(p, points) ==
  LET near == { q \in points : NearTo(p, q, Adoption) }
      least == Min({ Square(Minus(p, q)) : q \in near })
  IN  IF near = {} THEN p ELSE CHOOSE q \in near : Square(Minus(p, q)) = least

\* A start that is the end before it is not looked up again.
AdoptSegment(done, s, points) ==
  Append(done, << IF done # << >> /\ s[1] = Last(done)[2] THEN s[1] ELSE Adopted(s[1], points),
                  Adopted(s[2], points) >>)
Adapt(segments, adopt) ==
  LET points == PointsOf(adopt)
      moved == FoldLeft(LAMBDA done, s : AdoptSegment(done, s, points), << >>, segments)
  IN  SelectSeq(moved, LAMBDA s : s[1] # s[2])

\* The segment in two if the point is close to it and goes on from it.
SplitAt(s, p) ==
  IF /\ p # s[1] /\ p # s[2]
     /\ Off(p, s) < Splitting * Splitting * Scale(s)
     /\ Dot(Minus(p, s[1]), Minus(s[2], p)) > 0
    THEN << << s[1], p >>, << p, s[2] >> >> ELSE << s >>
Smaller(p, q) == p[1] < q[1] \/ (p[1] = q[1] /\ p[2] < q[2])
Split(segments, compare) ==
  FoldLeft(LAMBDA done, p : FlattenSeq([i \in DOMAIN done |-> SplitAt(done[i], p)]),
           segments, SetToSortSeq(PointsOf(compare), Smaller))

\* A pair of segment lists: each first with itself, then a with b, then b with the new a.
Mutually(f(_, _), pair) ==
  LET a == f(pair[1], pair[1])
      b == f(pair[2], pair[2])
      a2 == f(a, b)
  IN  << a2, f(b, a2) >>
Prepared(a, b) ==
  Mutually(Adapt, Mutually(Split, Mutually(Adapt, << Simplified(a), Simplified(b) >>)))

-----------------------------------------------------------------------------
(* Walking along both lists.                                               *)

\* The first later segment that starts where a segment that goes back starts, or 0.
TurnEnd(segments, at) ==
  LET ends == { i \in at + 1..Len(segments) : segments[i][1] = segments[at][1] }
      back == at > 1 /\ segments[at - 1] = << segments[at][2], segments[at][1] >>
  IN  IF back /\ ends # {} THEN Min(ends) ELSE 0

\* Where the two lists meet again: for the first possible segment of b the first of a.
MergeAt(as, bs, i, j) ==
  LET from == IF as[i][1] = bs[j][1] /\ as[i][2] # bs[j][2] THEN j + 1 ELSE j
      meeting(n) == { m \in i..Len(as) : as[m][1] = bs[n][1] }
      later == { n \in from..Len(bs) : meeting(n) # {} }
  IN  IF later = {} THEN << Len(as) + 1, Len(bs) + 1 >>
      ELSE << Min(meeting(Min(later))), Min(later) >>

Nothing == << >>
Started(truth, match, as, bs) ==
  [truth |-> truth, match |-> match, as |-> as, bs |-> bs, i |-> 1, j |-> 1,
   corrects |-> Nothing, adds |-> Nothing, misses |-> Nothing, backA |-> Nothing, backB |-> Nothing]
NoComparison == Started(Nothing, Nothing, Nothing, Nothing)

ComparisonInit == phase = "compare" /\ comparison \in { Started(t, m, Nothing, Nothing) : t \in Truths, m \in Matches }

\* compare with one side empty: the other side is all wrong.
CompareEmpty ==
  LET as == AllSegments(comparison.truth)
      bs == AllSegments(comparison.match)
  IN  /\ phase = "compare" /\ (as = << >> \/ bs = << >>)
      /\ comparison' = [comparison EXCEPT !.as = as, !.bs = bs, !.misses = as, !.adds = bs]
      /\ phase' = "done"

CompareLines ==
  LET as == AllSegments(comparison.truth)
      bs == AllSegments(comparison.match)
  IN  /\ phase = "compare" /\ as # << >> /\ bs # << >>
      /\ \E prepared \in { Prepared(as, bs) } :
           comparison' = [comparison EXCEPT !.as = prepared[1], !.bs = prepared[2]]
      /\ phase' = "walk"

Walking == phase = "walk" /\ comparison.i <= Len(comparison.as) /\ comparison.j <= Len(comparison.bs)
Same == comparison.as[comparison.i] = comparison.bs[comparison.j]
TurnA == TurnEnd(comparison.as, comparison.i)
TurnB == TurnEnd(comparison.bs, comparison.j)

WalkTogether ==
  /\ Walking /\ Same
  /\ comparison' = [comparison EXCEPT !.corrects = Append(@, comparison.as[comparison.i]),
                                      !.i = @ + 1, !.j = @ + 1]
  /\ UNCHANGED phase

\* What lies between a turn back and the return is set aside, on both sides.
SetAside ==
  /\ Walking /\ ~Same /\ (TurnA # 0 \/ TurnB # 0)
  /\ comparison' = [comparison EXCEPT
       !.backA = IF TurnA = 0 THEN @ ELSE @ \o SubSeq(comparison.as, comparison.i, TurnA - 1),
       !.backB = IF TurnB = 0 THEN @ ELSE @ \o SubSeq(comparison.bs, comparison.j, TurnB - 1),
       !.i = IF TurnA = 0 THEN @ ELSE TurnA,
       !.j = IF TurnB = 0 THEN @ ELSE TurnB]
  /\ UNCHANGED phase

WalkApart ==
  /\ Walking /\ ~Same /\ TurnA = 0 /\ TurnB = 0
  /\ \E merge \in { MergeAt(comparison.as, comparison.bs, comparison.i, comparison.j) } :
       comparison' = [comparison EXCEPT
         !.misses = @ \o SubSeq(comparison.as, comparison.i, merge[1] - 1),
         !.adds = @ \o SubSeq(comparison.bs, comparison.j, merge[2] - 1),
         !.i = merge[1], !.j = merge[2]]
  /\ UNCHANGED phase

\* One line has ended: the rest of the other is missed or added.
WalkEnds ==
  /\ phase = "walk" /\ ~Walking
  /\ comparison' = [comparison EXCEPT
       !.misses = @ \o SubSeq(comparison.as, comparison.i, Len(comparison.as)),
       !.adds = @ \o SubSeq(comparison.bs, comparison.j, Len(comparison.bs)),
       !.i = Len(comparison.as) + 1, !.j = Len(comparison.bs) + 1]
  /\ phase' = "turns"

-----------------------------------------------------------------------------
(* Reconciling what is left: equal segments of two lists were correct.     *)

\* Each segment of one list that the other still holds leaves both for the corrects.
\* Mutant: it stays in the second list and may count again.
PairOffOnce(pairs, s) ==
  IF s \in Range(pairs[2])
    THEN << pairs[1], pairs[2], Append(pairs[3], s) >>
    ELSE << Append(pairs[1], s), pairs[2], pairs[3] >>
PairOff(pairs, s) ==
  IF s \in Range(pairs[2])
    THEN << pairs[1], RemoveFirst(pairs[2], s), Append(pairs[3], s) >>
    ELSE << Append(pairs[1], s), pairs[2], pairs[3] >>
Paired(xs, ys) == FoldLeft(PairOff, << << >>, ys, comparison.corrects >>, xs)

PairTurns ==
  /\ phase = "turns"
  /\ LET p == Paired(comparison.backB, comparison.backA)
     IN  comparison' = [comparison EXCEPT !.backB = p[1], !.backA = p[2], !.corrects = p[3]]
  /\ phase' = "added"

PairAdded ==
  /\ phase = "added"
  /\ LET p == Paired(comparison.adds, comparison.backA)
     IN  comparison' = [comparison EXCEPT !.adds = p[1], !.backA = p[2], !.corrects = p[3]]
  /\ phase' = "missed"

PairMissed ==
  /\ phase = "missed"
  /\ LET p == Paired(comparison.misses, comparison.backB)
     IN  comparison' = [comparison EXCEPT !.misses = p[1], !.backB = p[2], !.corrects = p[3]]
  /\ phase' = "rest"

\* Turns nobody shares are errors, each segment once.
WithOthers(errors, back) ==
  FoldLeft(LAMBDA all, s : IF s \in Range(all) THEN all ELSE Append(all, s), errors, back)
PairErrors ==
  /\ phase = "rest"
  /\ LET misses == WithOthers(comparison.misses, comparison.backA)
         adds == WithOthers(comparison.adds, comparison.backB)
         p == Paired(misses, adds)
     IN  comparison' = [comparison EXCEPT !.misses = p[1], !.adds = p[2], !.corrects = p[3]]
  /\ phase' = "done"

ComparisonNext ==
  \/ CompareEmpty \/ CompareLines
  \/ WalkTogether \/ SetAside \/ WalkApart \/ WalkEnds
  \/ PairTurns \/ PairAdded \/ PairMissed \/ PairErrors

-----------------------------------------------------------------------------
(* What the comparison says.                                               *)

LengthSum(segments) == FoldLeft(LAMBDA sum, s : sum + SegmentLength(s), 0, segments)
LinesLength(multi) == LengthSum(AllSegments(multi))

\* The share of errors of the ground truth, as a fraction; without a ground truth all is wrong.
Infinity == << 1, 0 >>
ErrorFraction ==
  LET errors == LengthSum(comparison.adds) + LengthSum(comparison.misses)
      length == LinesLength(comparison.truth)
  IN  IF errors = 0 THEN << 0, 1 >>
      ELSE IF length > 0 THEN << errors, length >> ELSE Infinity

\* The share of the longer line that is correct; nothing if only one line has a length.
CorrectFraction ==
  LET longer == Max({ LinesLength(comparison.truth), LinesLength(comparison.match) })
      shorter == Min({ LinesLength(comparison.truth), LinesLength(comparison.match) })
  IN  IF ErrorFraction[1] = 0 THEN << 1, 1 >>
      ELSE IF shorter > 0 THEN << Min({ LengthSum(comparison.corrects), longer }), longer >>
      ELSE << 0, 1 >>

\* The report of several comparisons weighs their fractions with the lengths.
Sums ==
  [truth |-> LinesLength(comparison.truth), match |-> LinesLength(comparison.match),
   correct |-> LengthSum(comparison.corrects), added |-> LengthSum(comparison.adds),
   missed |-> LengthSum(comparison.misses)]
WeightedError(sums) ==
  IF sums.added = 0 /\ sums.missed = 0 THEN << 0, 1 >>
  ELSE IF sums.truth > 0 THEN << sums.added + sums.missed, sums.truth >> ELSE Infinity
WeightedCorrect(sums) ==
  IF WeightedError(sums) = << 0, 1 >> THEN << 1, 1 >>
  ELSE IF sums.truth > 0 /\ sums.match > 0
         THEN << Min({ sums.correct, Max({ sums.match, sums.truth }) }), Max({ sums.match, sums.truth }) >>
  ELSE IF sums.truth = 0 /\ sums.match = 0 THEN << 1, 1 >> ELSE << 0, 1 >>

-----------------------------------------------------------------------------
(* Properties.                                                             *)

Attached(segments) == \A n \in 1..Len(segments) - 1 : segments[n][2] = segments[n + 1][1]
Bag(segments) == FoldLeft(BagAdd, EmptyBag, segments)

\* Straightening, adopting and splitting keep a connected line connected, its ends where
\* they were and its length as it was, up to the tolerances: the walk takes a segment that
\* starts where another ends as the next one, and the errors are shares of the length the
\* line had before.
\* code: compare.hpp:185-311, simplify.hpp:130-206
KeptWhole(multi, segments) ==
  LET before == AllSegments(multi)
      tolerance == 2 * Adoption * (Len(before) + Len(segments))
  IN  before # << >> /\ Attached(before) =>
        /\ segments # << >> => Attached(segments)
        /\ Absolute(LengthSum(segments) - LengthSum(before)) <= tolerance
LinesStayWhole ==
  phase \notin { "none", "compare" } =>
    KeptWhole(comparison.truth, comparison.as) /\ KeptWhole(comparison.match, comparison.bs)

\* When the comparison is done each segment of either line is counted once, as correct or as
\* an error, except for turning movements that are errors already; none is both missed and
\* added, so a line compared with itself is right however often it turns; and the more is
\* correct the less is wrong.
\* The report of one comparison says what the comparison says.
\* code: compare.hpp:323-487 (walk and reconciliation), 530-577 (fractions)
Counted(segments, errors) ==
  LET counted == Bag(comparison.corrects) (+) Bag(errors)
  IN  /\ counted \sqsubseteq Bag(segments)
      /\ BagToSet(Bag(segments) (-) counted) \subseteq Range(errors)
SegmentsAccounted ==
  phase = "done" =>
    /\ Counted(comparison.as, comparison.misses) /\ Counted(comparison.bs, comparison.adds)
    /\ Range(comparison.misses) \cap Range(comparison.adds) = {}
    /\ comparison.truth = comparison.match => CorrectFraction = << 1, 1 >> /\ ErrorFraction[1] = 0
    /\ CorrectFraction[1] = CorrectFraction[2] <=> ErrorFraction[1] = 0
    /\ WeightedError(Sums) = ErrorFraction /\ WeightedCorrect(Sums) = CorrectFraction
=============================================================================
