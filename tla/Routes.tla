------------------------------- MODULE Routes -------------------------------
(***************************************************************************)
(* The routes of a match: a sequence of lines, some of them edges of the   *)
(* network, the first and the last one parts of edges.  A route may have   *)
(* no line at all (staying at a place) and it may be invalid (there is no  *)
(* way).                                                                   *)
(***************************************************************************)
EXTENDS Lines

NoRoute == [invalid |-> TRUE, lines |-> << >>]
RouteOf(lines) == [invalid |-> FALSE, lines |-> lines]
StayRoute == RouteOf(<< >>)

RouteHasLength(route) == \E i \in DOMAIN route.lines : HasLength(route.lines[i])
RouteLength(route) ==
  LET sum[i \in 0..Len(route.lines)] ==
        IF i = 0 THEN 0 ELSE sum[i - 1] + Length(route.lines[i])
  IN  sum[Len(route.lines)]

FirstLine(route) == route.lines[1]
LastLine(route) == route.lines[Len(route.lines)]
First(line) == line[1]
LastOf(line) == line[Len(line)]

\* A merge takes only the routes that move at all.
Mergeable(route) ==
  /\ ~route.invalid
  /\ \E i \in DOMAIN route.lines :
       LET line == route.lines[i]
       IN  \E j \in 1..Len(line) - 1 : line[j] # line[j + 1]

RoutesAttach(a, b) ==
  /\ ~a.invalid
  /\ ~b.invalid
  /\ \/ a.lines = << >> \/ b.lines = << >>
     \/ LastLine(a) = << >> \/ FirstLine(b) = << >>
     \/ LastOf(LastLine(a)) = First(FirstLine(b))

\* Whether line b starts back along the way on which line a ended.
ReverseAttaches(a, b) ==
  /\ Len(a) >= 2
  /\ Len(b) >= 2
  /\ LET ax == a[Len(a)][1] - a[Len(a) - 1][1]
         ay == a[Len(a)][2] - a[Len(a) - 1][2]
         bx == b[2][1] - b[1][1]
         by == b[2][2] - b[1][2]
     IN  /\ ax * by = ay * bx
         /\ ax * bx + ay * by < 0

-----------------------------------------------------------------------------
(***************************************************************************)
(* merge appends the lines of the mergeable routes; with non_connect_except*)
(* it throws when two of them do not attach (MergesAttached tells).        *)
(***************************************************************************)
Movers(routes) == SelectSeq(routes, Mergeable)

Merge(routes) ==
  LET movers == Movers(routes)
      lines[i \in 0..Len(movers)] ==
        IF i = 0 THEN << >> ELSE lines[i - 1] \o movers[i].lines
  IN  IF \A i \in DOMAIN routes : routes[i].invalid THEN NoRoute
                                                   ELSE RouteOf(lines[Len(movers)])

MergesAttached(routes) ==
  LET movers == Movers(routes)
  IN  \A i \in 1..Len(movers) - 1 :
        LET a == LastLine(movers[i])
            b == FirstLine(movers[i + 1])
        IN  a # << >> /\ b # << >> => LastOf(a) = First(b)

\* join drops the point at which b starts from both routes: a runs on to the
\* second point of b.  A reversal is kept where it shall be.
Joinable(a, b, retainReversal) ==
  /\ ~a.invalid /\ ~b.invalid
  /\ a.lines # << >> /\ b.lines # << >>
  /\ Len(LastLine(a)) >= 2 /\ Len(FirstLine(b)) >= 2
  /\ ~(retainReversal /\ ReverseAttaches(LastLine(a), FirstLine(b)))

JoinWithoutEnd(a, b, retainReversal) ==
  IF Joinable(a, b, retainReversal) /\ Len(FirstLine(b)) > 2
    THEN << a, [b EXCEPT !.lines[1] = Tail(Tail(@))] >> ELSE << a, b >>
Join(a, b, retainReversal) ==
  LET back  == SubSeq(LastLine(a), 1, Len(LastLine(a)) - 1) \o << FirstLine(b)[2] >>
      front == Tail(FirstLine(b))
  IN  IF Joinable(a, b, retainReversal)
        THEN << [a EXCEPT !.lines[Len(a.lines)] = back],
                [b EXCEPT !.lines = (IF Len(front) < 2 THEN << >> ELSE << front >>)
                                      \o Tail(b.lines)] >>
        ELSE << a, b >>

-----------------------------------------------------------------------------
(***************************************************************************)
(* trim_merge cuts the way that the end of one route and the start of the  *)
(* other one run along in opposite directions.  Positions is the points of *)
(* a route in order, each with its line and its index; a block is a run of *)
(* equal points, starting at some position and ending at another.          *)
(***************************************************************************)
Positions(route) ==
  LET of[i \in 0..Len(route.lines)] ==
        IF i = 0 THEN << >>
        ELSE of[i - 1] \o [j \in 1..Len(route.lines[i]) |->
               [line |-> i, index |-> j, point |-> route.lines[i][j]]]
  IN  of[Len(route.lines)]

\* The positions at which a block starts, or ends.
BlockStarts(positions) ==
  { k \in DOMAIN positions :
      k = 1 \/ positions[k - 1].point # positions[k].point }
BlockEnds(positions) ==
  { k \in DOMAIN positions :
      k = Len(positions) \/ positions[k + 1].point # positions[k].point }
NthOf(S, n) == CHOOSE k \in S : Cardinality({ m \in S : m <= k }) = n

\* The number of blocks at the end of one route that are, backwards, the
\* blocks at the start of the other one.
SharedBlocks(self, other) ==
  LET ends   == BlockEnds(self)
      starts == BlockStarts(other)
      fits(n) == \A k \in 1..n :
                   self[NthOf(ends, Cardinality(ends) + 1 - k)].point
                     = other[NthOf(starts, k)].point
      most   == IF Cardinality(ends) < Cardinality(starts)
                  THEN Cardinality(ends) ELSE Cardinality(starts)
  IN  Greatest({ n \in 0..most : fits(n) })

\* find_return_line: where the shared way starts on the one route and ends on
\* the other one; nothing if they share none.  When the one route is used up,
\* the end on the other one stays at the start of the last shared block.
ReturnLine(a, b) ==
  LET self   == Positions(a)
      other  == Positions(b)
      n      == SharedBlocks(self, other)
      blocks == Cardinality(BlockStarts(self))
  IN  IF self = << >> \/ other = << >> \/ ~RoutesAttach(a, b) \/ n = 0 THEN << >>
      ELSE << self[NthOf(BlockStarts(self), blocks + 1 - n)],
              other[NthOf(IF n = blocks THEN BlockStarts(other)
                                        ELSE BlockEnds(other), n)] >>

\* sub_route from the start to a position and from a position to the end.
UpTo(route, position) ==
  Merge(<< RouteOf(SubSeq(route.lines, 1, position.line - 1)),
           RouteOf(<< SubSeq(route.lines[position.line], 1, position.index) >>) >>)
StartingAt(route, position) ==
  Merge(<< RouteOf(<< SubSeq(route.lines[position.line], position.index,
                             Len(route.lines[position.line])) >>),
           RouteOf(SubSeq(route.lines, position.line + 1, Len(route.lines))) >>)

TrimMerge(a, b) ==
  LET found  == ReturnLine(a, b)
      head   == UpTo(a, found[1])
      rest   == StartingAt(b, found[2])
      turns  == /\ head.lines # << >> /\ rest.lines # << >>
                /\ ReverseAttaches(LastLine(head), FirstLine(rest))
  IN  IF found = << >> THEN NoRoute
      ELSE IF turns THEN Merge(Join(head, rest, FALSE))
      ELSE Merge(<< head, rest >>)

\* extract_return_line: the way that is run along and back, 0 if there is none.
ReturnLength(a, b) ==
  LET found == ReturnLine(a, b)
      rest  == StartingAt(a, found[1])
  IN  IF found = << >> THEN 0 ELSE RouteLength(rest)

-----------------------------------------------------------------------------
\* The gaps of a route: get_multi_rich_line splits it there.
Nonempty(line) == line # << >>
FilledLines(route) == SelectSeq(route.lines, Nonempty)
Gaps(route) ==
  LET lines == FilledLines(route)
  IN  { i \in 1..Len(lines) - 1 : ~Attaches(lines[i], lines[i + 1]) }

\* get_rich_line and get_multi_rich_line: as one line, gaps closed, and as the
\* connected lines between the gaps.
Append1(line, next) ==
  IF line # << >> /\ next # << >> /\ LastOf(line) = First(next) THEN line \o Tail(next)
                                                         ELSE line \o next
OneLine(route) ==
  LET lines == FilledLines(route)
      upTo[i \in 0..Len(lines)] ==
        IF i = 0 THEN << >> ELSE Append1(upTo[i - 1], lines[i])
  IN  upTo[Len(lines)]

MultiLine(route) ==
  LET lines == FilledLines(route)
      upTo[i \in 0..Len(lines)] ==
        IF i = 0 THEN << << >> >>
        ELSE LET done == upTo[i - 1]
                 last == Len(done)
             IN  IF i = 1 \/ i - 1 \notin Gaps(route)
                   THEN [done EXCEPT ![last] = Append1(@, lines[i])]
                   ELSE Append(done, lines[i])
  IN  upTo[Len(lines)]

=============================================================================
