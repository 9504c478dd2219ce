--------------------------- MODULE RouteOwnership ---------------------------
(***************************************************************************)
(* Who owns the lines of a route.  A route refers to its lines; some it    *)
(* owns itself, the others belong to the network, to a candidate, or to    *)
(* another route, and must live as long.  The state machine is the end of  *)
(* candidate_route: the way from one candidate to the next is trimmed and  *)
(* merged from local routes, returned when they end, and cloned.           *)
(***************************************************************************)
EXTENDS Routes, SequencesExt

CONSTANTS CandidateLines, \* the lines from a candidate to a node, or from a node to one
          EdgeLines,      \* the lines of the edges
          MaxEdges        \* no way has more edges

VARIABLES step,     \* what candidate_route does next
          turns,    \* within_edge_turns
          local,    \* the local routes and the cached one, by their names
          answer    \* the route that is returned

ownershipVars == << step, turns, local, answer >>

\* A route with the owner of each line: "own" if it is the route itself.
Owned(route, owners) == [invalid |-> route.invalid, lines |-> route.lines, owners |-> owners]
Refers(lines, owner) == Owned(RouteOf(lines), [i \in DOMAIN lines |-> owner])
Nothing == Owned(NoRoute, << >>)

\* sub_route copies the lines it owns, but looks for each of them only behind the last
\* one: a line of another owner makes it pass by all that follow.
\* Mutant: nothing is copied.
TakenByReference(x, name, from, to) ==
  [i \in 1..to - from + 1 |->
     IF x.owners[from + i - 1] = "own" THEN name ELSE x.owners[from + i - 1]]
Taken(x, name, from, to) ==
  [i \in 1..to - from + 1 |->
     IF x.owners[from + i - 1] = "own" /\ \E j \in from..from + i - 2 : x.owners[j] # "own"
       THEN name ELSE x.owners[from + i - 1]]

\* What is merged moves along: the lines of the routes that are mergeable.
Moved(routes) ==
  Owned(Merge(routes), FlattenSeq([i \in DOMAIN Movers(routes) |-> Movers(routes)[i].owners]))

\* A route up to a position, and from it on.  A line that is cut is a new one.
OwnedUpTo(x, name, at) ==
  IF at.index < Len(x.lines[at.line])
    THEN Moved(<< Owned(RouteOf(SubSeq(x.lines, 1, at.line - 1)), Taken(x, name, 1, at.line - 1)),
                  Refers(<< SubSeq(x.lines[at.line], 1, at.index) >>, "own") >>)
    ELSE Moved(<< Owned(RouteOf(SubSeq(x.lines, 1, at.line)), Taken(x, name, 1, at.line)) >>)
OwnedFrom(x, name, at) ==
  LET size == Len(x.lines)
  IN  IF at.index > 1
        THEN Moved(<< Refers(<< SubSeq(x.lines[at.line], at.index, Len(x.lines[at.line])) >>, "own"),
                      Owned(RouteOf(SubSeq(x.lines, at.line + 1, size)),
                            Taken(x, name, at.line + 1, size)) >>)
        ELSE Moved(<< Owned(RouteOf(SubSeq(x.lines, at.line, size)),
                            Taken(x, name, at.line, size)) >>)

\* Both lines at the joint are new ones.
OwnedJoin(a, b) ==
  LET joined == Join(a, b, FALSE)
  IN  IF ~Joinable(a, b, FALSE) THEN << a, b >>
      ELSE << Owned(joined[1], [a.owners EXCEPT ![Len(a.owners)] = "own"]),
              Owned(joined[2], IF Len(joined[2].lines) < Len(b.lines) THEN Tail(b.owners)
                               ELSE [b.owners EXCEPT ![1] = "own"]) >>

OwnedTrimMerge(a, aName, b, bName) ==
  LET found == ReturnLine(a, b)
      head  == OwnedUpTo(a, aName, found[1])
      rest  == OwnedFrom(b, bName, found[2])
      turn  == /\ head.lines # << >> /\ rest.lines # << >>
               /\ ReverseAttaches(LastLine(head), FirstLine(rest))
  IN  IF found = << >> THEN Nothing
      ELSE IF turn THEN Moved(OwnedJoin(head, rest)) ELSE Moved(<< head, rest >>)

\* A merge that does not attach throws; candidate_route catches it.
MergedOrNothing(routes) == IF MergesAttached(routes) THEN Moved(routes) ELSE Nothing

-----------------------------------------------------------------------------

Attached(a, b) == a[Len(a)] = b[1]
Ways == { way \in BoundedSeq(EdgeLines, MaxEdges) :
            \A i \in 1..Len(way) - 1 : Attached(way[i], way[i + 1]) }

OwnershipInit ==
  \E start, end \in CandidateLines, way \in Ways :
    /\ IF way = << >> THEN Attached(start, end)
       ELSE Attached(start, way[1]) /\ Attached(way[Len(way)], end)
    /\ turns \in BOOLEAN
    /\ step = "trim start"
    /\ local = [start |-> Refers(<< start >>, "candidate"), route |-> Refers(way, "network"),
                end |-> Refers(<< end >>, "candidate"), trimmed |-> Nothing]
    /\ answer = Nothing

\* Without turns within edges the three are merged.
MergeAll ==
  /\ step = "trim start" /\ ~turns
  /\ answer' = MergedOrNothing(<< local.start, local.route, local.end >>)
  /\ step' = "return"
  /\ UNCHANGED << turns, local >>

TrimStart ==
  /\ step = "trim start" /\ turns
  /\ local' = [local EXCEPT !.trimmed = OwnedTrimMerge(local.start, "start", local.route, "route")]
  /\ step' = "trim end"
  /\ UNCHANGED << turns, answer >>

\* The end is trimmed off what the start left, or off the way if that did not work; where
\* this does not work either, it is merged.
TrimEnd ==
  /\ step = "trim end"
  /\ LET done == ~local.trimmed.invalid
         before == IF done THEN local.trimmed ELSE local.route
         both == OwnedTrimMerge(before, IF done THEN "trimmed" ELSE "route", local.end, "end")
     IN  answer' = IF done THEN IF both.invalid THEN MergedOrNothing(<< before, local.end >>) ELSE both
                   ELSE MergedOrNothing(IF both.invalid THEN << local.start, local.route, local.end >>
                                        ELSE << local.start, both >>)
  /\ step' = "return"
  /\ UNCHANGED << turns, local >>

\* The locals end with the function; the cached route may go with the next clear.
ReturnRoute ==
  /\ step = "return"
  /\ local' = [name \in DOMAIN local |-> Nothing]
  /\ step' = "clone"
  /\ UNCHANGED << turns, answer >>

\* The copy that the match keeps owns all its lines.
CloneRoute ==
  /\ step = "clone"
  /\ answer' = IF answer.invalid THEN Refers(<< >>, "own") ELSE Refers(answer.lines, "own")
  /\ step' = "done"
  /\ UNCHANGED << turns, local >>

OwnershipNext == MergeAll \/ TrimStart \/ TrimEnd \/ ReturnRoute \/ CloneRoute

-----------------------------------------------------------------------------
\* The route that candidate_route returns refers to no line of a route that has ended: when
\* it is cloned, each of its lines is its own or belongs to the network or a candidate
\* (route.hpp, sub_route, merge, join; matching/algorithm/route.hpp, candidate_route).
LinesOutliveRoute ==
  step = "clone" => \A i \in DOMAIN answer.owners : answer.owners[i] \in {"own", "network", "candidate"}
=============================================================================
