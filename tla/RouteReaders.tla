---------------------------- MODULE RouteReaders ----------------------------
(***************************************************************************)
(* The importers of tracks that are not tables: lists of edge ids, which   *)
(* become lines through the network, the ground truth of the Seattle data  *)
(* set, which names roads and directions, and geometries from the console. *)
(***************************************************************************)
EXTENDS Integers, FiniteSetsExt, SequencesExt, Functions

CONSTANTS
    Network,      \* the edges of the network: [id, line]
    RouteInputs   \* [sort, files]: "list" files of edge ids, "seattle" roads and a route,
                  \* "console" rows of a sort and a size

VARIABLES
    reader,     \* what is read
    nextItem,   \* << file, row >> that is next
    ids,        \* the edge ids of the file, without the repeated ones
    pieces,     \* the connected edges that were found
    queue,      \* of the search: << depth, path >>
    best,       \* the longest path of the search
    truth,      \* the line of the ground truth so far
    counter,    \* of the rows of the console
    passed,     \* the tracks that were passed on
    status      \* "read", "search", "done", "threw"

routeVars == << reader, nextItem, ids, pieces, queue, best, truth, counter, passed, status >>

RouteInit ==
  /\ reader \in RouteInputs /\ nextItem = << 1, 1 >>
  /\ ids = << >> /\ pieces = << >> /\ queue = << >> /\ best = << >>
  /\ truth = << >> /\ counter = 0 /\ passed = << >>
  /\ status = "read"

Content == reader.files[nextItem[1]]
HasRow(sort) ==
  status = "read" /\ reader.sort = sort /\ nextItem[1] <= Len(reader.files) /\ nextItem[2] <= Len(Content)
Item == Content[nextItem[2]]
FileEnd(sort) ==
  status = "read" /\ reader.sort = sort /\ nextItem[1] <= Len(reader.files) /\ nextItem[2] > Len(Content)
NextRow == nextItem' = [nextItem EXCEPT ![2] = @ + 1] /\ UNCHANGED reader
NextRoute == nextItem' = << nextItem[1] + 1, 1 >> /\ UNCHANGED reader
Stop == status = "read" /\ nextItem[1] > Len(reader.files) /\ status' = "done"
Idle == UNCHANGED << reader, nextItem, ids, pieces, queue, best, truth, counter, passed >>

-----------------------------------------------------------------------------
\* edges_list_importer.

EdgesOf(id) == SelectSeq([e \in DOMAIN Network |-> e], LAMBDA e : Network[e].id = id)

\* An id that no edge has throws; a repeated id is left out.
ReadId ==
  /\ HasRow("list")
  /\ IF ids # << >> /\ Last(ids) = Item.id THEN NextRow /\ UNCHANGED << ids, status >>
     ELSE IF EdgesOf(Item.id) = << >> THEN status' = "threw" /\ UNCHANGED << reader, nextItem, ids >>
     ELSE ids' = Append(ids, Item.id) /\ NextRow /\ UNCHANGED status
  /\ UNCHANGED << pieces, queue, best, truth, counter, passed >>

Meets(e, f) == Last(Network[e].line) = Network[f].line[1]
Walkable(path) == \A k \in 1..Len(path) - 1 : Meets(path[k], path[k + 1])

Start == FoldLeft(LAMBDA n, piece : n + Len(piece), 1, pieces)

\* A file without ids is passed over.
EndOfIds ==
  /\ FileEnd("list")
  /\ IF ids = << >> THEN NextRoute /\ UNCHANGED << queue, status >>
     ELSE status' = "search" /\ queue' = << << 1, << >> >> >> /\ UNCHANGED << reader, nextItem >>
  /\ UNCHANGED << ids, pieces, best, truth, counter, passed >>

\* The paths through the edges of the ids, in breadth; the first of the longest is kept.
Extended(path, depth) ==
  LET more == EdgesOf(ids[depth])
  IN  SelectSeq([k \in DOMAIN more |-> << depth + 1, Append(path, more[k]) >>], LAMBDA q : Walkable(q[2]))

\* Mutant: the first path that is found is kept.
FirstFound(path) == IF best = << >> THEN path ELSE best
Better(path) == IF Len(path) > Len(best) THEN path ELSE best

PopPath ==
  /\ status = "search" /\ queue # << >>
  /\ LET depth == queue[1][1]
         path == queue[1][2]
     IN  /\ best' = Better(path)
         /\ queue' = IF Len(path) = Len(ids) - Start + 1 THEN << >>
                     ELSE Tail(queue) \o (IF depth <= Len(ids) THEN Extended(path, depth) ELSE << >>)
  /\ UNCHANGED << reader, nextItem, ids, pieces, truth, counter, passed, status >>

\* The next search starts behind the path.
TakePath ==
  /\ status = "search" /\ queue = << >> /\ best # << >>
  /\ pieces' = Append(pieces, best) /\ best' = << >>
  /\ queue' = IF Start + Len(best) <= Len(ids) THEN << << Start + Len(best), << >> >> >> ELSE << >>
  /\ UNCHANGED << reader, nextItem, ids, truth, counter, passed, status >>

\* Lines of edges that attach become one line.
Glue(lines, next) ==
  IF lines # << >> /\ Last(Last(lines)) = next[1]
  THEN [lines EXCEPT ![Len(lines)] = @ \o Tail(next)] ELSE Append(lines, next)
Joined(path) == FoldLeft(LAMBDA lines, e : Glue(lines, Network[e].line), << >>, path)

PassRoute ==
  /\ status = "search" /\ queue = << >> /\ best = << >>
  /\ passed' = Append(passed, [id |-> nextItem[1] - 1, lines |-> Joined(FlattenSeq(pieces)),
                               ids |-> ids, pieces |-> pieces])
  /\ ids' = << >> /\ pieces' = << >> /\ status' = "read"
  /\ NextRoute /\ UNCHANGED << queue, best, truth, counter >>

-----------------------------------------------------------------------------
\* seattle_ground_truth_importer; the first file is kept as a map, in which the first
\* road of an id stays.

ReadRoads ==
  /\ status = "read" /\ reader.sort = "seattle" /\ nextItem = << 1, 1 >>
  /\ IF Len(reader.files) # 2 THEN status' = "threw" /\ UNCHANGED << reader, nextItem >>
     ELSE NextRoute /\ UNCHANGED status
  /\ UNCHANGED << ids, pieces, queue, best, truth, counter, passed >>

RoadsOf(id) == SelectSeq(reader.files[1], LAMBDA r : r.id = id)

\* The first point of every line but the first is left out, whatever it is.
Continued(drawn) == IF truth = << >> THEN drawn ELSE truth \o Tail(drawn)

ReadTurn ==
  /\ HasRow("seattle") /\ nextItem[1] = 2
  /\ LET roads == RoadsOf(Item.id)
     IN  IF roads = << >> \/ (~Item.forth /\ ~roads[1].two)
         THEN status' = "threw" /\ UNCHANGED << reader, nextItem, truth >>
         ELSE /\ truth' = Continued(IF Item.forth THEN roads[1].line ELSE Reverse(roads[1].line))
              /\ NextRow /\ UNCHANGED status
  /\ UNCHANGED << ids, pieces, queue, best, counter, passed >>

PassTruth ==
  /\ FileEnd("seattle") /\ nextItem[1] = 2
  /\ passed' = Append(passed, [id |-> 0, lines |-> << truth >>])
  /\ NextRoute /\ UNCHANGED << ids, pieces, queue, best, truth, counter, status >>

-----------------------------------------------------------------------------
\* input_importer: reading ends with an empty row; a row that cannot be read is left
\* out, but has taken its number.

ReadWkt ==
  /\ HasRow("console") /\ Item.sort # "empty"
  /\ counter' = counter + 1
  /\ passed' = CASE Item.sort = "points" ->
                      Append(passed, [id |-> counter, lines |-> << [k \in 1..Item.size |-> [row |-> nextItem[2], time |-> k - 1]] >>])
                 [] Item.sort = "line" ->
                      Append(passed, [id |-> counter, lines |-> << [k \in 1..Item.size |-> [row |-> nextItem[2], time |-> 0]] >>])
                 [] OTHER -> passed
  /\ NextRow /\ UNCHANGED << ids, pieces, queue, best, truth, status >>

EndOfInput ==
  /\ \/ HasRow("console") /\ Item.sort = "empty"
     \/ FileEnd("console")
  /\ status' = "done" /\ Idle

Finished == Stop /\ Idle

RouteNext ==
  \/ ReadId \/ EndOfIds \/ PopPath \/ TakePath \/ PassRoute
  \/ ReadRoads \/ ReadTurn \/ PassTruth \/ ReadWkt \/ EndOfInput \/ Finished

-----------------------------------------------------------------------------
\* The choices of one edge for each of the ids from i to k.
WalkableChoices(track, i, k) ==
  { c \in [1..k - i + 1 -> DOMAIN Network] :
      Walkable(c) /\ \A n \in DOMAIN c : Network[c[n]].id = track.ids[i + n - 1] }
FirstOf(track, k) == FoldLeft(LAMBDA n, piece : n + Len(piece), 1, SubSeq(track.pieces, 1, k - 1))

ListIsFollowed(track) ==
  /\ FirstOf(track, Len(track.pieces) + 1) = Len(track.ids) + 1
  /\ Len(track.lines) = Len(track.pieces)
  /\ \A k \in DOMAIN track.pieces :
       LET i == FirstOf(track, k)
           n == Len(track.pieces[k])
       IN  /\ track.pieces[k] \in WalkableChoices(track, i, i + n - 1)
           /\ i + n <= Len(track.ids) => WalkableChoices(track, i, i + n) = {}

\* The corner points that a route names, if each road begins where the last one ended.
RouteTurns == reader.files[2]
LineOf(turn) == LET l == RoadsOf(turn.id)[1].line IN IF turn.forth THEN l ELSE Reverse(l)
TruthIsWalked(track) ==
  (\A k \in 1..Len(RouteTurns) - 1 : Last(LineOf(RouteTurns[k])) = LineOf(RouteTurns[k + 1])[1]) =>
    /\ Len(track.lines[1]) = FoldLeft(LAMBDA n, turn : n + Len(LineOf(turn)) - 1, IF RouteTurns = << >> THEN 0 ELSE 1, RouteTurns)
    /\ \A k \in 1..Len(track.lines[1]) - 1 : track.lines[1][k] # track.lines[1][k + 1]

\* What is passed on follows what was read.  A list of ids becomes one connected line
\* whenever a choice of edges with these ids is connected, and else is cut only where
\* no choice goes on, without losing an id; the ground truth of Seattle walks along its
\* roads and repeats no corner; the tracks of the console are numbered by their rows,
\* one track for each row that could be read before the first empty one
\* (edges_list_importer.hpp:181-233, seattle_ground_truth_importer.hpp:113-142,
\* input_importer.hpp:48-115).
RoutesAreFollowed ==
  /\ reader.sort = "list" => \A t \in DOMAIN passed : ListIsFollowed(passed[t])
  /\ reader.sort = "seattle" => \A t \in DOMAIN passed : TruthIsWalked(passed[t])
  /\ reader.sort = "console" /\ status = "done" =>
       /\ { passed[t].id + 1 : t \in DOMAIN passed } =
            { k \in DOMAIN Content : Content[k].sort \in {"points", "line"} /\ \A i \in 1..k : Content[i].sort # "empty" }
       /\ \A t \in DOMAIN passed : \A k \in DOMAIN passed[t].lines[1] : passed[t].lines[1][k].row = passed[t].id + 1
=============================================================================
