---------------------------- MODULE MCPartsCases ----------------------------
(***************************************************************************)
(* The lines, routes and files that MCTrackReading gives to the parts of   *)
(* MCNetworkParts.                                                         *)
(***************************************************************************)
EXTENDS Integers, Sequences

CONSTANT Missing   \* in place of a file that is not there

\* Three points of a corner; up to three of them in a row, repeated or not, from the first
\* one, or two from the middle one; from the last one all is alike.
Corner == { << 0, 0 >>, << 1, 0 >>, << 1, 1 >> }
MCLines == { l \in UNION { [1..n -> Corner] : n \in 0..3 } : l = << >> \/ l[1] = << 0, 0 >> \/ (l[1] = << 1, 0 >> /\ Len(l) < 3) }
MCOthers == { << << 0, 0 >>, << 1, 0 >>, << 1, 1 >> >> }

\* Lines that attach or not, turn back, repeat a point or have only one.
A == << 0, 0 >>
B == << 1, 0 >>
C == << 1, 1 >>
MCParts ==
  LET lines == { << B >>, << A, B >>, << B, A >>, << B, B, C >>, << A, B, C >> }
  IN  UNION { [1..n -> lines] : n \in 0..2 }

\* Lines without a repeated point.
MCMovingLines ==
  { l \in UNION { [1..n -> Corner] : n \in 2..3 } : \A i \in 1..Len(l) - 1 : l[i] # l[i + 1] }

-----------------------------------------------------------------------------
\* Two groups of files, in which numbers and ids start again or go on.
Node(id, at) == [id |-> id, at |-> at]
Arc(id, from, to) == [id |-> id, from |-> from, to |-> to]
Geometry(id, drawn) == [id |-> id, line |-> drawn]
Road(id, from, to, two, drawn) == [id |-> id, from |-> from, to |-> to, two |-> two, line |-> drawn]

NodeFiles == { << Node(0, A), Node(1, B) >>, << Node(0, C), Node(1, A), Node(0, B) >>, << Node(2, B), Node(3, C) >>, Missing }
Arcs == { Arc(1, 0, 1), Arc(1, 1, 0), Arc(2, 2, 3), Arc(3, 2, 0) }
ArcFiles == UNION { [1..n -> Arcs] : n \in 0..2 }
EndFiles == { << Arc(1, 0, 1) >>, << Arc(1, 0, 1), Arc(2, 1, 0) >>, << Arc(3, 2, 3) >>, << Arc(3, 2, 0) >> }
Shapes == { << Geometry(1, << A, C, B >>) >>, << Geometry(1, << A, B >>), Geometry(2, << B, A >>) >>, << Geometry(3, << B, C >>) >> }
Roads == { Road(id, 0, 1, two, << A, B >>) : id \in {1, 2}, two \in BOOLEAN }
         \cup { Road(3, 1, 2, two, << B, A, C >>) : two \in BOOLEAN } \cup { Road(4, 2, 2, TRUE, << C, A, C >>) }

Arced(format, more) ==
  { [format |-> format, files |-> << n, a >> \o more] : n \in NodeFiles, a \in ArcFiles }
  \cup { [format |-> format, files |-> << n, << Arc(1, 0, 1) >> >> \o more \o << m, a >> \o more] : n, m \in NodeFiles, a \in ArcFiles }
MCNetworkInputs ==
  Arced("arc_node", << >>) \cup Arced("melbourne", << << >> >>) \cup Arced("melbourne", << Missing >>)
  \cup { [format |-> "arc_node", files |-> << << Node(0, A) >>, << >>, << Node(0, A) >> >>] }
  \cup { [format |-> "giscup", files |-> << n, e, s >>] : n \in NodeFiles, e \in EndFiles, s \in Shapes }
  \cup { [format |-> "giscup", files |-> << << Node(0, A), Node(1, B) >>, << Arc(1, 0, 1) >>, << Geometry(1, << A, B >>) >>,
                                            n, e, s >>] : n \in NodeFiles, e \in EndFiles, s \in Shapes }
  \cup { [format |-> "seattle", files |-> f] : f \in UNION { [1..n -> { << r >> : r \in Roads } \cup { << r, s >> : r, s \in Roads }] : n \in 1..2 } }

\* Networks with a vertex for each corner; an edge is tagged one-way or not, there or back.
Edge(id, from, to, drawn) == [id |-> id, from |-> from, to |-> to, line |-> drawn, file |-> << 0, 0 >>]
ImportedEdges ==
  UNION { { Edge(id, 1, 2, << A, B >>), Edge(id, 2, 1, << B, A >>), Edge(id, 2, 1, << B, C, A >>), Edge(id, 2, 2, << B, C, B >>) } :
          id \in {1, 2} }
MCImported ==
  { [vertices |-> [k \in 1..n |-> Node(k, << A, B, C >>[k])], edges |-> e] :
      n \in 2..3, e \in UNION { [1..m -> ImportedEdges] : m \in 0..3 } }

-----------------------------------------------------------------------------
\* A street of two roads in both directions, and an id of two edges that do not attach.
Walk(id, drawn) == [id |-> id, line |-> drawn]
MCNetwork == << Walk(1, << A, B >>), Walk(1, << B, A >>), Walk(2, << B, C >>), Walk(2, << C, B >>), Walk(3, << A, C >>) >>
IdLists == UNION { [1..n -> { [id |-> i] : i \in 1..4 }] : n \in 0..4 }
RouteRows == UNION { [1..n -> { [id |-> i, forth |-> forth] : i \in 1..4, forth \in BOOLEAN }] : n \in 0..3 }
RoadFile == << [id |-> 1, two |-> TRUE, line |-> << A, B >>], [id |-> 2, two |-> FALSE, line |-> << B, A, C >>],
               [id |-> 3, two |-> TRUE, line |-> << C, A >>], [id |-> 1, two |-> TRUE, line |-> << C, B >>] >>
Wkt == { [sort |-> s, size |-> 2] : s \in {"points", "line", "bad", "empty"} }
MCRouteInputs ==
  { [sort |-> "list", files |-> << f >>] : f \in IdLists } \cup { [sort |-> "list", files |-> << << [id |-> 1] >>, f >>] :
      f \in { << >>, << [id |-> 1], [id |-> 2] >> } }
  \cup { [sort |-> "seattle", files |-> << RoadFile, r >>] : r \in RouteRows } \cup { [sort |-> "seattle", files |-> << RoadFile >>] }
  \cup { [sort |-> "console", files |-> << f >>] : f \in UNION { [1..n -> Wkt] : n \in 0..4 } }
=============================================================================
