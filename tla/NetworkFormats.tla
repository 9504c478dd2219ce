--------------------------- MODULE NetworkFormats ---------------------------
(***************************************************************************)
(* Networks that are not from OSM: the importers of the arc-node, GIS cup, *)
(* Melbourne and Seattle formats, which build a graph row by row from      *)
(* groups of files, and the exporter that writes a graph as OSM data.      *)
(* A file is Missing or a sequence of rows, a point a model of a position. *)
(* `file` in an edge is a ghost: the file and the row it was read from.    *)
(***************************************************************************)
EXTENDS Integers, FiniteSetsExt, SequencesExt, Functions

CONSTANTS
    NetworkInputs,  \* [format, files]
    Imported,       \* graphs as another importer leaves them: [vertices, edges]
    OnewayTags,     \* the ids of edges that are tagged oneway=yes
    Missing

FormatParts(format) ==
  CASE format = "arc_node" -> << "nodes", "arcs" >>
    [] format = "giscup" -> << "nodes", "ends", "geometry" >>
    [] format = "melbourne" -> << "nodes", "arcs", "streets" >>
    [] OTHER -> << "roads" >>
PartIn(format, n) == FormatParts(format)[1 + ((n - 1) % Len(FormatParts(format)))]

IsList(s) == s \in Seq(ToSet(s))
IsLine(s) == IsList(s) /\ s # << >>
IsFile(part, rows) ==
  /\ IsList(rows)
  /\ part \in {"geometry", "roads"} => \A k \in DOMAIN rows : IsLine(rows[k].line)
  /\ part = "roads" => \A k \in DOMAIN rows : rows[k].two \in BOOLEAN

\* Files are lists of rows, the lines in them have points, and edges join vertices.
NetworkAssumption ==
  /\ \A i \in NetworkInputs :
       /\ i.format \in {"arc_node", "giscup", "melbourne", "seattle"} /\ IsList(i.files)
       /\ \A n \in DOMAIN i.files : i.files[n] = Missing \/ IsFile(PartIn(i.format, n), i.files[n])
  /\ \A g \in Imported :
       /\ IsList(g.vertices) /\ IsList(g.edges)
       /\ \A e \in DOMAIN g.edges : {g.edges[e].from, g.edges[e].to} \subseteq DOMAIN g.vertices /\ IsLine(g.edges[e].line)

VARIABLES
    input,        \* the files of one import
    nextRow,      \* << file, row >> that is next
    netVertices,  \* [id, at]
    netEdges,     \* [id, from, to, line, file]
    vertexMap,    \* the vertex of each node id; for arc-node of each number in the file
    edgeMap,      \* the ends of each edge id of the GIS cup format
    netStage,     \* "reading", "threw", "writing", "written"
    written       \* the OSM data: nodes, ways, and the edges that need no way

networkVars == << input, nextRow, netVertices, netEdges, vertexMap, edgeMap, netStage, written >>

NoMap == << >>
NothingWritten == [nodes |-> {}, ways |-> << >>, reversed |-> {}, next |-> 1]

NetworkInit ==
  /\ vertexMap = NoMap /\ edgeMap = NoMap /\ nextRow = << 1, 1 >> /\ written = NothingWritten
  /\ \/ input \in NetworkInputs /\ netStage = "reading" /\ netVertices = << >> /\ netEdges = << >>
     \/ /\ input = [format |-> "other", files |-> << >>] /\ netStage = "writing"
        /\ \E g \in Imported : netVertices = g.vertices /\ netEdges = g.edges

-----------------------------------------------------------------------------
\* Files come in groups; what is left over is not read.

GroupSize == Len(FormatParts(input.format))
LastFile == (Len(input.files) \div GroupSize) * GroupSize
PartOf(n) == PartIn(input.format, n)
ThisFile == input.files[nextRow[1]]
AtRowOf(part) ==
  /\ netStage = "reading" /\ nextRow[1] <= LastFile /\ PartOf(nextRow[1]) = part
  /\ ThisFile # Missing /\ nextRow[2] <= Len(ThisFile)
ThisRow == ThisFile[nextRow[2]]
RowRead == nextRow' = [nextRow EXCEPT ![2] = @ + 1] /\ UNCHANGED << input, written >>
Throw == netStage' = "threw" /\ UNCHANGED << input, nextRow, netVertices, netEdges, vertexMap, edgeMap, written >>

OpenMissing == netStage = "reading" /\ nextRow[1] <= LastFile /\ ThisFile = Missing /\ Throw

\* emplace keeps the first of an id.
Emplaced(map, id, value) ==
  [i \in DOMAIN map \cup {id} |-> IF i \in DOMAIN map THEN map[i] ELSE value]

\* The arc-node importer counts.
KeyOf(row) == IF input.format = "arc_node" THEN Cardinality(DOMAIN vertexMap) ELSE row.id
VertexId(row) == IF input.format = "arc_node" THEN nextRow[2] - 1 ELSE row.id

ReadVertex ==
  /\ AtRowOf("nodes")
  /\ netVertices' = Append(netVertices, [id |-> VertexId(ThisRow), at |-> ThisRow.at])
  /\ vertexMap' = Emplaced(vertexMap, KeyOf(ThisRow), Len(netVertices'))
  /\ RowRead /\ UNCHANGED << netEdges, edgeMap, netStage >>

NewEdge(id, from, to, drawn) == [id |-> id, from |-> from, to |-> to, line |-> drawn, file |-> nextRow]
Straight(from, to) == << netVertices[from].at, netVertices[to].at >>

ReadArc ==
  /\ AtRowOf("arcs")
  /\ IF {ThisRow.from, ThisRow.to} \subseteq DOMAIN vertexMap
     THEN LET from == vertexMap[ThisRow.from]
              to == vertexMap[ThisRow.to]
          IN  /\ netEdges' = Append(netEdges, NewEdge(VertexId(ThisRow), from, to, Straight(from, to)))
              /\ RowRead /\ UNCHANGED << netVertices, vertexMap, edgeMap, netStage >>
     ELSE Throw

KeepEnds ==
  /\ AtRowOf("ends")
  /\ edgeMap' = Emplaced(edgeMap, ThisRow.id, << ThisRow.from, ThisRow.to >>)
  /\ RowRead /\ UNCHANGED << netVertices, netEdges, vertexMap, netStage >>

ReadGeometry ==
  /\ AtRowOf("geometry")
  /\ IF ThisRow.id \in DOMAIN edgeMap /\ ToSet(edgeMap[ThisRow.id]) \subseteq DOMAIN vertexMap
     THEN LET ends == edgeMap[ThisRow.id]
          IN  /\ netEdges' = Append(netEdges, NewEdge(ThisRow.id, vertexMap[ends[1]], vertexMap[ends[2]], ThisRow.line))
              /\ RowRead /\ UNCHANGED << netVertices, vertexMap, edgeMap, netStage >>
     ELSE Throw

\* A node that was not met yet is where the line begins or ends.
Met(vs, map, id) == [vertices |-> vs, map |-> map]
Meet(vs, map, id, at) ==
  IF id \in DOMAIN map THEN Met(vs, map, id)
  ELSE [vertices |-> Append(vs, [id |-> id, at |-> at]), map |-> Emplaced(map, id, Len(vs) + 1)]

ReadRoad ==
  /\ AtRowOf("roads")
  /\ LET one == Meet(netVertices, vertexMap, ThisRow.from, ThisRow.line[1])
         both == Meet(one.vertices, one.map, ThisRow.to, Last(ThisRow.line))
         from == both.map[ThisRow.from]
         to == both.map[ThisRow.to]
         there == << NewEdge(ThisRow.id, from, to, ThisRow.line) >>
         back == IF ThisRow.two THEN << NewEdge(ThisRow.id, to, from, Reverse(ThisRow.line)) >> ELSE << >>
     IN  /\ netVertices' = both.vertices /\ vertexMap' = both.map
         /\ netEdges' = netEdges \o there \o back
  /\ RowRead /\ UNCHANGED << edgeMap, netStage >>

\* The streets are only looked for.  After a pair of arc-node files the numbers start
\* again; the maps of the other importers stay.
\* Mutant: the numbers of the files before are still known.
KeepMap == vertexMap
NextMap == IF input.format = "arc_node" /\ PartOf(nextRow[1]) = "arcs" THEN NoMap ELSE vertexMap

FileDone ==
  /\ netStage = "reading" /\ nextRow[1] <= LastFile /\ ThisFile # Missing
  /\ nextRow[2] > Len(ThisFile) \/ PartOf(nextRow[1]) = "streets"
  /\ vertexMap' = NextMap
  /\ nextRow' = << nextRow[1] + 1, 1 >>
  /\ UNCHANGED << input, netVertices, netEdges, edgeMap, netStage, written >>

EndReading ==
  /\ netStage = "reading" /\ nextRow[1] > LastFile
  /\ netStage' = "writing"
  /\ UNCHANGED << input, nextRow, netVertices, netEdges, vertexMap, edgeMap, written >>

-----------------------------------------------------------------------------
\* osm_exporter.  Points are numbered as they come along the edges; a vertex that is no
\* point of an edge gets the number 0, which [] of the map makes for it.

Drawn == FlattenSeq([e \in DOMAIN netEdges |-> netEdges[e].line])
PointNumber(p) ==
  LET first == Min({ k \in DOMAIN Drawn : Drawn[k] = p })
  IN  Cardinality({ Drawn[k] : k \in 1..first - 1 })
NodeNumber(p) == IF p \in ToSet(Drawn) THEN PointNumber(p) ELSE 0

WriteNodes ==
  /\ netStage = "writing" /\ written.nodes = {} /\ netVertices # << >>
  /\ written' = [written EXCEPT !.nodes =
       { [id |-> NodeNumber(v.at), at |-> v.at] : v \in ToSet(netVertices) }
         \cup { [id |-> PointNumber(p), at |-> p] : p \in ToSet(Drawn) }]
  /\ UNCHANGED << input, nextRow, netVertices, netEdges, vertexMap, edgeMap, netStage >>

\* The edges out of the target of e that run back along it.
Backward(e) == { f \in DOMAIN netEdges : netEdges[f].from = netEdges[e].to /\ netEdges[f].line = Reverse(netEdges[e].line) }

\* A way is marked one-way if it has the tag oneway=yes or no edge runs back along it.  The
\* values -1 and reverse are not written, so that they count as no tag; any other value is
\* written beside the mark.
Way(e) == [refs |-> [k \in DOMAIN netEdges[e].line |-> PointNumber(netEdges[e].line[k])],
           oneway |-> netEdges[e].id \in OnewayTags \/ Backward(e) = {}]

WriteWay ==
  /\ netStage = "writing" /\ (written.nodes # {} \/ netVertices = << >>) /\ written.next <= Len(netEdges)
  /\ LET e == written.next
     IN  written' = IF e \in written.reversed THEN [written EXCEPT !.next = @ + 1]
                    ELSE [written EXCEPT !.ways = Append(@, Way(e)), !.reversed = @ \cup Backward(e), !.next = @ + 1]
  /\ UNCHANGED << input, nextRow, netVertices, netEdges, vertexMap, edgeMap, netStage >>

EndWriting ==
  /\ netStage = "writing" /\ (written.nodes # {} \/ netVertices = << >>) /\ written.next > Len(netEdges)
  /\ netStage' = "written"
  /\ UNCHANGED << input, nextRow, netVertices, netEdges, vertexMap, edgeMap, written >>

NetworkNext ==
  \/ OpenMissing \/ ReadVertex \/ ReadArc \/ KeepEnds \/ ReadGeometry \/ ReadRoad \/ FileDone \/ EndReading
  \/ WriteNodes \/ WriteWay \/ EndWriting

NetworkSpec == NetworkInit /\ [][NetworkNext]_networkVars

-----------------------------------------------------------------------------
\* The group of a file, and where the files say that a node is.
GroupAt(n) == (n - 1) \div GroupSize
Rows(part) ==
  { p \in UNION { { << n, k >> : k \in DOMAIN input.files[n] } : n \in { m \in 1..LastFile : input.files[m] # Missing } } :
      PartOf(p[1]) = part }
RowOf(p) == input.files[p[1]][p[2]]
Named(n, id) ==
  IF input.format = "arc_node"
  THEN { RowOf(p).at : p \in { q \in Rows("nodes") : GroupAt(q[1]) = GroupAt(n) /\ q[2] - 1 = id } }
  ELSE { RowOf(p).at : p \in { q \in Rows("nodes") : RowOf(q).id = id } }
EndNames(p) ==
  IF PartOf(p[1]) # "geometry" THEN << RowOf(p).from, RowOf(p).to >>
  ELSE LET row == CHOOSE q \in Rows("ends") : RowOf(q).id = RowOf(p).id IN << RowOf(row).from, RowOf(row).to >>
NodesOf(p) ==
  IF PartOf(p[1]) = "roads" THEN << {RowOf(p).line[1]}, {Last(RowOf(p).line)} >>
  ELSE [k \in 1..2 |-> Named(p[1], EndNames(p)[k])]

\* No two files give one id to different things, and lines begin and end at their nodes.
FilesAgree ==
  /\ input.format \in {"giscup", "melbourne"} =>
       \A p, q \in Rows("nodes") \cup Rows("ends") : p # q /\ PartOf(p[1]) = PartOf(q[1]) => RowOf(p).id # RowOf(q).id
  /\ \A p, q \in Rows("roads") : \A i, k \in 1..2 : EndNames(p)[i] = EndNames(q)[k] => NodesOf(p)[i] = NodesOf(q)[k]
  /\ \A p \in Rows("geometry") : NodesOf(p) = << {RowOf(p).line[1]}, {Last(RowOf(p).line)} >>

\* Each row of arcs, geometries or roads that was read is an edge between the nodes
\* that the files name, for arc-node those of its own pair of files, where the numbers
\* start again; a two-way road is one edge each way; and edges start and end where their
\* lines do, which is what the graph searches rely on (the read() of
\* arc_node_importer, giscup_importer, melbourne_importer and seattle_importer).
EdgesJoinTheirNodes ==
  netStage = "writing" /\ input.format # "other" /\ FilesAgree =>
    /\ \A p \in Rows("arcs") \cup Rows("geometry") \cup Rows("roads") :
         LET mine == { e \in DOMAIN netEdges : netEdges[e].file = p }
         IN  Cardinality(mine) = IF PartOf(p[1]) = "roads" /\ RowOf(p).two THEN 2 ELSE 1
    /\ \A e \in DOMAIN netEdges :
         LET there == << {netVertices[netEdges[e].from].at}, {netVertices[netEdges[e].to].at} >>
             row == netEdges[e].file
         IN  /\ \/ there = NodesOf(row)
                \/ PartOf(row[1]) = "roads" /\ RowOf(row).two /\ Reverse(there) = NodesOf(row)
             /\ {netEdges[e].line[1]} = there[1] /\ {Last(netEdges[e].line)} = there[2]

\* Who reads the file that was written can drive along the line of every edge, and
\* nowhere else: along a way, or back along a way that is not one-way.  Not so, and left
\* out: an edge that is tagged one-way is written as such a way, and the edge that runs back
\* along it not at all; and an isolated vertex takes the number of the first point
\* (osm_exporter.hpp:50-217).
Drivable ==
  LET at(ref) == CHOOSE p \in { n.at : n \in { m \in written.nodes : m.id = ref } } : TRUE
      lines == { [k \in DOMAIN w.refs |-> at(w.refs[k])] : w \in ToSet(written.ways) }
      both == { [k \in DOMAIN w.refs |-> at(w.refs[k])] : w \in { v \in ToSet(written.ways) : ~v.oneway } }
  IN  lines \cup { Reverse(l) : l \in both }
ReturnHidden ==
  \E e \in DOMAIN netEdges :
    netEdges[e].id \in OnewayTags /\ Backward(e) # {} /\ Way(e) \in ToSet(written.ways)
Isolated == { v \in DOMAIN netVertices : netVertices[v].at \notin ToSet(Drawn) }
ExportIsFaithful ==
  netStage = "written" /\ ~ReturnHidden /\ Isolated = {} => Drivable = { netEdges[e].line : e \in DOMAIN netEdges }

\* A network is what the files say, and a file that is written of it says the network
\* (the importers in io/network and osm_exporter.hpp).
FormatsAreFaithful == EdgesJoinTheirNodes /\ ExportIsFaithful
=============================================================================
