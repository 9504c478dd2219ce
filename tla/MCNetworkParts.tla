---------------------------- MODULE MCNetworkParts ----------------------------
(***************************************************************************)
(* The parts that networks and routes are made of.  One of them lives in a *)
(* behaviour, what the others do not use stays as it is: a line, a         *)
(* collection of lines, the routes of one call of candidate_route, the     *)
(* files of a network and what is written of it, or the files of routes.   *)
(***************************************************************************)
EXTENDS RichLines, LineCollections, RouteOwnership, NetworkFormats, RouteReaders

NoLine == kind = "none" /\ line = Plain(<< >>)
NoCollection == collection = Bare("none", "none", << >>)
NoRoutes == step = "none" /\ turns = FALSE /\ local = << >> /\ answer = << >>
NoNetwork ==
  /\ input = [format |-> "none", files |-> << >>] /\ nextRow = << 0, 0 >> /\ netVertices = << >> /\ netEdges = << >>
  /\ vertexMap = NoMap /\ edgeMap = NoMap /\ netStage = "none" /\ written = NothingWritten
NoReader ==
  /\ reader = [sort |-> "none", files |-> << >>] /\ nextItem = << 0, 0 >> /\ ids = << >> /\ pieces = << >>
  /\ queue = << >> /\ best = << >> /\ truth = << >> /\ counter = 0 /\ passed = << >> /\ status = "none"
NoPart == NoLine /\ NoCollection /\ NoRoutes /\ NoNetwork /\ NoReader

Init ==
  \/ LinesInit /\ NoCollection /\ NoRoutes /\ NoNetwork /\ NoReader
  \/ NoLine /\ CollectionInit /\ NoRoutes /\ NoNetwork /\ NoReader
  \/ NoLine /\ NoCollection /\ OwnershipInit /\ NoNetwork /\ NoReader
  \/ NoLine /\ NoCollection /\ NoRoutes /\ NetworkInit /\ NoReader
  \/ NoLine /\ NoCollection /\ NoRoutes /\ NoNetwork /\ RouteInit

Next ==
  \/ kind # "none" /\ LinesNext /\ UNCHANGED << collection, ownershipVars, networkVars, routeVars >>
  \/ collection.sort # "none" /\ CollectionNext /\ UNCHANGED << lineVars, ownershipVars, networkVars, routeVars >>
  \/ OwnershipNext /\ UNCHANGED << lineVars, collection, networkVars, routeVars >>
  \/ NetworkNext /\ UNCHANGED << lineVars, collection, ownershipVars, routeVars >>
  \/ RouteNext /\ UNCHANGED << lineVars, collection, ownershipVars, networkVars >>

Spec == Init /\ [][Next]_<< lineVars, collection, ownershipVars, networkVars, routeVars >>

\* What lines and collections of lines keep of what was asked before is what they would
\* compute now (rich_line_data.hpp, eager_rich_line.hpp, multi_rich_line_data.hpp).
CachesAreFresh == KeptIsFresh /\ EagerIsReady /\ CollectionAddsUp
=============================================================================
