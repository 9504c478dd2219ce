------------------------------ MODULE MCStorage ------------------------------
(***************************************************************************)
(* Either the compression of an import, or the life of the files.          *)
(*                                                                         *)
(* The smallest imports that have a vertex without out edges in the        *)
(* middle, a vertex with several, two edges of one id (the two directions  *)
(* of a way), nodes and edges with and without tags, and no vertex at all. *)
(*                                                                         *)
(* The ways in which the three final files can be mapped or dumped: all,   *)
(* none, and one of each against the general option; temporary files       *)
(* mapped and in memory.                                                   *)
(***************************************************************************)
EXTENDS NetworkCompression, NetworkFiles, TLC

E(id, target, line) == [id |-> id, target |-> target, line |-> line]

Tagged == [i \in {"n1", "n2", "n3", "way", "track"} |->
    CASE i = "n1" -> <<"signal">>
      [] i = "way" -> <<"primary", "signal">>
      [] OTHER -> <<>>]

\* The middle vertex has no out edges.
Fork == [ids |-> <<"n1", "n2", "n3">>,
         out |-> << <<E("way", 3, 2), E("track", 2, 3)>>, <<>>, <<E("way", 1, 2)>> >>,
         tags |-> Tagged]
TwoWay == [ids |-> <<"n2", "n1">>,
           out |-> << <<E("way", 2, 2)>>, <<E("way", 1, 2), E("track", 2, 1)>> >>,
           tags |-> Tagged]
\* Fits into a file of 3 and not into one of 2.
Lonely == [ids |-> <<"n1">>, out |-> << <<E("track", 1, 1)>> >>, tags |-> Tagged]
Nothing == [ids |-> <<>>, out |-> <<>>, tags |-> Tagged]

MCImports == {Fork, TwoWay, Lonely, Nothing}

-----------------------------------------------------------------------------
\* Nothing is given; all in memory; temporary files in memory; the graph mapped in spite
\* of the general option, with the lists of the index in memory.
MCGivenOptions == {EmptyFunction, "mapping" :> FALSE, "preparation" :> FALSE,
                   "mapping" :> FALSE @@ "graph" :> TRUE @@ "preparation" :> TRUE @@ "index_build" :> FALSE}

-----------------------------------------------------------------------------
NoCompression ==
    /\ import = Nothing /\ space = 0 /\ pc = "none" /\ tries = 0 /\ retries = 0 /\ at = <<1, 0>>
    /\ tagsFull = FALSE /\ graph = EmptyGraph(0) /\ index = EmptyIndex(0) /\ tags = EmptyTags
    /\ build = [points |-> <<>>, segments |-> <<>>]
NoPreparation == FilesInit /\ given = EmptyFunction /\ format = "other"

Init == (CompressionInit /\ NoPreparation) \/ (NoCompression /\ FilesInit)
Next ==
    \/ pc # "none" /\ CompressionNext /\ UNCHANGED filesVars
    \/ pc = "none" /\ FilesNext /\ UNCHANGED vars
Spec == Init /\ [][Next]_<<vars, filesVars>>
=============================================================================
