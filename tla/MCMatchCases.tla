---------------------------- MODULE MCMatchCases ----------------------------
(***************************************************************************)
(* The tasks that MCCoordinator gives to MatchTask: street networks, lines *)
(* on them and settings.                                                   *)
(***************************************************************************)
EXTENDS Integers, Sequences

Street(s, t, way) == [source |-> s, target |-> t, line |-> way]

\* A street with a corner, and a way round in one direction only.
Block == [points |-> << <<0, 0>>, <<4, 0>>, <<4, 4>> >>,
          edges  |-> << Street(1, 2, << <<0, 0>>, <<4, 0>> >>), Street(2, 1, << <<4, 0>>, <<0, 0>> >>),
                        Street(2, 3, << <<4, 0>>, <<4, 4>> >>), Street(3, 2, << <<4, 4>>, <<4, 0>> >>),
                        Street(3, 1, << <<4, 4>>, <<0, 4>>, <<0, 0>> >>) >>]
\* Two streets that are not connected, one of them one-way.
Apart == [points |-> << <<0, 0>>, <<4, 0>>, <<0, 6>>, <<4, 6>> >>,
          edges  |-> << Street(1, 2, << <<0, 0>>, <<4, 0>> >>), Street(2, 1, << <<4, 0>>, <<0, 0>> >>),
                        Street(3, 4, << <<0, 6>>, <<4, 6>> >>) >>]
\* Two ways of different lengths from one end of a street to the other one.
Lens == [points |-> << <<0, 0>>, <<4, 0>>, <<4, 3>> >>,
         edges  |-> << Street(1, 2, << <<0, 0>>, <<0, -2>>, <<4, -2>>, <<4, 0>> >>),
                       Street(1, 2, << <<0, 0>>, <<4, 0>> >>),
                       Street(2, 3, << <<4, 0>>, <<4, 3>> >>),
                       Street(3, 1, << <<4, 3>>, <<0, 3>>, <<0, 0>> >>) >>]

Track(points) == [points |-> points, times |-> [i \in DOMAIN points |-> 10 * i]]
Timed(points, times) == [points |-> points, times |-> times]

Base == [filterDuplicates |-> TRUE, filterWarps |-> TRUE, warpSpeed |-> 5,
         simplify |-> FALSE, tolerance |-> 1,
         search |-> "combined", kNearest |-> 3, radius |-> 2, radiusLower |-> 2,
         radiusUpper |-> 4, adaptiveRadius |-> TRUE,
         adoptNearby |-> FALSE, adoptReverse |-> FALSE, adoptSiblings |-> TRUE,
         withinEdgeTurns |-> FALSE, aStar |-> FALSE, factor |-> 5,
         joinMerges |-> TRUE, concatenateSkips |-> FALSE, exportFactor |-> 5,
         overrideEdges |-> FALSE, skipErrors |-> TRUE, stateSize |-> 2,
         model |-> "value", maxTime |-> FALSE]
Decided(opts) == { [o EXCEPT !.model = m] : o \in opts, m \in {"value", "policy", "viterbi"} }

\* Every track of three of these points, one of them off the network, with
\* every model.
P == { <<1, 0>>, <<3, 1>>, <<4, 3>>, <<1, 5>> }
Walks == { << Track(t) >> : t \in [1..3 -> P] }
Plain == Decided({ Base, [Base EXCEPT !.factor = -1, !.exportFactor = -1, !.stateSize = 3] })

\* The other settings, on fewer tracks: two of two lines, one with points off
\* the network in a row, and one with a warp and a duplicate.
Far == <<9, 9>>
Special ==
  { << Track(<< <<1, 0>>, <<3, 1>> >>), Track(<< <<4, 3>>, <<1, 0>> >>) >>,
    << Track(<< <<3, 0>> >>), Track(<< <<1, 1>>, <<3, 0>>, <<2, 0>> >>) >>,
    << Track(<< <<1, 0>>, Far, Far, <<4, 3>> >>) >>,
    << Track(<< <<1, 0>>, Far, <<4, 3>>, <<4, 1>> >>) >>,
    << Track(<< <<1, 0>>, <<3, 0>>, <<2, 0>>, <<4, 1>> >>) >>,
    << Timed(<< <<1, 0>>, <<1, 0>>, <<3, 1>>, Far, <<4, 3>> >>, << 1, 5, 20, 21, 40 >>) >> }
Settings ==
  { [Base EXCEPT !.filterDuplicates = FALSE],
    [Base EXCEPT !.filterWarps = FALSE, !.simplify = TRUE],
    [Base EXCEPT !.search = "circle", !.adaptiveRadius = FALSE, !.radius = 1],
    [Base EXCEPT !.search = "nearest", !.kNearest = 1, !.adoptNearby = TRUE],
    [Base EXCEPT !.search = "next", !.kNearest = 1, !.adoptSiblings = FALSE],
    [Base EXCEPT !.adoptSiblings = FALSE],
    [Base EXCEPT !.adoptNearby = TRUE, !.adoptReverse = TRUE],
    [Base EXCEPT !.withinEdgeTurns = TRUE, !.stateSize = 3],
    [Base EXCEPT !.withinEdgeTurns = TRUE, !.factor = 1],
    [Base EXCEPT !.aStar = TRUE, !.factor = -1, !.exportFactor = -1],
    [Base EXCEPT !.concatenateSkips = TRUE, !.exportFactor = -1],
    [Base EXCEPT !.overrideEdges = TRUE, !.joinMerges = FALSE],
    [Base EXCEPT !.skipErrors = FALSE, !.factor = 1] }
Timeouts == Decided({ [Base EXCEPT !.maxTime = TRUE] })

Learnt == [net : {Block}, lines : { << Track(<< <<1, 0>>, <<3, 1>> >>) >>,
                                    << Track(<< <<1, 0>>, Far >>) >> },
           opt : { [Base EXCEPT !.model = "q", !.maxTime = b, !.kNearest = 2,
                                !.adoptSiblings = FALSE] : b \in BOOLEAN }]

MCCases == [net : {Block, Apart}, lines : Walks, opt : Plain]
             \cup [net : {Block, Apart, Lens}, lines : Special, opt : Decided(Settings)]
             \cup [net : {Block}, lines : Special, opt : Timeouts]
             \cup Learnt
=============================================================================
