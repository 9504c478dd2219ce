# Map Matching 2: TLA+ models, model checking and proofs

This directory holds TLA+ modules of Map Matching 2 and of the HD-map tools that live in the same
repository, the TLC configurations that check them on small instances, and TLAPS proofs about the
thread-pool front end that every command of the program runs on, the match command on top of it, the
editable graph, the helpers that retry allocations during an import, the import of an OSM file, the
compression of a network into files that fill up, the life of those files over several processes,
the other importers of networks and the OSM exporter, and the HD-map tools: the reading of a
recorded drive, the search for shortest paths in the road graph, the matching of a drive to that
graph, the center line of a drive and the report of the workflow. Paths below are relative to
`src/library/` of the repository unless they begin with `app/` or `tools/`.

    tlc -workers 2 -config Coordinator.cfg MCCoordinator.tla     # any of the cfg files
    tlapm CoordinatorProofs.tla                                  # and the other modules of proofs:
                                                                 # MatchPipelineProofs, ListTheorems,
                                                                 # AdjacencyListProofs, OsmImportProofs,
                                                                 # NetworkCompressionProofs,
                                                                 # NetworkFormatsProofs, RoadWorkflowProofs

`PROJECT.json` names for each cfg its module, for each definition the lines of code it translates,
for each property a mistake in the code that would break it, and for each hazard the properties
about it.

## 1. The system

`map_matching_2` reads a road network and GPS tracks, finds for each track the most likely path
through the network, and writes results. It has three commands: `--prepare` imports a network,
cleans it and builds an index; `--match` matches tracks in parallel; `--compare` compares matches
with a ground truth. A second, smaller part of the repository reads recorded drives (GPS and LiDAR),
matches them to a road graph and derives centerlines.

| Component | State | Operations | Interacts with |
|---|---|---|---|
| `util::coordinator` (`include/util/coordinator.hpp`) | bounded queue, semaphore, coordinator thread, pool | `queue`, `start`, `stop`, `join`, destructor, `execute` (virtual) | base class of the matcher, the comparator and each result sink; its callers block on the queue |
| matcher and match command (`include/matching/matcher.hpp`, `app/include/app/match.hpp`) | three sinks, settings, network | `match` (= `queue`), `execute` = match a track and pass the result on, destructor | reads from importers; passes to the sinks |
| result sinks (`include/io/results/**`) | queue, stream, `_header_written`, totals | `pass` (= `queue`), `execute` = write rows, destructor prints totals | called by the pool threads of the matcher |
| match task (`matcher.hpp`, `match_impl`; `include/matching/**`) | one line at a time: prepared track, candidates, state-action table or trellis, route cache of the thread, time | set, search, learn, result, for each line; cut short by the time-out | inside one `execute` of the matcher |
| candidate search and routing (`include/matching/algorithm/**`, `include/geometry/network/**`) | edge sets per point; queue and labels of a search | circle, k nearest, combined; adoption; Dijkstra, A*; join, trim and merge of routes | called by the match task; reads the compressed network |
| environments and learners (`include/environment/**`, `include/learning/**`) | table of states, actions, rewards; values; policy | step, value and policy iteration, Q-learning, Viterbi | within the match task |
| rich lines and routes (`include/geometry/rich_type/**`, `.../route/route.hpp`) | points; lengths, azimuths and turns that were computed once | cut, thin out, merge, join, convert, clone | everywhere; a route refers to lines of others |
| `graph::adjacency_list` (`include/graph/adjacency_list.hpp`) | list of vertices, list of edges, out and in lists at each vertex, stored indices | add, remove, clear, reindex, copy | edited by importers and import passes, in memory or in a mapped file |
| importers of networks (`include/io/network/**`, `include/io/helper/osm_handler_helper.hpp`) | container of nodes, or maps from ids to vertices | one row, node or way at a time | call `graph_helper` or the graph itself |
| import passes (`include/geometry/network/network_import.hpp`) | the network; the restart mark of `simplify` | simplify, dead ends, unconnected components, duplicate nodes and edges | run one after another by `app/include/app/prepare.hpp`; `graph_helper` restarts `simplify` when a mapping is full |
| graph and tag helpers (`include/io/helper/**`, `include/io/memory_mapped/utils.hpp`) | `vertex_index_map`, tag dictionaries and maps, a flag `_critical` each | insertion with growth and retry, merging of tags, conversion to the compressed graph, finalize | under the importers and `simplify`; on top of graph and storages |
| storages (`include/io/memory_mapped/storage/**`) | file, allocator, pointers to named objects | create, open, grow, drop and grow, shrink, flush, remove; dump of in-memory ones | under the helpers; their files are what one `prepare` leaves for any number of `match` processes |
| track importers and splitter (`include/io/track/**`) | the track being assembled; the file and row | row by row; split by time; edge lists through the network | feed `matcher.match` and the comparator |
| comparator (`src/compare/**`, `include/geometry/algorithm/compare.hpp`) | two maps of entries waiting for their partner; two lists of segments | match, compare, finish; comparison of two lines | a coordinator, fed by two readers |
| options (`app/src/app/options.cpp`, `app/src/app/mode.cpp`) | two variable maps | parse for the mode, parse for the command, correct, call | starts the commands |
| HD-map tools (`include/geometry/road_graph/**`, `src/geometry/**`, `src/io/kitti/**`, `tools/**`) | frames of a drive, road graph, trellis, clusters, report | load, import, shortest path, match, centerline, report | one after another in `kitti_osm_workflow` |

What is hard about it:

* **Concurrency.** A match involves the main thread, the matcher's coordinator thread and pool, and
  two threads for each sink. They meet in bounded queues, a counting semaphore and the pool's own
  queue. The owner may stop, join or destroy while others wait.
* **Shutdown order.** The matcher joins itself before it destroys its sinks only because `match.hpp`
  calls `join()` before `reset()`; the destructors alone have another order.
* **Partial failure.** A match that throws between two sinks, a full disk, an importer that throws,
  an allocation that fails in the middle of `add_edge`, and a `simplify` that is called again after
  the file has grown.
* **Restart.** Any insertion into a mapped file may find it full. Nested functions are then left by
  an exception, the file grows and comes back at another address, and the outermost function of one
  helper starts over. The compressed graph is instead dropped and made anew in double size.
* **Crash.** `prepare` may be killed between its files; a later `match` must not combine what is
  left with the files of another call.
* **Stale state.** Iterators taken before a round of a loop removes elements, indices in a list that
  shrinks, routes in a cache that were found under another limit, totals of a line kept after it was
  cut, references to the lines of a route that has ended.
* **Long chains of small rules.** Candidates, skips, turns within an edge, joins and merges decide
  together whether a match is connected; nested loops that erase and restart decide whether a
  comparison counts every segment once; options follow their groups in an order.

## 2. Modules

| Modules | Model | Relation |
|---|---|---|
| `TaskService` | what an owner of a coordinator may rely on, without queue, semaphore and pool | abstract |
| `Coordinator` | `util::coordinator` | implements `TaskService` (`ServiceRefined`) |
| `CoordinatorProofs` | - | theorems about `Coordinator` |
| `MatchPipeline` | reader, matcher, three sinks, shutdown | extends `TaskService`: the matcher is taken as the service |
| `MatchPipelineProofs` | - | theorems about `MatchPipeline` |
| `ListTheorems` | - | induction and recursion over numbers and lists, for the proofs |
| `AdjacencyList` | the editable graph | |
| `AdjacencyListProofs` | - | theorems about `AdjacencyList` |
| `NetworkImport` | the import passes | extends `AdjacencyList` and composes its operations |
| `NetworkStore` | what an importer may rely on: whole vertices, whole edges, their tags | abstract |
| `ImportStore` | `graph_helper`, `tag_helper`, `retry_alloc` | extends `AdjacencyList`; implements `NetworkStore` (`StoreRefined`); `ImportStoreSpec` is what any importer may ask of it |
| `OsmImport` | the OSM handler and its container of nodes | extends `ImportStore`, whose calls it makes |
| `OsmImportProofs` | - | theorems about `ImportStore`, and about `OsmImport`; extends `AdjacencyListProofs` |
| `NetworkCompression` | from the adjacency list to the compressed graph, tags and indices in files that fill up | |
| `NetworkCompressionProofs` | - | theorems about `NetworkCompression` and `NetworkFiles` |
| `NetworkFiles` | the files of a network over the life of several processes | |
| `Lines`, `Routes`, `Router`, `CandidateSearch`, `MarkovDecision` | the operators of the matching of a track: lines, routes, shortest paths and the cache, removal of defects and candidates, environments and learners; each extends the one before | pure; constants and recursive operators only |
| `MatchTask` | the matching of one track as a state machine, with reference definitions and properties of a match | extends `MarkovDecision` |
| `RichLines`, `LineCollections` | what one line, and what several lines together, keep of their computed values | `RichLines` extends `Lines`, `LineCollections` extends `RichLines` |
| `RouteOwnership` | which lines a route owns | extends `Routes` |
| `NetworkFormats` | the four other network importers, the OSM exporter | |
| `NetworkFormatsProofs` | - | theorem about `NetworkFormats` |
| `RouteReaders` | edge lists, Seattle ground truth, console input | |
| `TrackReading` | the time splitter; csv and gpx importers up to the matcher and the comparator | |
| `LineComparison` | the comparison of two lines | |
| `CommandOptions` | from the command line to the call of a command | |
| `KittiSequence`, `RoadMatcher`, `Centerlines`, `RoadWorkflow` | the HD-map tools | `RoadWorkflow` composes the others |
| `RoadWorkflowProofs` | - | theorems about `KittiSequence`, and about the road graph, its searches, the matching, the center line and the report in `RoadWorkflow` |
| `MCCoordinator`, `MCMatchPipeline`, `MCAdjacencyList`, `MCOsmImport`, `MCStorage`, `MCNetworkParts`, `MCRoadWorkflow`, `MCTrackReading` | instances for TLC | |
| `MCMatchCases`, `MCPartsCases` | the networks, tracks, lines, routes and files that `MCCoordinator` and `MCTrackReading` give to the parts they join | constants only |

Operators under a comment that begins with "Mutant:" are variants of the definition that follows
them, each with a plausible mistake in it. No specification uses them. They document which mistake
each property would catch.

`MCCoordinator`, `MCOsmImport`, `MCStorage`, `MCNetworkParts` and `MCTrackReading` join
specifications that share no variable: each behaviour picks one of them in its initial state, and
the variables of the others keep the value they have before anything happened. `MCCoordinator` joins
the coordinator and the match task, with the fairness of both; `MCOsmImport` the import of files and
the passes over a network that was imported; `MCStorage` compression and files; `MCNetworkParts`
lines, collections, routes and formats, which `MCTrackReading` joins with tracks, comparisons,
options and drives. The parts do not interact, so nothing is lost by this.

### 2.1 Coordinator

A step is one call on a shared object. `caller[t]` is the call `queue(t)`: accepted at once, blocked
on a full queue (`Wait`), dropped without notice by a closed queue (`Drop`; the code ignores the
returned status), or refused with `sync_queue_is_closed` when it was blocked and the queue was
closed (`Refuse`). `pc` is the coordinator thread in `_start()`. Its loop condition `not
_queue.empty() or not _queue.closed()` is two reads and hence two steps, `TestEmpty` and
`TestClosed`. The loop then pulls, acquires a permit and submits a closure to the pool. A pool
thread takes the closure, executes it (it returns or throws, both are caught) and releases the
permit; taking it from the pool and calling `execute` are one step, since nothing that another
thread sees happens between them, so the model orders the takes and not the beginnings of `execute`.
`owner` follows `start`, `stop`, `join` and the destructor: the destructor closes the queue, joins
the coordinator thread if there is one, and then the members go, the pool first.

`order`, `taken` and `late` are history: the order of acceptance, the order in which the pool
threads took the tasks, and the tasks that were accepted between the two reads. No guard reads them.

The constant `SequentialOwner` says whether `stop()` may be called while other threads still call
`queue()`. The readers of `match` and `compare` are sequential; results are passed to a sink by
several threads, but `~matcher` stops a sink only when it has joined itself or after an exception.

### 2.2 MatchPipeline

The matcher is a `TaskService` whose tasks are the tracks. Begin, end, stop and join of a track are
the actions of the service, extended by what happens inside `execute`: `stage[t]` walks through
`_match_impl` (match, pass to the printer, to the exporter, to the candidates exporter, reset the
caches), or throws at any of these points. Each sink has a bounded queue (`Room`), one worker that
writes rows (`Take`, `WriteRow`), a header that is written with the first row, and a stream that may
fail for good (`DiskFails`). The main thread reads tracks, and then stops, joins and destroys; or an
importer throws (`ReaderThrows`) and the destructors run without `stop()` and `join()`: first the
sinks are stopped and joined by `~matcher`, then its members are destroyed in the reverse order of
their declaration, and only then does `~coordinator` close the matcher's own queue and wait for the
workers. `console` selects whether only the printer is used; it is chosen in the initial state.

A sink is itself a coordinator. Here it is one queue of capacity `Room` and a worker that may leave
tasks in the queue when it is stopped, which is what `StrandedOnlyInWindow` of `Coordinator` allows.
`Room` stands for the 1024 tasks of its queue, the 1024 its semaphore lets into the pool, and the
one between them.

### 2.3 AdjacencyList

A graph is a record: the two lists, the stored indices, source and target of each edge and the out
and in lists at each vertex. Vertices and edges are addresses, which are used again after removal.
The operations are operators from graph to graph, so that a caller can compose several in one step.
`EdgeFails` is `_add_edge` with an allocation that throws after the first `n` of the two or three
insertions, and the tidy functions that undo them. `dirty` is history: something was removed since
the last `reindex()`.

### 2.4 NetworkImport

One step is one round of the loop of a pass. The iterator to the next vertex is taken before the
round edits the graph, so `cursor` is state, and following a stale one leads to the control point
"undefined". Lines are sequences of points, so that merging two edges and moving an edge to another
vertex have something to preserve. `SimplifyFails` is a `bad_alloc` in the k-th merge at a vertex:
tags and line are merged before edges are touched, and reserving memory for the line comes before
any point is moved, so the first k-1 pairs are merged and the k-th is as it was; `retry_alloc` grows
the file and calls `simplify()` again, which skips the vertices before the marked index. Each
initial state is a network in the shape the importers produce (straight edges between the
coordinates of their ends) together with a call of one pass.

The search of the pass for unconnected components follows out edges only, as the code does, so what
it finds depends on where it starts; `Found` says which vertices a search finds, and
`PassesComplete` that the largest find, and nothing else, is kept. `WeakComponentKept` is what the
help text promises instead, and does not hold. The pass for duplicate nodes keeps a map from
coordinates to the node that stands for them, and forgets an entry when that node could be merged
away by its degree: `NoDuplicateNodes` is the promise, which the run `import_duplicates` refutes,
and `DuplicatesForgotten` in `PassesComplete` says what is left of it: none is left without
simplify, and with it only beside a node whose entry was forgotten.

### 2.5 ImportStore

`control.stack` holds the active calls of `retry_alloc`, innermost first: of which helper, whether
it found `_critical` unset and therefore catches (`guarded`), how often it tried, and the control
point where its function begins. `Enter`, `Leave` and `Caught` are the three ways through
`retry_alloc`. `Unwind` takes an exception through one call: a guarding call grows its file and
starts over, or rethrows after the last try; any other call is simply left. The work between is one
action per place where memory is needed, with a second action for its failure (`InternThrows`,
`RecordFails`, `StoreEdgeFails`, ...), which performs the clean-up of the code's `catch (...)`
blocks.

`ref` in a call says whether its function holds a reference into its file: the map that
`clone_map_tags` takes before it clones, the two descriptors that `add_edge` looks up. Growth makes
the references of outer calls into that file `stale`. Lengths of lines, strings and the layout of
files are left out; every allocation may fail at any time, which covers all of them.

Two things differ by overload: tags of a vertex are cloned from the importer's own tag helper and
need the map first; tags of an edge come from the way and take the map last.

### 2.6 OsmImport

`ReadNode` and `ReadWay` are what the reader calls, in any order, since files may overlap and
repeat. The loops of `way()` are steps: `WayNode` looks a node up and calls `Call`, the store runs,
`VertexAdded` writes the returned index into the container. `WayPair` computes the edges that a pair
of neighbours needs, `WayEdge` asks for them one by one. `LowerBound` is the search as the standard
library does it, so that it may miss an element of an unsorted container. After the files,
`Simplify` merges tags as the import passes do. A store that gives up ends the import: `way()` is
`noexcept`.

`Described` says, independently of the loops, which edges a way asks for: a one-way one in each
segment, a reversed one-way the opposite one, and any other way both, also one that matches only the
filter of reversed ways. `NetworkFollowsFile` holds for all of these; that the last kind should be
reversed as well is `OnlyOpposingKept`, which the run `osm_reverse` refutes.

### 2.7 NetworkCompression

The import is a constant: vertices with their out edges and tags. `ConvertVertex`, `ConvertEdge`,
`Finalize`, `ListAll`, `BuildPointsIndex` and `BuildSegmentsIndex` are the steps of `_finish_import`
and `_finish_preparation`, each with the failure that a full file gives it. What follows differs by
file, as in the code: the graph and the index are dropped and made anew with twice the size
(`Dropped`), at most `MaxRetries` times; the tags grow. `MaxRetries` is the code's `log2` of an
integer quotient, with both outcomes that the conversion of minus infinity can have. `Die` may come
at any point.

### 2.8 NetworkFiles

`todo` is what is left of the program of `prepare`: the sequence of calls on eight storages that the
options yield (`Program`: `CreateNetworkImport` ... `FinishPreparation`, each made of the
`Constructor`s and `Destructor`s of storages and of what happens in between). Each call is one or
two steps on `disk`, where a file is an identity and named objects. A removed file stays as long as
a process maps it. `Fail` unwinds the storages (`Unwound`), as `mode()` catches what the command
throws; `Kill` leaves the files. `OpenNext` is a match process opening one of the three files,
`Refuse` its exception. An object is which preparation made it and whether it is whole.

### 2.9 Matching a track

The modules from `Lines` to `MarkovDecision` translate the algorithms as operators, and `MatchTask`
runs them one phase at a time: `SetTrack`, `Search`, then one action per sweep or episode of the
learner, then `Result`. The route cache is state, since it outlives a line; every operator that may
search returns the cache along with its answer. `Checks` is the look at the clock that the code
takes between the steps of each phase: it may find the time up at any of them. `Episode` takes for
Q-learning any actions that the generator could have led to; the numbers of its table are left out.

The last section of `MatchTask` compares the results with definitions that know nothing of queues,
caches and sweeps: `Distance` over all ways, `Optimal` by going through everything the table allows,
`MostLikely` over all sequences of edges.

### 2.10 Lines, routes and who owns them

A line in `RichLines` is its points and what it has kept: three totals, and one length and one
azimuth per segment. `RichLines` lets any sequence of reads and edits happen to a lazy or an eager
line; `LineCollections` does the same with a `multi_rich_line` and a `route`. The ghosts `kept` and
`stale` name the totals that the code leaves as they were although the line has changed (see section
4). Assignments are of all the kinds that the repository's tests instantiate: of a plain line to a
lazy one, which keeps what it knew of its old points (`AssignPlain`); of a lazy to an eager one,
which puts the entries of the other behind its own (`AssignLazy`); and of an eager to a lazy one.
`AppendRefused` is a merge of lines that do not attach: the entries of the other line are taken over
before the points are, and then the merge throws. `mixed` marks a line after the two assignments and
the refused merge that leave it inconsistent: it is not used any more, and `KeptIsFresh` is not
claimed of it. In `RouteOwnership` each line of a route has an owner; the steps are the end of
`candidate_route`: merge, trim at the start, trim at the end, return (the local routes end), clone.

### 2.11 Formats of networks and routes

`NetworkFormats` reads groups of files row by row (`ReadVertex`, `ReadArc`, `ReadGeometry`,
`ReadRoad`, `OpenMissing`, `FileDone`), with the maps from ids to vertices that some formats keep
from group to group and others do not, and writes an imported network as OSM (`WriteNodes`,
`WriteWay`). `RouteReaders` turns lists of edge ids into lines through the network: the
breadth-first search for the longest prefix that connects (`PopPath`, `TakePath`), the glueing, and
the restart behind it.

### 2.12 Tracks, comparison, options

`TrackReading` reads rows of one or two files (`ReadPoint`, `ReadLine`, `ReadTrack`), passes a track
on when the id changes or at the end (`BeginFlush`, `PassTrack`, `EndFlush`), splits it for the
matcher or pairs it for the comparator (`ReadMatches`, `Finish`). `LineComparison` prepares two
lists of segments and then walks: `WalkTogether`, `SetAside`, `WalkApart`, then `PairTurns`,
`PairAdded`, `PairMissed`, `PairErrors`. `CommandOptions` is one call of the program: `ParseMode`,
`SelectMode`, `ParseCommand`, `CorrectCommand`, `Work`.

### 2.13 HD-map tools

`KittiSequence` goes through two directories in the order of the file names and pairs what could be
read; the time of a frame is that of its place in the list of files, which is that of the number in
its name only as long as no file is missing. `RoadMatcher` consumes a road file line by line, builds
the adjacency and runs Dijkstra's algorithm one `PopQueue` at a time; then it finds candidates,
makes the forward pass and the backtrace, whose read beyond the end of an empty vector is the step
`ReadBeyond`: nothing is claimed after it. `Centerlines` clusters and chains. `RoadWorkflow`
composes them as the tool does, up to the numbers of its report.

## 3. What the runs check

| Run | Instance | Shows |
|---|---|---|
| `coordinator` | 3 tasks, 2 workers, queue of 2, owner at will, fair threads; and a match task on three street networks: all tracks of three of four points with each learner, and chosen ones with each setting; time-outs; Q-learning | types, permits, barrier, the window, refinement of `TaskService`; owner and accepted tasks come to an end; best plans and sequences, sound cache, connected matches on the network, every task ends |
| `coordinator_lost` | 2 tasks, sequential owner | counterexample: an accepted task is never executed |
| `pipeline` | 2 tracks, 2 threads, failing disks, importers and matches that throw, console or all sinks | every result reaches living sinks; files are whole; nothing runs at the end |
| `graph` | 3 vertices, 3 edges, all three kinds of graph | lists agree; failed additions change nothing |
| `osm_import` | 4 nodes, 4 ways, 2 ways read, every allocation may fail; and each pass on all networks of 4 vertices with up to 4 edges for simplify, 3 for the other passes (dead ends: 4 along a road of 4 nodes) | the network is what was read; tags, references; refinement of `NetworkStore`; every pass does its work and keeps roads and routes; simplify also when it is restarted |
| `osm_reverse` | the files of `osm_import` | counterexample: a way that is only reversed becomes edges in both directions |
| `import_dead_ends` | 3 vertices, up to 3 edges, loops too | counterexample: a stale iterator is used |
| `import_duplicates` | 3 nodes at one place and a fourth, up to 3 edges between them | counterexample: a duplicate node stays |
| `storage` | four small imports in files of 1, 2, 4 on disks of 0, 1, 7, 40; two preparations, a kill, a failure, a reader | files marked as complete are; a reader gets one preparation whole or refuses |
| `tracks` | rows, truths and matches; pairs of lines; calls of the program; drives and road files; lines of up to 3 of 3 points, collections of up to 3 lines, routes of up to 2 edges, groups of files, lists of ids | see the properties of the modules it joins |
| `parts_cut` | the instance of `tracks` | counterexample: a track cut in front of a line loses points |
| `road_gap` | the drives of `tracks` | counterexample: the backtrace reads a candidate that is not there |

Properties, by module (each is stated in words above its definition):

* `Coordinator`: `PermitConservation`, `DrainedAtJoin` (join is a barrier), `StrandedOnlyInWindow`
  (a task is left behind only in the window between the two reads), `ServiceRefined`, and the
  liveness property `WorkGetsDone`: the owner returns, and what was accepted is executed but for the
  window.
* `MatchPipeline`: `ResultsReachSinks` (no use of destroyed sinks unless an importer threw, a row of
  each match in every sink, in one order) and `OutputIsWhole` (one header, whole blocks of rows;
  nothing runs when the command has ended).
* `AdjacencyList`: `Linked`, `FailedAddChangesNothing`.
* `NetworkImport`: `RoadsAndRoutesKept`, `PassesComplete`; `NoStaleIterator` and `NoDuplicateNodes`,
  which are violated.
* `ImportStore`: `TablesInvertible`, `NoStaleReference`, `StoreRefined`. `OsmImport`:
  `NetworkFollowsFile`; `OnlyOpposingKept`, which is violated.
* `MatchTask`: `CacheHoldsPaths`, `PolicyOptimal`, `NoUnexplainedGap`, `MatchFollowsNetwork`, and
  the liveness property `TaskEnds`.
* `NetworkCompression`: `FilesAreWhole`, `GivesUpOnlyWhenFull`. `NetworkFiles`:
  `ReadsOnePreparation`, `StoragesAreSound` (no pointer into a mapping that is gone, nothing
  temporary left).
* `MCNetworkParts`: `CachesAreFresh`, over `RichLines` and `LineCollections`. `RouteOwnership`:
  `LinesOutliveRoute`. `NetworkFormats`: `FormatsAreFaithful`. `RouteReaders`: `RoutesAreFollowed`.
* `TrackReading`: `TracksAreWhole`, `PartsKeepTheTrack`; `PartsLoseNothing`, which is violated.
  `LineComparison`: `LinesStayWhole`, `SegmentsAccounted`. `CommandOptions`: `OptionsRespected`.
* `KittiSequence`: `FramesKeepTheirTime`. `RoadMatcher`: `PathIsShortest`, `MostLikelyChoice`;
  `BacktraceHasCandidate`, which is violated. `Centerlines`: `CenterlineIsSound`. `RoadWorkflow`:
  `RoadsAreImported`, `ReportIsConsistent`.

### Bounds, and why they are enough

* Coordinator: two workers overtake each other, and with `QueueSize = 2` permits and workers are
  both contended; three tasks fill the queue while one is with the coordinator thread. The bound on
  the backlog and the order of starting, which want more tasks, are proved for all sizes instead.
* Pipeline: with `Room = 1` every sink fills up; with two tracks and two threads results race for a
  sink. The tracks are interchangeable and form a symmetry set. The run has no liveness property; it
  checks for deadlock, and every step moves some thread forward.
* Graph: three vertices and three edges allow parallel edges, loops, and a vertex with neighbours on
  both sides that share edges; every sequence of operations on them is explored.
* Import: four vertices are needed for a chain whose two inner vertices are both merged away, for a
  simplify that fails at one of them, and for a component that is larger than another. Networks
  without self-loops are used where counterexamples with self-loops are not the subject; the
  violation run includes them. Edges are created in every order; the field `edges` of a member of
  `Calls` bounds their number for its pass. Three are enough to tell equal edges from a different
  one, for two components of different size, and for parallel edges into a dead end; four let two
  two-way roads end one after the other.
* OSM: four nodes are enough for a binary search that goes wrong in an unsorted container. Two
  readings of a way repeat it, or let nodes come between a way and the next, so that the container
  is sorted again after indices were given. The ways share keys and values, so that interning finds
  some entries and adds others. The number of failures has no bound of its own: each level of
  `retry_alloc` that guards gives up after `Retries + 1` of them. The run may stop: its last state
  is the end of the import.
* Match: `Block` has a corner and a way round in one direction only, `Apart` two streets without a
  connection, `Lens` two ways of different length between two vertices. Three points are enough for
  a route that goes through an inner candidate and for a skip; two lines for a cache that is used
  again. `MaxEpisodes` is 1: one more episode visits the same states with a larger set of tried
  actions.
* Storage: files of 1, 2 and 4 double twice; 0 and 1 leave no retry (0 is where the code's number of
  retries is undefined), 7 and 40 leave some; `ManyRetries` stands for the huge number that an
  undefined conversion may give. A second preparation follows one that was killed, failed or ended.
  One reader is enough, as readers do not write.
* Network parts: three corner points give turns of every kind, a line of three of them has a segment
  on each side of an inner point, and those that begin at another corner are the same line moved or
  turned. Two edges are enough for a route that is trimmed at both ends. Files are those of one or
  two groups, with missing files, unknown ids and ids met twice.
* Tracks: times wrap at `TimeRange` = 16 and a gap is 3 or more, so that times that are equal, out
  of order, missing and far apart all occur in three rows. Compared lines are those of a 10 m street
  with a stub and a point 0.2 m beside it, with tolerances of 0.1, 0.3 and 1 m: adopted, split and
  missed points all occur. Calls give up to five options of a group at a time. A gpx track has up to
  three pieces of two or three points.
* Roads: drives have up to three samples of three places or malformed ones, up to four that leave
  the streets and come back, and some that turn; radius 2 with two candidates kept, of up to three
  in reach; road files have up to two ways.

### Fairness

`Coordinator!Fairness` is weak fairness of each thread that exists: the coordinator thread, each
pool thread, and the owner once it waits in `join()` or is in the destructor. Nothing makes a caller
call or an owner start or stop. For blocked calls only some blocked call must make progress: the
condition variable of the queue wakes one. `WorkGetsDone` relies on `execute()` returning, which for
the matcher is what `TaskEnds` shows. The threads are operating-system threads without priorities,
which is what weak fairness says of them. `MatchTask` is one thread that runs until it is done; its
fairness is weak fairness of `Next`, written without `ENABLED`. Nothing is assumed about the clock
or the random generator: a task must end although the time never runs out. In `MCCoordinator` the
fairness of the part that is not there is vacuous, as none of its actions is enabled.

## 4. Findings

| Run | What it shows |
|---|---|
| `coordinator_lost` | `coordinator.hpp:79`: queue found empty, then a task accepted and `stop()`, then queue found closed: the loop ends and the task is never executed, though `stop()` followed the last `match()`. |
| `import_dead_ends` | `network_import.hpp:145`: two parallel edges into a dead end put their source twice on the list of vertices to visit; it is removed at the first visit and used at the second. |
| `import_duplicates` | `network_import.hpp:297`: the coordinates of a node are forgotten when it could be merged away, also if it is not: of three nodes at one place the third stays, where `options.cpp:1011` speaks of removing duplicates "by comparing exact coordinates". |
| `osm_reverse` | `osm_handler_helper.hpp:177`: the flag of reversed ways counts only together with the one of one-ways; a way that matches only the filter of reversed ways becomes edges in both directions, where `options.cpp:807` says that only the opposing edge is kept. |
| `parts_cut` | `multi_rich_line.hpp:558`: a cut in front of a line moves its end to the line before and then takes the size of the line that is left: with lines of two and three points the cut throws, with three and two it loses a point. |
| `road_gap` | `src/geometry/road_graph/map_matcher.cpp:144`: the forward pass skips positions without candidates, the backtrace does not, and reads beyond the end of an empty vector. |

`StrandedOnlyInWindow` says how far the first finding reaches: nothing else makes a coordinator lose
a task.

Other places where code and documentation, or code and its evident intent, differ. The modules model
what the code does, and the properties say so where it matters to them.

* Import: `network_import.hpp:194` follows out edges only, though `options.cpp:1007` and
  `network_import.hpp:212` speak of the largest weakly connected component (`WeakComponentKept`).
* Routing: the visitor for the maximum distance (`network.hpp:441-457`) blackens a target that is
  first reached by one edge that is too long, though a shorter path may be within the limit. A* with
  a goal that cannot be reached reads a path through vertex 0 off its map of predecessors
  (`network.hpp:305-310`). A negative entry of the route cache holds for the limit of the query that
  made it, and later queries read it whatever their limit; the cache is cleared before `result()`
  but not after it (`matcher.hpp:151`).
* Search: an edge that the first radius drops is not asked for again by the combined search
  (`candidate_search.hpp:99-147`, `options.cpp:1334`); an adaptive radius of 0 is doubled forever
  (`candidate_search.hpp:104`). A warp at the last point removes the good point before it
  (`detect.hpp:55-73`).
* Routes: a detour at a node is not trimmed (`route.hpp:224`, `options.cpp:1275`). A part of a route
  taken by reference leaves the lines that it needs with the first route (`route.hpp:506`), which is
  harmless only where `candidate_route` clones in time; `LinesOutliveRoute` shows that it does.
* Rich lines: cutting a line at its end keeps the totals of the old one (`route.hpp:565`,
  `rich_line_data.hpp:478`), and erasing its last point those of a lazy one
  (`lazy_rich_line.hpp:335`); the tests never cut exactly the last point. A lazy line that is
  assigned a plain one keeps what it knew (`lazy_rich_line.hpp:169`), an eager one that is assigned
  a lazy one has the entries of both (`eager_rich_line.hpp:209`), where `tests/model_tests.cpp:392`
  expects equal lines and asks only for their points (`AssignedLineIsItself`). A merge that is
  refused has already extended the entries (`lazy_rich_line.hpp:357`). The lazy `direction(pos)`
  never returns. `CachesAreFresh` holds apart from what the ghosts name.
* Formats: the maps of node ids stay across groups of files in three formats; an edge that runs back
  along one that is tagged one-way is not exported (`ReturnHidden` in `ExportIsFaithful`); an
  unknown id throws before the message for it is reached (`edges_list_importer.hpp:157`).
* Tracks: row numbers as ids start again in each file (`options.cpp:1147-1153`). `compare` drops
  leftover matches and repeated ids without notice. Two near points are swapped, not unified, when a
  line adopts its own points (`compare.hpp:204`).
* Options: a command that cannot parse its options ends with exit code 0 (`mode.cpp`); the file type
  given to `compare` is never used (`options.cpp:291`); `is_result` is appended only where it
  already is (`options.cpp:198-211`), although the help text at line 954 says otherwise; giving the
  adoption of candidates turns on the adoption of reverse edges (`options.cpp:365-374`), where the
  help text at lines 1301-1305 says that it does not. `OptionsRespected` leaves these two aside
  (`Disputed`), and `HelpTextsHold` states what the texts say.
* Files: index, graph and tags are opened without a look at what they hold. The serializer says
  nothing when a file cannot be opened (`serializer.hpp:38`).
* HD-map tools: after a leading gap the first position is snapped to its nearest, not its most
  likely edge; timestamps follow the place in the list, not the number of the file, where
  `kitti_oxts_importer.cpp:126` says they are derived from the index in the file name, and pairs
  shift when a file is skipped (`kitti_sequence.hpp:69`, `PairsShareAnIndex`).

`WeakComponentKept`, `HelpTextsHold`, `PairsShareAnIndex` and `AssignedLineIsItself` are stated in
the modules and have no run of their own; TLC finds each of them violated when it stands in a cfg in
place of the invariants.

## 5. What is proved

The theorems of `CoordinatorProofs` hold for every finite set of tasks, every non-empty finite pool
and every positive queue size, which is all that `CoordinatorAssumption` asks.

| Theorem | States | Argument |
|---|---|---|
| `PermitsConserved` | `[](TypeOK /\ PermitConservation)` | `PermitInv`: `TypeOK` is not inductive, because that the semaphore never exceeds its bound follows from the accounting; that needs in turn that the coordinator thread holds a task exactly between pull and submit (`HeldOK`) and a pool thread exactly while it is busy (`JobOK`). |
| `TypeCorrect` | `[]TypeOK` | from `PermitInv` as well. |
| `StrandingIsConfined` | `[]StrandedOnlyInWindow` | `WindowOK`: at `test_closed`, what is queued was accepted since the first read; a closed queue takes nothing more. |
| `TakenInOrder` | `[]FifoTake` | `ChainOK`: the order of acceptance is the tasks that were taken, then the pool's queue, then the task in hand, then the queue. Each step moves one task across one boundary. |
| `JoinIsBarrier` | `[]DrainedAtJoin` | `EndOK` (when the coordinator thread has exited the pool is closed, its queue empty and its threads gone) and `PlaceOK` (an accepted task that has not ended is in exactly the places the model knows). |
| `BacklogIsBounded` | `[]BoundedBacklog` | from `PlaceOK` the unfinished tasks are in the queue, in hand, in the pool's queue or with a busy worker; the permits bound the last two. |
| `CoordinatorImplementsService` | `Spec => ServiceRefined` | the refinement mapping of `Coordinator`; `OnceOK` (no task is accepted or begun twice) and `ChainOK` show that each step is a step of `TaskService` or leaves it unchanged. |

The theorems of `MatchPipelineProofs` hold for every set of tracks, every positive number of threads
and room in the sinks and every number of rows of a track (`PipelineAssumption`), whether or not
files fail and importers throw. They state the two properties of the run `pipeline`.

| Theorem | States | Argument |
|---|---|---|
| `ResultsAlwaysReachSinks` | `[]ResultsReachSinks` | `PipelineInv`. `JoinedOK`: the sinks are open and alive until the matcher was joined, unless an importer threw, and nothing executes after the join. With `StageOK` (a worker is inside `_match_impl` exactly while its track executes) no living worker meets a destroyed sink. `PassedOK`: who has come to a sink has been at the sinks before it; with an open sink the pass is the only way on. `KeptOK` and `SinkOverOK`: what a sink received is in its queue, in hand or written, and a sink that was joined has nothing in hand. |
| `OutputIsAlwaysWhole` | `[]OutputIsWhole` | `FileInv`, which adds to `PipelineInv`: `FreshOK` and `OnceOK` (a worker passes a sink once, so the order in which a sink receives is an order); `OrderOK` (the file, the rows in hand and the queue of a sink are, one after the other, in that order); `HeaderOK` (the flag of the header, the stream and the first line of the file agree); `SummaryOK` (the sinks are joined before the printer is destroyed, and it is destroyed once). `FileWellFormed` alone is not inductive: nothing in it says what the next row will be. |

The theorems of `AdjacencyListProofs` hold for every finite set of addresses of vertices and edges
and every kind of graph (`GraphAssumption`).

| Theorem | States | Argument |
|---|---|---|
| `GraphInvariant` | `[]GraphInv` | `GraphOK`: no list has an element twice (`EachOnce`), the ends of an edge are vertices (`EndsExist`), the out and in lists of a vertex are the list of edges without those of other vertices (`ListsFollow`), and an edge that is not in the graph has neither ends nor an index (`FreeIsBlank`), which is what an addition that is undone must leave. One lemma per operation; removal of a vertex and the copy are folds over a list and are proved by induction over it. |
| `AlwaysLinked` | `[]Linked` | `ListsFollow` and `EachOnce`. |
| `IndicesArePositions` | `[]IndexIsPosition` | the second half of `GraphInv`: `Indexed` unless something was removed since the last `reindex()`. |
| `ThrowingAddIsUndone` | `FailedAddChangesNothing` | the action property: whichever allocation throws, the lists it was appended to are those that the clean-up shortens. |

The theorems of `OsmImportProofs` about `ImportStore` hold for any tags of nodes and ways, any
number of retries and any finite sets of addresses (`StoreAssumption`, `GraphAssumption`), and for
every importer that asks for edges only between vertices that have an index (`ImportStoreSpec`).

| Theorem | States | Argument |
|---|---|---|
| `NetworkInvariant` | `[]NetInv` | `CallsInv`: the flag of a helper is up exactly while a call of it is active, a call guards exactly if no call below it is one of the same helper, and the depth of the stack fits the point of the program (`PlaceOK`). `TablesInv`: the maps of each dictionary are inverse to each other. `NetworkOK`: `GraphOK` of the graph, and `vertex_index_map` is its list of vertices but for the step between the two. `TagsStored`: what is in the network has all its tags. `ProgressOK`: what the active call has collected so far is the beginning of the tags of its job, which is what a call that starts over relies on. |
| `NetworkIsStored` | `StoreRefined` | each step is a step of `NetworkStore` or leaves its variables unchanged: what a half-done call wrote is not visible through the refinement mapping until the vertex or edge is in the graph. |

Those about `OsmImport` hold in addition for any ways (`OsmAssumption`).

| Theorem | States | Argument |
|---|---|---|
| `NoReferenceGoesStale` | `[]NoStaleReference` | from `CallsInv` the call that grows a file holds the only references into it (`NothingIsRemapped`), and takes them again when it starts over. Entering, leaving and unwinding keep this whatever the calls do in between (`EnterKeeps`, `LeaveKeeps`, `CaughtKeeps`). |
| `FlagsAreReset` | `[]FlagsClear`: between two calls of the helpers no flag is up | the same invariant with an empty stack; with a flag left behind no later call would grow that file. |
| `TablesStayInvertible` | `[]TablesInvertible` | `TablesInv`. |
| `HandlerKeepsToTheStore` | `OsmSpec => ImportStoreSpec` | `OsmInv`: an index that the container holds is the index of the vertex of that node (`AddedOK`), and both ends of an edge that is due have one (`AtEdges`). So the handler asks only for what `ImportStoreSpec` allows. |
| `ImportIsStored` | `StoreRefined` of the import of a file | the two refinements, one after the other. |
| `NodesAreFound` | `[]KnownAreFound` | `KnownOK`: the container holds a node once, and in order unless the flag `_sort_vertices` is up. `lower_bound` of the standard library is proved correct for lists in order, of any length, along the halving of its range (`Narrows`), and sorting for lists without repetition. |
| `NetworkIsAsRead` | `[]NetworkFollowsFile` | `RoadsOK`: for each way and each two vertices, the edges in the network and those still due add up to what the ways read so far ask for. Counting over a sequence is a sum, whose laws (`TotalIsNat` and those after it) are proved by induction over the sequence. |

The theorems of `NetworkCompressionProofs` hold for any imports, sizes of files, space on the disk
and outcome of the undefined conversion (`CompressionAssumption`).

| Theorem | States | Argument |
|---|---|---|
| `FilesWhole` | `[]FilesAreWhole` | `FilesInv`. `GraphRecord` and `ConvertedUpTo`: at each point of the program the rows of the compressed graph are those of the vertices converted so far, each with the beginning of its edges, and `RowsRead` shows that the out edges read back through the row starts are those of the import; `TagsOK`: the dictionary of the tag file numbers each tag once; `IndicesOK`: the trees have each vertex and each segment once, for which `SegmentsAreListed` proves the loops of `build_spatial_indices`. |
| `GivesUpWhenFull` | `[]GivesUpOnlyWhenFull` | `SizesInv`: after `n` drops the file is `2^n` times as large as the first one and what is used of it is exactly what the rows written so far need (`UsedOK`); the logarithm in `max_retries` is the greatest `n` with which that still fits (`Power`, `Log2`). |

The following two of `NetworkCompressionProofs` are about `FilesSpec` of `NetworkFiles`. They hold
for any memory options that are Booleans, any formats, any number of match processes and any bounds
on preparations, kills and drops (`FilesAssumption`), and state the two properties of the run
`storage` that are about `NetworkFiles`.

| Theorem | States | Argument |
|---|---|---|
| `StoragesStaySound` | `[]StoragesAreSound` | `StoragesInv`. The call under way says nothing of what the later ones will meet, so the invariant speaks of all that are left: each storage is in one of 22 `Conditions`, which `Meets` spells out (what it holds, which pointers into it are valid, what its name leads to), `Moves` says which call takes a storage from one condition to which other, and `Proceeds` says that the calls in `todo` are a run of allowed moves (`Safe`) from the conditions of now to the `Goal`: the three files kept, the temporary ones cleared. `ProgramIsSafe` walks through the program of `prepare` once, for all options together, from any files that are there. Growing and dropping put calls in front of the list: they lead from the condition of now back to one from which the rest is safe. While an exception unwinds (`Retreats`), each storage that is still on has its release ahead, and, if nothing was ever killed, each temporary file its removal; when nothing runs all storages are off (`Rests`). |
| `ReadersSeeOnePreparation` | `[]ReadsOnePreparation` | `Read` in the same invariant: a process that is followed (`calm`) has not been refused; while it opens, nothing runs and the files are those of the last preparation (`Arrives`), so the next file can be read; each file it has opened is, in the mapping it holds or the dump it has read, of its preparation and whole (`Sees`). A preparation that runs has a higher number, and `prepare` makes a file of that number where files are mapped, or truncates a dump, of which readers have a copy, so no step of it reaches what a reader holds. |

The theorem of `NetworkFormatsProofs` holds for any groups of files of the four formats and any
networks to be written, as `NetworkAssumption` describes them: files are missing or lists of rows,
the lines in them have points, and edges join vertices that are there.

| Theorem | States | Argument |
|---|---|---|
| `NetworkIsFaithful` | `[]FormatsAreFaithful` | `FormatInv`. While files are read: each row of arcs, geometries or roads that was passed is exactly its one edge or two (`RowsFit`), the maps lead from each id to a vertex at the place that the files name for it (`NodesFit`, with `NumbersFit` for the format that counts, whose map starts again with each pair of files) and from each edge id to its ends (`EndsFit`), and each edge joins what its row says (`Joins`). While a network is written (`WritingFits`): every edge that was passed is a way or runs back along one that is, so what is drivable in the end is the lines of the edges; that one finds the points of a line by their numbers is `NumbersDiffer`, by counting the points met before. |

The theorems of `RoadWorkflowProofs` hold for recordings with any finite number of files, any of
them missing, malformed or cut (`RecordingAssumption`), and road files of any length and content in
which the position of a node is one (`RoadFilesAssumption`); a position may have any number of
candidates, within any radius (`MatcherAssumption`). The first is about the reading of a drive by
`kitti_sequence` (`SequenceSpec`); the run `tracks` checks the property there and in the workflow.

| Theorem | States | Argument |
|---|---|---|
| `DriveKeepsTime` | `[]FramesKeepTheirTime` | `DriveInv`. `ListedInOrder`: the list of the names of a directory has the file at place `i` below which lie `i - 1` files, and every file; by counting, since a number of files cannot go into fewer places. `FramesOf`: after `k` files the frames are those among the first `k` that could be read, in their order, each with the place of its file and the time of that place (where no file is missing below it, the number in its name), and the first is the origin. Differences of places in the list are then counts of files in between. `ScansOf` says the same of the LiDAR. |
| `SearchesAreShortest` | `[]PathIsShortest` in the whole workflow | `RoadInv`. What `import_file` builds from any file is a graph the search can run on (`GraphFits`, `BuiltGraphFits`): edges between its nodes and each in the list of the node that it leaves. During a search (`SearchFits`): each node that was reached has a trail of predecessors back to the source of exactly its distance; the nodes taken out of the queue are closed, that is, none of their edges leads to a shorter way; no entry of the queue is nearer than they are, and every node that was reached and is not closed is still in the queue. So along any walk to the target there is either a closed node as near as the walk so far or an entry of the queue that is not farther, which makes the distance minimal when the target leaves the queue. The walk back follows the trail (`Tracing`). |
| `ChoiceIsMostLikely` | `[]MostLikelyChoice` in the whole workflow | `MatchFits` in `RoadInv`, for drives that have candidates from some position `m` on (`StartsAt`). `Scored`: each layer of the trellis that was looked at satisfies Bellman's equation against the layer before (`BestThrough`), the first one that gets scores has its emissions, and all others have none; `PassKeeps` and `ScoreKeeps` say that for the two kinds of layers. By induction over the layers no choice has a higher total than the score of its last candidate, and the one along the predecessors has exactly that (`ChoiceIsBelow`). `WalkedTo`: the walk back has written the candidates from the greatest score of the last layer along the predecessors, so what it leaves is that choice (`WalkIsBest`); candidates of a position are of different edges, which identifies each one in the result (`ShownIsChosen`). If the only layer is one that got no scores, the first candidate is taken, which is the nearest (`NearestIsChosen`). |
| `CenterlinesAreSound` | `[]CenterlineIsSound` in the whole workflow | `CenterFits`. `Counted`: after each position the supports and the sums of the groups of a direction are the number and the sum of the positions passed so far that go on in it; the sums are recursive functions over the list of the groups and over the drive, and `TotalsDiffer` and `TotalGrows` say what one entry that changes or is added does to them. That a position joins a group of its own direction needs a nearest group to exist: comparing centers by cross-multiplied distances is an order (`CloserIsOrder`) because no group is empty. `ChainsFit`: the directions that are still to be joined have groups and no edges, and those that are joined have one edge less than groups (`EdgesCounted`), each between two groups of the direction and not backwards (`EdgesBetween`), and no two from or to the same group (`EdgesApart`). |
| `ReportsAreConsistent` | `[]ReportIsConsistent` in the whole workflow | `ReportInv`. `Snapping`: each candidate of a position is an edge within its radius and each point of the result is unmatched or one of them, in every state of the matching and also for drives with gaps, of which `MatchFits` says nothing; `NearestAre`: the baseline is the least distance of each position. The rest is about any sample (`StatsFit`): the value at place `k` of `Ordered` has at least `k` entries that are not above it and fewer than `k` below it (`OrderedFits`), and the values ascend (`OrderedGrows`); the two ranks lie within the sample and in the order of the percentages, and the median is the middle value or half-way between the two middle ones (`RanksFit`, `HalvesFit`). The number of distances is that of the matched points by induction over the points (`DistancesFit`). |

Induction over data is done without a predicate as parameter: `ListTheorems` takes the set of the
numbers, or lists, for which a claim holds (`Induction`, `ListInduction`), and a step function on
pairs (`Recursion`, `NatRecursion`), and derives both from the least element of a set that is
well-founded. A recursive function of the model is then shown to be the one that takes the steps.

### Only model-checked, and why

* Liveness under fairness (`WorkGetsDone`, `TaskEnds`): out of the reach of the prover.
* `MatchTask` and what it extends, `RichLines`, `LineCollections`, `LineComparison`,
  `CommandOptions`: they define recursive operators or extend a module that does, which evaluation
  handles and the prover does not.
* `NetworkImport`: the invariant of a pass speaks of the roads that remain while lines are joined,
  and of reachability (`Reach`, `Component`); the operations on the graph that it composes are
  covered by the lemmas of `AdjacencyListProofs`.
* `RouteOwnership`: it needs the routes of `Routes` only, but reaches the recursive simplification
  in `Lines` through them.
* `RoadsAreImported`: it numbers the pairs of refs of a file by counting, for files of which every
  way is closed, and the lemmas about the graph of a file (`WaysAreAdded`) do not count edges.
* `RouteReaders`, `TrackReading`: not attempted.

## 6. What is not modelled

* Geometry in floating point. Points are on a grid, distances are city-block (Chebyshev or squared
  where only their order matters), azimuths are eighths of the compass. Substrings, simplification
  by distance, median merge of points, reprojection and the regional filter are left out.
* Of the matching: angle terms and length scaling of rewards, times along a route (`match_times`,
  `route_times`), the numbers of the Q-table, the text of results. The caches of distances and
  azimuths are maps from arguments to values and invisible to their callers.
* The comparator's own coordinator and sinks, which it runs as the matcher does; gaps between lines
  of a multi line in a comparison; the printer's second copy of the weighted errors.
* Of the storages: memory that runs out where an object is constructed, asked for, exported or
  reserved in a file that was just made (`tag_storage.hpp:455-460`): `Fail` happens at the calls of
  the program that check, create, fill, add points or segments, or write. `ReadsOnePreparation`
  speaks of a reader that started when a preparation had ended with nothing unsaved and that no
  other preparation overtook while it opened (`calm`); a process that opens the mixture a killed
  preparation left is not covered. Shared memory in place of files, the Windows code, a crash of the
  operating system. A preparation that is killed and run again with other options leaves old
  temporary files. Two preparations in one directory at the same time are not considered.
* Of the importers: selectors, number formats, tag filters beyond the flags they yield, projections;
  OSM ways without nodes (the loop bound wraps around); in the OSM export, values of `oneway` other
  than `yes`, `-1` and `reverse`, which are written beside the mark. Grouped input is faithful only
  where the rows of an id are together, and the property says so.
* Of the options: texts, coordinate systems, regular expressions; server mode does nothing.
* Of the HD-map part: LiDAR ground extraction, frame validation, CRC, the kd-tree, WGS84, synthetic
  data.
* A coordinator with no threads (its queue has no room), and `remove_unconnected_components` of an
  empty network (it dereferences the end iterator of `max_element`).
* `remove_edge` is passed a reference into the list from which it erases, and reads it afterwards;
  what that yields depends on the allocator.

## 7. Plan

What is left, in this order:

1. Proofs: `RoadsAreImported`, by counting the pairs of refs of a file along its lines;
   `LinesOutliveRoute`, once the simplification of a line is a recursive function;
   `RoadsAndRoutesKept` for the passes that do not join lines.
2. The comparator on its coordinator, as a second user of `TaskService`, with the two readers and
   the two sinks.
3. Times along routes, the regional filter as an operator over abstract regions.
4. Frame validation, CRC and ground extraction of the HD-map part.
