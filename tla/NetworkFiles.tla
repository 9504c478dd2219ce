---------------------------- MODULE NetworkFiles ----------------------------
(***************************************************************************)
(* The files of a network.  The prepare command makes graph.bin, index.bin *)
(* and tags.bin, with up to five temporary files beside them, and match    *)
(* processes open the three; each storage is a memory mapped file or an    *)
(* object in memory that is dumped to its file at the end, as the options  *)
(* say (prepare.hpp, network.hpp and match.hpp of src/src/app/include/app, *)
(* the storages in src/src/library/include/io/memory_mapped/storage).      *)
(*                                                                         *)
(* A file system keeps a removed file as long as a process maps it.  The   *)
(* prepare process may fail, which unwinds its storages, or be killed at   *)
(* any point, which leaves its files as they are; mapped pages survive.    *)
(* What the files hold is a value for each named object in them: which     *)
(* preparation made it, and whether all of it is there.  How the contents  *)
(* are computed is in NetworkImport and NetworkCompression.                *)
(***************************************************************************)
EXTENDS Naturals, Sequences

CONSTANTS
    Matches,          \* the match processes
    GivenOptions,     \* the memory options that a user may give, see Mapped
    Formats,          \* network formats, "osm" or other
    MaxPreparations,  \* how often prepare is started
    MaxKills,         \* how often it is killed
    MaxDrops          \* how often the graph or the index is dropped and made anew

Temporaries == {"graph_import", "tags_import", "osm_tags", "osm_vertices", "index_build"}
Finals == {"tags", "index", "graph"}
Names == Temporaries \cup Finals

\* The objects that _create and _open name in a storage, each in a wrapper of its own.
\* The lookups of tags are the two reverse maps and the map of ids, which finalize destroys.
TagRoots == {"maps", "lookups"}
GraphRoots == {"graph", "vertex_index_map"}
IndexRoots == {"points", "segments"}
ListRoots == {"points", "segments"}
OsmRoots == {"vertices"}
Roots == [n \in Names |->
    CASE n \in {"tags", "tags_import", "osm_tags"} -> TagRoots
      [] n \in {"graph", "graph_import"} -> GraphRoots
      [] n = "index" -> IndexRoots
      [] n = "index_build" -> ListRoots
      [] n = "osm_vertices" -> OsmRoots]

\* Those that _create constructs: the index gets its trees later.
Constructed(n) == IF n = "index" THEN {} ELSE Roots[n]
\* Those that are written: a dump of finalized tags has no lookups, and vertex_index_map
\* is for the passes only.
KeptTags == TagRoots \ {"lookups"}
Kept(n) == CASE n = "tags" -> KeptTags [] n = "graph" -> {"graph"} [] OTHER -> Roots[n]

ASSUME FilesAssumption ==
    /\ {MaxPreparations, MaxKills, MaxDrops} \subseteq Nat
    /\ \A g \in GivenOptions : \A o \in DOMAIN g :
          g[o] \in BOOLEAN /\ o \in Names \cup {"mapping", "preparation"}

VARIABLES
    given,    \* the memory options of every process
    format,   \* the network format of every preparation
    dir,      \* the directory: the file that a name leads to
    disk,     \* the files that are in the directory or mapped, by name and identity
    st,       \* the storages of the prepare process
    todo,     \* the calls that it has still to make
    phase,    \* where it is as a whole
    gen,      \* the preparations so far
    kills,
    unsaved,  \* history: the dumps that this preparation could not open
    seen,     \* what a match process has opened
    pending,  \* what it has still to open
    stage,    \* where it is as a whole
    calm      \* history: the preparation that had ended when it started, 0 if it is disturbed

processVars == <<st, todo, phase, gen, kills, unsaved>>
matchVars == <<seen, pending, stage, calm>>
options == <<given, format>>
filesVars == <<options, dir, disk, processVars, matchVars>>

NoFile == <<0, 0>>
EmptyFunction == [x \in {} |-> x]

\* A storage.  Its file is known by the preparation that made it and a number;
\* number 0 is an object in memory.
Off == [on |-> FALSE, id |-> NoFile, ptr |-> EmptyFunction, made |-> 0]

(***************************************************************************)
(* The options.  A value that was given wins; else the one for all of the  *)
(* preparation does, and else the one for everything.                      *)
(***************************************************************************)
Given(o, default) == IF o \in DOMAIN given THEN given[o] ELSE default
\* memory_data::correct and prepare_memory_data::correct
Mapped(n) == IF n \in Finals THEN Given(n, Given("mapping", TRUE))
             ELSE Given(n, Given("preparation", Given("mapping", TRUE)))

-----------------------------------------------------------------------------
(* The calls of the prepare process, in the order in which it makes them.  *)

Op(op, n) == [op |-> op, name |-> n]
On(ops, n) == [i \in DOMAIN ops |-> Op(ops[i], n)]

\* destroy_and_create, which drop_grow does too.
DestroyAndCreate(n) == On(<<"destroy", "create", "info">>, n)
\* The constructor of a storage, which then calls _create.
Constructor(n) ==
    (IF Mapped(n) THEN DestroyAndCreate(n) ELSE <<>>) \o On(<<"construct", "constructed">>, n)

\* The destructor: DESTROY_ON_CLOSE for temporary files, SHRINK_ON_CLOSE for the others.
Destructor(n) ==
    On(IF ~Mapped(n) THEN <<"release">>
       ELSE IF n \in Temporaries THEN <<"destroy", "release">>
       ELSE <<"close", "shrink", "release">>, n)

\* create_network_import
CreateNetworkImport == Constructor("tags_import") \o Constructor("graph_import")
\* _import_osm: the handler has its storages for as long as the importer reads.
ImportNetwork ==
    IF format = "osm"
    THEN Constructor("osm_tags") \o Constructor("osm_vertices")
         \o <<Op("fill", "osm_vertices"), Op("fill", "osm_tags"),
              Op("fill", "tags_import"), Op("fill", "graph_import")>>
         \o Destructor("osm_tags") \o Destructor("osm_vertices")
    ELSE <<Op("fill", "graph_import")>>
\* create_compatible_network
CreateNetwork == Constructor("tags") \o Constructor("index_build")
                 \o Constructor("index") \o Constructor("graph")
\* _finish_import: compress, finalize, let the import go.
FinishImport == <<Op("fill", "tags"), Op("fill", "graph"), Op("finalize", "tags")>>
                \o Destructor("tags_import") \o Destructor("graph_import")
\* build_spatial_indices
BuildIndices == <<Op("fill", "index_build"), Op("reserve", "index"),
                  Op("points", "index"), Op("segments", "index")>>

Dump(n) == IF Mapped(n) THEN <<>> ELSE On(<<"truncate", "write">>, n)
\* Mutant: dumps only when all three are kept in memory.
SerializeWhenAll == IF \E n \in Finals : Mapped(n) THEN <<>>
                    ELSE Dump("tags") \o Dump("index") \o Dump("graph")
\* _serialize and save_network
Serialize == Dump("tags") \o Dump("index") \o Dump("graph")
\* _export, then network.reset()
FinishPreparation == BuildIndices \o Serialize \o <<Op("export", "graph")>>
                     \o Destructor("index_build") \o Destructor("index")
                     \o Destructor("tags") \o Destructor("graph")

\* _prepare
Program == <<Op("check", "graph")>> \o CreateNetworkImport \o ImportNetwork
           \o CreateNetwork \o FinishImport \o FinishPreparation

\* What an exception unwinds: the network, the handler, the import.
Leave(n) == IF st[n].on THEN Destructor(n) ELSE <<>>
Unwound == Leave("index_build") \o Leave("index") \o Leave("tags") \o Leave("graph")
           \o Leave("osm_tags") \o Leave("osm_vertices")
           \o Leave("tags_import") \o Leave("graph_import")

-----------------------------------------------------------------------------
(* Storages and files.                                                     *)

FilesInit ==
    /\ given \in GivenOptions /\ format \in Formats
    /\ dir = [n \in Names |-> NoFile]
    /\ disk = [n \in Names |-> EmptyFunction]
    /\ st = [n \in Names |-> Off] /\ todo = <<>>
    /\ phase = "none" /\ gen = 0 /\ kills = 0 /\ unsaved = {}
    /\ seen = [m \in Matches |-> [n \in Finals |-> [id |-> NoFile, roots |-> EmptyFunction]]]
    /\ pending = [m \in Matches |-> <<>>]
    /\ stage = [m \in Matches |-> "idle"]
    /\ calm = [m \in Matches |-> 0]

\* A file that no name leads to is gone when the last process that maps it closes it.
Alive(directory, storages, opened) ==
    [n \in Names |->
        LET held == {i \in DOMAIN disk[n] : \/ i \in {directory[n], storages[n].id}
                                            \/ n \in Finals /\ \E m \in Matches : opened[m][n].id = i}
        IN  [i \in held |-> disk[n][i]]]
With(files, n, id, content) ==
    [files EXCEPT ![n] = [i \in DOMAIN @ \cup {id} |-> IF i = id THEN content ELSE @[i]]]

Running(ops) == phase \in {"running", "unwinding"} /\ todo # <<>> /\ Head(todo).op \in ops
Name == Head(todo).name
Content == disk[Name][st[Name].id]
\* The objects of a storage get these values, and pointers to them.
Objects(roots, full) == [r \in roots |-> [of |-> gen, full |-> full]]
Pointers(roots, value) ==
    [r \in Roots[Name] |-> IF r \in roots THEN value
                           ELSE IF r \in DOMAIN st[Name].ptr THEN st[Name].ptr[r] ELSE "null"]
Assigned == {r \in DOMAIN st[Name].ptr : st[Name].ptr[r] # "null"}

Next_ == todo' = Tail(todo)
Throws == todo' = Unwound /\ phase' = "unwinding"

\* mmap_container::close unmaps the file, which leaves every pointer into it dangling.
CloseFile ==
    /\ Running({"close"})
    /\ st' = [st EXCEPT ![Name].id = NoFile, ![Name].ptr = Pointers(Assigned, "dangling")]
    /\ disk' = Alive(dir, st', seen)
    /\ Next_
    /\ UNCHANGED <<options, dir, phase, gen, kills, unsaved, matchVars>>

\* mmap_container::destroy: close, and remove what the name leads to.
DestroyFile ==
    /\ Running({"destroy"})
    /\ dir' = [dir EXCEPT ![Name] = NoFile]
    /\ st' = [st EXCEPT ![Name].id = NoFile, ![Name].ptr = Pointers(Assigned, "dangling")]
    /\ disk' = Alive(dir', st', seen)
    /\ Next_
    /\ UNCHANGED <<options, phase, gen, kills, unsaved, matchVars>>

\* A file and an object in memory as they are before _create.
BlankFile == [form |-> "mapped", info |-> FALSE, slack |-> TRUE, roots |-> EmptyFunction]
BlankMemory == [form |-> "memory", info |-> TRUE, slack |-> FALSE, roots |-> EmptyFunction]

\* create_only, up to where process_info writes to the file.
CreateFile ==
    /\ Running({"create"})
    /\ LET id == <<gen, st[Name].made + 1>>
       IN  /\ dir' = [dir EXCEPT ![Name] = id]
           /\ st' = [st EXCEPT ![Name].id = id, ![Name].made = @ + 1]
           /\ disk' = With(disk, Name, id, BlankFile)
    /\ Next_
    /\ UNCHANGED <<options, phase, gen, kills, unsaved, matchVars>>

\* write_and_compare_info: the compiler and version that open compares later.
WriteInfo ==
    /\ Running({"info"})
    /\ disk' = With(disk, Name, st[Name].id, [Content EXCEPT !.info = TRUE])
    /\ Next_
    /\ UNCHANGED <<options, dir, st, phase, gen, kills, unsaved, matchVars>>

\* _create: the empty containers, in the file or in memory.
Construct ==
    /\ Running({"construct"})
    /\ LET id == IF Mapped(Name) THEN st[Name].id ELSE <<gen, 0>>
           blank == IF Mapped(Name) THEN Content ELSE BlankMemory
       IN  /\ st' = [st EXCEPT ![Name].id = id, ![Name].ptr = Pointers(Constructed(Name), "valid")]
           /\ disk' = With(disk, Name, id, [blank EXCEPT !.roots = Objects(Constructed(Name), FALSE)])
    /\ Next_
    /\ UNCHANGED <<options, dir, phase, gen, kills, unsaved, matchVars>>

\* The constructor returns; from here on the destructor runs when the storage is left.
Constructs ==
    /\ Running({"constructed"})
    /\ st' = [st EXCEPT ![Name].on = TRUE]
    /\ Next_
    /\ UNCHANGED <<options, dir, disk, phase, gen, kills, unsaved, matchVars>>

\* An importer, a pass, the compression or build_spatial_indices writes all it has to.
Fill ==
    /\ Running({"fill"})
    /\ disk' = With(disk, Name, st[Name].id, [Content EXCEPT !.roots = Objects(DOMAIN @, TRUE)])
    /\ Next_
    /\ UNCHANGED <<options, dir, st, phase, gen, kills, unsaved, matchVars>>

\* Mutant: the objects are not looked up again.
GrowCallsBlind == On(<<"close", "open">>, Name)
\* grow: the file is closed, made larger, opened again, and its objects are looked up.
GrowCalls == On(<<"close", "open", "find">>, Name)

Grow ==
    /\ Running({"fill", "reserve"})
    /\ Mapped(Name)
    /\ todo' = GrowCalls \o (IF Head(todo).op = "fill" THEN todo ELSE Tail(todo))
    /\ UNCHANGED <<options, dir, disk, st, phase, gen, kills, unsaved, matchVars>>
\* build_indices grows only a file that is smaller than its estimate.
LargeEnough ==
    /\ Running({"reserve"})
    /\ Next_
    /\ UNCHANGED <<options, dir, disk, st, phase, gen, kills, unsaved, matchVars>>

\* drop_grow after bad_alloc: the graph or the index is made anew, and what was built
\* in it is built again.
DropGrow ==
    /\ Running({"fill", "points", "segments"})
    /\ Name \in {"graph", "index"} /\ Mapped(Name)
    /\ st[Name].made <= MaxDrops
    /\ todo' = DestroyAndCreate(Name) \o <<Op("construct", Name)>>
               \o (IF Head(todo).op = "segments" THEN <<Op("points", Name)>> ELSE <<>>) \o todo
    /\ UNCHANGED <<options, dir, disk, st, phase, gen, kills, unsaved, matchVars>>

\* mmap_container::open, by the name of the file.
OpenFile ==
    /\ Running({"open"})
    /\ st' = [st EXCEPT ![Name].id = dir[Name]]
    /\ disk' = Alive(dir, st', seen)
    /\ Next_
    /\ UNCHANGED <<options, dir, phase, gen, kills, unsaved, matchVars>>

\* What grow throws without: the index has only to have what it had before.
Required == IF Name = "index" THEN Assigned ELSE Roots[Name]
\* _open and _check_availability.
Find ==
    /\ Running({"find"})
    /\ LET found == DOMAIN Content.roots
       IN  /\ st' = [st EXCEPT ![Name].ptr = [r \in Roots[Name] |-> IF r \in found THEN "valid" ELSE "null"]]
           /\ IF Required \subseteq found THEN Next_ /\ UNCHANGED phase ELSE Throws
    /\ UNCHANGED <<options, dir, disk, gen, kills, unsaved, matchVars>>

\* tag_storage::finalize destroys the lookups; only the one in memory resets its pointers.
FinalizeFile ==
    /\ Running({"finalize"})
    /\ st' = [st EXCEPT ![Name].ptr["lookups"] = IF Mapped(Name) THEN "dangling" ELSE "null"]
    /\ disk' = With(disk, Name, st[Name].id,
                    [Content EXCEPT !.roots = [r \in DOMAIN @ \ {"lookups"} |-> @[r]]])
    /\ Next_
    /\ UNCHANGED <<options, dir, phase, gen, kills, unsaved, matchVars>>

\* build_points_index and build_segments_index: a tree of all that is in the lists.
BuildTree ==
    /\ Running({"points", "segments"})
    /\ LET lists == disk["index_build"][st["index_build"].id].roots
           tree == Head(todo).op
       IN  disk' = With(disk, Name, st[Name].id,
                        [Content EXCEPT !.roots = [r \in DOMAIN @ \cup {tree} |->
                                                      IF r = tree THEN lists[tree] ELSE @[r]]])
    /\ st' = [st EXCEPT ![Name].ptr[Head(todo).op] = "valid"]
    /\ Next_
    /\ UNCHANGED <<options, dir, phase, gen, kills, unsaved, matchVars>>

\* serializer::write opens the file with trunc: what the name leads to is emptied in place.
TruncateFile ==
    /\ Running({"truncate"})
    /\ LET id == IF dir[Name] = NoFile THEN <<gen, 1>> ELSE dir[Name]
       IN  /\ dir' = [dir EXCEPT ![Name] = id]
           /\ disk' = With(disk, Name, id, [form |-> "dump", info |-> FALSE, slack |-> FALSE,
                                            roots |-> EmptyFunction])
    /\ Next_
    /\ UNCHANGED <<options, st, phase, gen, kills, unsaved, matchVars>>
\* It says nothing when the file cannot be opened.
TruncateFails ==
    /\ Running({"truncate"})
    /\ unsaved' = unsaved \cup {Name}
    /\ todo' = Tail(Tail(todo))
    /\ UNCHANGED <<options, dir, disk, st, phase, gen, kills, matchVars>>
WriteDump ==
    /\ Running({"write"})
    /\ disk' = With(disk, Name, dir[Name],
                    [disk[Name][dir[Name]] EXCEPT !.roots = [r \in Kept(Name) \cap DOMAIN Content.roots |->
                                                                Content.roots[r]]])
    /\ Next_
    /\ UNCHANGED <<options, dir, st, phase, gen, kills, unsaved, matchVars>>

\* shrink_to_fit, by the name of the file, if there is one.
ShrinkFile ==
    /\ Running({"shrink"})
    /\ disk' = IF dir[Name] = NoFile THEN disk
               ELSE With(disk, Name, dir[Name], [disk[Name][dir[Name]] EXCEPT !.slack = FALSE])
    /\ Next_
    /\ UNCHANGED <<options, dir, st, phase, gen, kills, unsaved, matchVars>>

\* A storage is gone.
Release ==
    /\ Running({"release"})
    /\ st' = [st EXCEPT ![Name] = Off]
    /\ disk' = Alive(dir, st', seen)
    /\ Next_
    /\ UNCHANGED <<options, dir, phase, gen, kills, unsaved, matchVars>>

\* _check_files finds all inputs; _export reads the network.
CheckOrExport ==
    /\ Running({"check", "export"})
    /\ Next_
    /\ UNCHANGED <<options, dir, disk, st, phase, gen, kills, unsaved, matchVars>>

-----------------------------------------------------------------------------
(* The prepare process as a whole.                                         *)

StartPrepare ==
    /\ phase \notin {"running", "unwinding"}
    /\ gen < MaxPreparations
    /\ todo' = Program
    /\ gen' = gen + 1 /\ phase' = "running" /\ unsaved' = {}
    /\ calm' = [m \in Matches |-> IF stage[m] = "opening" THEN 0 ELSE calm[m]]
    /\ UNCHANGED <<options, dir, disk, st, kills, seen, pending, stage>>

EndPrepare ==
    /\ phase \in {"running", "unwinding"} /\ todo = <<>>
    /\ phase' = IF phase = "running" THEN "ended" ELSE "failed"
    /\ UNCHANGED <<options, dir, disk, st, todo, gen, kills, unsaved, matchVars>>

\* An input file is missing, a file cannot be made, an import or a dump fails, a file is
\* full for good: mode() catches the exception, after every storage that was constructed
\* has been destructed.
Fail ==
    /\ phase = "running" /\ Running({"check", "create", "fill", "points", "segments", "write"})
    /\ Throws
    /\ st' = [n \in Names |-> IF st[n].on THEN st[n] ELSE Off]
    /\ disk' = Alive(dir, st', seen)
    /\ UNCHANGED <<options, dir, gen, kills, unsaved, matchVars>>

Kill ==
    /\ phase \in {"running", "unwinding"}
    /\ kills < MaxKills
    /\ phase' = "killed" /\ kills' = kills + 1 /\ todo' = <<>>
    /\ st' = [n \in Names |-> Off]
    /\ disk' = Alive(dir, st', seen)
    /\ UNCHANGED <<options, dir, gen, unsaved, matchVars>>

-----------------------------------------------------------------------------
(* A match process.                                                        *)

\* _open_network of network.hpp opens what is mapped, load_network then reads the dumps.
If(n, mapped) == IF Mapped(n) = mapped THEN <<n>> ELSE <<>>
OpenOrder == If("tags", TRUE) \o If("index", TRUE) \o If("graph", TRUE)
             \o If("tags", FALSE) \o If("index", FALSE) \o If("graph", FALSE)

StartMatch(m) ==
    /\ stage[m] = "idle"
    /\ stage' = [stage EXCEPT ![m] = "opening"]
    /\ pending' = [pending EXCEPT ![m] = OpenOrder]
    /\ calm' = [calm EXCEPT ![m] = IF phase = "ended" /\ unsaved = {} THEN gen ELSE 0]
    /\ UNCHANGED <<options, dir, disk, processVars, seen>>

Opening(m) == stage[m] = "opening" /\ pending[m] # <<>>
Linked(n) == dir[n] # NoFile
Current(n) == disk[n][dir[n]]
\* open_read_only and process_info: a file that is not there, a dump or a file without
\* the info of this build cannot be mapped.
Mappable(n) == Linked(n) /\ Current(n).form = "mapped" /\ Current(n).info
\* A file that is not there, is mapped or is empty cannot be deserialized.
Loadable(n) == Linked(n) /\ Current(n).form = "dump" /\ Current(n).roots # EmptyFunction
Readable(n) == IF Mapped(n) THEN Mappable(n) ELSE Loadable(n)

OpenNext(m) ==
    /\ Opening(m)
    /\ LET n == Head(pending[m])
       IN  /\ Readable(n)
           /\ seen' = [seen EXCEPT ![m][n] =
                IF Mapped(n) THEN [id |-> dir[n], roots |-> EmptyFunction]
                ELSE [id |-> NoFile, roots |-> Current(n).roots]]
    /\ pending' = [pending EXCEPT ![m] = Tail(@)]
    /\ UNCHANGED <<options, dir, disk, processVars, stage, calm>>

Closed == [n \in Finals |-> [id |-> NoFile, roots |-> EmptyFunction]]

\* An exception leaves match_cli before any track is read.
Refuse(m) ==
    /\ Opening(m) /\ ~Readable(Head(pending[m]))
    /\ stage' = [stage EXCEPT ![m] = "refused"]
    /\ pending' = [pending EXCEPT ![m] = <<>>]
    /\ seen' = [seen EXCEPT ![m] = Closed]
    /\ disk' = Alive(dir, st, seen')
    /\ UNCHANGED <<options, dir, processVars, calm>>

RunMatch(m) ==
    /\ stage[m] = "opening" /\ pending[m] = <<>>
    /\ stage' = [stage EXCEPT ![m] = "running"]
    /\ UNCHANGED <<options, dir, disk, processVars, seen, pending, calm>>

EndMatch(m) ==
    /\ stage[m] = "running"
    /\ stage' = [stage EXCEPT ![m] = "ended"]
    /\ seen' = [seen EXCEPT ![m] = Closed]
    /\ disk' = Alive(dir, st, seen')
    /\ UNCHANGED <<options, dir, processVars, pending, calm>>

FilesNext ==
    \/ StartPrepare \/ EndPrepare \/ Fail \/ Kill
    \/ CheckOrExport \/ CloseFile \/ DestroyFile \/ CreateFile \/ WriteInfo
    \/ Construct \/ Constructs \/ Fill \/ Grow \/ LargeEnough \/ DropGrow \/ OpenFile \/ Find
    \/ FinalizeFile \/ BuildTree \/ TruncateFile \/ TruncateFails \/ WriteDump \/ ShrinkFile \/ Release
    \/ \E m \in Matches : \/ StartMatch(m) \/ OpenNext(m) \/ Refuse(m) \/ RunMatch(m) \/ EndMatch(m)

FilesSpec == FilesInit /\ [][FilesNext]_filesVars

-----------------------------------------------------------------------------
(* Properties.                                                             *)

\* What a preparation g has to leave in a storage: every object that is kept, in full.
Whole(n, g) == [r \in Kept(n) |-> [of |-> g, full |-> TRUE]]
KeptOf(n, roots) == [r \in Kept(n) \cap DOMAIN roots |-> roots[r]]

\* A match process that was started when a preparation had ended, and was not overtaken
\* by the start of another one while it opened the files, is not refused and reads that
\* preparation, all of it and nothing else, until it ends: also when a later preparation
\* replaces the files, fails or is killed meanwhile (base_storage.hpp, destroy_and_create;
\* network.hpp, save_network and load_network).
ReadsOnePreparation ==
    \A m \in Matches : calm[m] # 0 =>
        /\ stage[m] # "refused"
        /\ stage[m] = "running" => \A n \in Finals :
              KeptOf(n, IF Mapped(n) THEN disk[n][seen[m][n].id].roots ELSE seen[m][n].roots)
                  = Whole(n, calm[m])

\* When prepare ends well, whatever was killed or failed before it, its three files are
\* whole and of this preparation; mapped files are shrunk, and tags have no lookups left
\* (prepare.hpp, _finish_preparation; options.cpp, "shrunken to the actual size after
\* the import is finished").
PreparedWhole ==
    phase = "ended" => \A n \in Finals \ unsaved :
        /\ Linked(n)
        /\ Current(n).roots = [r \in IF Mapped(n) /\ n = "graph" THEN Roots[n] ELSE Kept(n) |->
                                  [of |-> gen, full |-> TRUE]]
        /\ Current(n).form = IF Mapped(n) THEN "mapped" ELSE "dump"
        /\ ~Current(n).slack

\* No temporary file is left when prepare ends, well or with an exception, also when a
\* preparation before it was killed with its files in place (options.cpp, "automatically
\* deleted when no longer needed").
NothingTemporaryLeft ==
    phase = "ended" \/ (phase = "failed" /\ kills = 0) => \A n \in Temporaries : ~Linked(n)

\* What prepare leaves behind is its network and nothing else.
PreparedClean == PreparedWhole /\ NothingTemporaryLeft

\* What a call of prepare reads through a pointer into a file is in the file that the
\* storage maps now: growing, dropping and finalizing leave no pointer behind that is
\* used later (tag_storage.hpp, index_storage.hpp, graph_storage.hpp: grow and drop_grow).
Reads(op, n) ==
    CASE op = "fill" -> {n} \X Roots[n]
      [] op = "finalize" -> {<<"tags", "lookups">>}
      [] op \in {"points", "segments"} -> {<<"index_build", op>>}
      [] op = "write" -> {n} \X Kept(n)
      [] op = "export" -> {<<"graph", "graph">>, <<"tags", "maps">>}
      [] OTHER -> {}
NoDanglingRoot ==
    phase = "running" /\ todo # <<>> =>
        \A use \in Reads(Head(todo).op, Name) :
            /\ st[use[1]].ptr[use[2]] = "valid"
            /\ use[2] \in DOMAIN disk[use[1]][st[use[1]].id].roots

\* The storages of one call of prepare read what they wrote and leave nothing else behind
\* (base_storage.hpp, tag_storage.hpp, index_build_storage.hpp).
StoragesAreSound == PreparedClean /\ NoDanglingRoot
=============================================================================
