--------------------------- MODULE CommandOptions ---------------------------
(***************************************************************************)
(* From the command line and the options file to the settings of a         *)
(* command.  The program parses twice: first only for the mode, then for   *)
(* the options of the command it names.  A value on the command line comes *)
(* before one of the file, and that before the default; then correct()     *)
(* lets an option that was not given follow the option of its group.       *)
(* Lengths are in metres, a list of files is the list of their extensions, *)
(* a list of columns the sequence of their names; decimal fractions that   *)
(* no correction reads stay text.                                          *)
(***************************************************************************)
EXTENDS Integers, Sequences, TLC

CONSTANT Calls   \* [line, file: from option to value, exists: is there an options file]

VARIABLES step,    \* "mode", "select", "command", "correct", "work", "exit"
          call,    \* what the program is called with
          stored,  \* vm: [values, given] of the parsing that was done last
          data,    \* the options of the command after correct()
          work,    \* the settings of the command, its readers and its storages
          code     \* what the program returns

\* Options with their defaults, options without, and those that must be given.
Group(defaults, others, required) == [defaults |-> defaults, others |-> others, required |-> required]
NoDefaults == << >>
Plain(defaults) == Group(defaults, {}, {})
Both(g, h) == Group(g.defaults @@ h.defaults, g.others \cup h.others, g.required \cup h.required)
RECURSIVE Together(_)
Together(groups) == IF groups = << >> THEN Plain(NoDefaults) ELSE Both(Head(groups), Together(Tail(groups)))
Known(group) == DOMAIN group.defaults \cup group.others

-----------------------------------------------------------------------------
(* The options.                                                            *)

options_all ==
  Group("config" :> "options.conf" @@ "verbose" :> FALSE @@ "quiet" :> FALSE, { "help", "version" }, {})
Modes == { "prepare", "match", "server", "compare" }
options_global == Plain([m \in Modes |-> FALSE])
options_input == Group(NoDefaults, { "input" }, { "input" })
options_output(filename) == Group("filename" :> filename, { "output" }, {})
options_match_output == Both(options_output("matches.csv"),
  Group("columns" :> << "id", "match" >> @@ "export-timestamps" :> FALSE @@ "export-time-zone" :> "local"
        @@ "export-edges" :> FALSE @@ "time-interpolation" :> "geometric" @@ "join-merges" :> TRUE
        @@ "concatenate-skips" :> FALSE,
        { "export-routing-max-distance-factor-override" }, {}))
options_compare_output == Both(options_output("comparison.csv"), Plain("columns" :> << "id", "correct" >>))
options_console == Plain("read-line" :> FALSE @@ "console" :> FALSE)
options_prepare_network == Group("format" :> "osm", { "file", "output" }, { "file", "output" })
options_prepare_osm_import ==
  Plain("osm-profile" :> "car" @@ "osm-query" :> "true" @@ "osm-filter" :> "true"
        @@ "osm-oneway" :> "false" @@ "osm-oneway-reverse" :> "false")
options_srs(prefix) == Group((prefix \o "srs") :> 4326, { prefix \o "srs-type" }, {})
options_srs_transform(prefix) == Both(options_srs(prefix),
  Group(NoDefaults, { prefix \o "transform-srs", prefix \o "transform-srs-type" }, {}))
options_files == Plain("graph-file" :> "graph.bin" @@ "tags-file" :> "tags.bin" @@ "index-file" :> "index.bin")
options_prepare_files == Both(options_files,
  Plain("graph-import-file" :> "tmp_graph.bin" @@ "tags-import-file" :> "tmp_tags.bin"
        @@ "index-build-file" :> "tmp_index_build.bin" @@ "osm-vertices-file" :> "tmp_osm_vertices.bin"
        @@ "osm-tags-file" :> "tmp_osm_tags.bin" @@ "initial-file-size" :> 134217728))
options_export ==
  Group("candidates-columns" :> << "id", "edge_id" >> @@ "candidates-export-all" :> FALSE, { "candidates" }, {})
options_prepare_export ==
  Group(NoDefaults, { "export-nodes-csv-file", "export-edges-csv-file", "export-network-osm-file" }, {})
options_prepare_process ==
  Plain("simplify" :> "all" @@ "remove-oneway-dead-ends" :> FALSE @@ "remove-unconnected" :> FALSE
        @@ "remove-duplicate-nodes" :> FALSE @@ "remove-duplicate-edges" :> FALSE)
options_memory ==
  Plain([o \in { "memory-mapping", "memory-mapped-graph", "memory-mapped-indices", "memory-mapped-tags" } |-> TRUE])
options_prepare_memory == Both(options_memory,
  Plain([o \in { "memory-mapped-preparation", "memory-mapped-graph-import", "memory-mapped-tags-import",
                 "memory-mapped-index-build", "memory-mapped-osm-vertices", "memory-mapped-osm-tags" } |-> TRUE]))
options_performance == Plain("threads" :> "cores")
options_tracks(prefix) == Group(NoDefaults, { prefix \o "tracks", prefix \o "tracks-file-type" }, {})
options_csv(prefix) ==
  Group((prefix \o "delimiter") :> "," @@ (prefix \o "grouped") :> TRUE @@ (prefix \o "skip-lines") :> 0
        @@ (prefix \o "no-header") :> FALSE @@ (prefix \o "no-id") :> FALSE
        @@ (prefix \o "no-id-whole-file") :> FALSE @@ (prefix \o "id") :> << "id" >>
        @@ (prefix \o "id-aggregator") :> "_" @@ (prefix \o "wkt") :> FALSE @@ (prefix \o "x") :> "x"
        @@ (prefix \o "y") :> "y" @@ (prefix \o "geometry") :> "geometry",
        { prefix \o "selector" }, {})
options_csv_tracks(prefix) == Both(options_csv(prefix),
  Plain((prefix \o "time") :> << "time" >> @@ (prefix \o "time-aggregator") :> "_"
        @@ (prefix \o "time-format") :> "%FT%T%Oz" @@ (prefix \o "no-parse-time") :> FALSE))
options_matching ==
  Plain("max-time" :> 0 @@ "split-time" :> 0 @@ "filter-polygon" :> "" @@ "filter-method" :> "within"
        @@ "trajectory-simplification" :> TRUE @@ "filter-duplicates" :> TRUE @@ "filter-warps" :> TRUE
        @@ "warp-speed" :> 1500 @@ "simplify-track" :> TRUE @@ "simplify-track-distance-tolerance" :> 5
        @@ "median-merge" :> TRUE @@ "median-merge-distance-tolerance" :> 10
        @@ "adaptive-median-merge" :> TRUE @@ "within-edge-turns" :> FALSE @@ "a-star" :> FALSE
        @@ "a-star-euclidean" :> FALSE @@ "routing-max-distance-factor" :> 5
        @@ "candidate-adoption" :> TRUE @@ "candidate-adoption-siblings" :> TRUE
        @@ "candidate-adoption-nearby" :> TRUE @@ "candidate-adoption-reverse" :> FALSE
        @@ "candidate-search" :> "combined" @@ "radius" :> 200 @@ "radius-upper-limit" :> 10000
        @@ "radius-lower-limit" :> 200 @@ "adaptive-radius" :> TRUE @@ "k-nearest" :> 16)
options_model ==
  Plain("model" :> "value-iteration" @@ "skip-errors" :> TRUE @@ "state-size" :> 2 @@ "discount" :> "0.99")
options_weight(kind, length, azimuth, direction, turn) ==
  Plain((kind \o "-distance-factor") :> "0.8" @@ (kind \o "-length-factor") :> length
        @@ (kind \o "-azimuth-factor") :> azimuth @@ (kind \o "-direction-factor") :> direction
        @@ (kind \o "-turn-factor") :> turn)
options_weight_mdp == options_weight("mdp", "0.3", "0.5", "0.6", "0.5")
options_weight_hmm == options_weight("hmm", "0.1", "0.2", "0.8", "0.6")
options_dynamic_programming == Plain("threshold" :> "1e-3")
options_learning ==
  Plain("learning-rate" :> "0.9" @@ "epsilon" :> "0.5" @@ "early-stop-factor" :> "1.0"
        @@ "max-episodes" :> 1000000000)
options_comparison == Both(options_tracks("compare-"),
  Plain("ignore-non-existent" :> FALSE @@ "compare-simplify-distance-tolerance" :> "0.1"
        @@ "compare-simplify-reverse-tolerance" :> "0.1" @@ "compare-adoption-distance-tolerance" :> "0.3"
        @@ "compare-split-distance-tolerance" :> "1.0" @@ "compare-split-direction-tolerance" :> "90.0"))

options_mode == Both(options_all, options_global)
options_prepare == Together(<< options_mode, options_prepare_network, options_prepare_osm_import,
  options_srs_transform(""), options_prepare_files, options_prepare_export, options_prepare_process,
  options_prepare_memory >>)
options_work == Together(<< options_mode, options_console, options_performance >>)
options_match == Together(<< options_work, options_input, options_srs("network-"), options_files,
  options_memory, options_match_output, options_tracks(""), options_srs_transform("tracks-"),
  options_csv_tracks(""), options_export, options_matching, options_model, options_weight_mdp,
  options_weight_hmm, options_dynamic_programming, options_learning >>)
options_compare == Together(<< options_work, options_compare_output, options_tracks("match-"),
  options_srs_transform("match-"), options_csv_tracks("match-"), options_comparison,
  options_srs_transform("compare-"), options_csv_tracks("compare-") >>)
OptionsOf(mode) ==
  CASE mode = "prepare" -> options_prepare [] mode = "match" -> options_match [] mode = "compare" -> options_compare

-----------------------------------------------------------------------------
(* Corrections.  given holds the options that do not have their default.   *)

Override(values, new) == [o \in DOMAIN values \cup DOMAIN new |-> IF o \in DOMAIN new THEN new[o] ELSE values[o]]

\* The options of a group that are not given take its value.
\* Mutant: those that are given take it too.
FollowAll(values, given, group, members) == [o \in members |-> values[group]]
Follow(values, given, group, members) == [o \in members \ given |-> values[group]]

all_correct(values) == IF values["quiet"] THEN Override(values, "verbose" :> FALSE) ELSE values

\* What the columns ask for is exported.  The factor for the exported routes is that of the
\* match, or none for concatenated skips.
HasColumn(columns, name) == \E i \in DOMAIN columns : columns[i] = name
match_output_correct(values, given) ==
  LET exported == Override(values, [name \in { "match_times", "edges", "edge_ids" } |-> HasColumn(values["columns"], name)])
  IN  IF "export-routing-max-distance-factor-override" \in given THEN exported
      ELSE Override(exported, "export-routing-max-distance-factor-override" :>
             IF values["concatenate-skips"] THEN -1 ELSE values["routing-max-distance-factor"])

export_correct(values) ==
  IF values["candidates-export-all"] /\ HasColumn(values["candidates-columns"], "is_result")
    THEN Override(values, "candidates-columns" :> Append(values["candidates-columns"], "is_result"))
    ELSE values

prepare_process_correct(values, given) ==
  IF values["format"] = "seattle" /\ "remove-duplicate-nodes" \notin given
    THEN Override(values, "remove-duplicate-nodes" :> TRUE) ELSE values

FinalMemory == { "memory-mapped-graph", "memory-mapped-indices", "memory-mapped-tags" }
PrepareMemory == { "memory-mapped-graph-import", "memory-mapped-tags-import", "memory-mapped-index-build",
                   "memory-mapped-osm-vertices", "memory-mapped-osm-tags" }
memory_correct(values, given) ==
  IF "memory-mapping" \in given THEN Override(values, Follow(values, given, "memory-mapping", FinalMemory))
  ELSE values

\* The preparation that follows the general option counts as given for its own group.
prepare_memory_correct(values, given) ==
  LET final == memory_correct(values, given)
      general == "memory-mapping" \in given
      prepared == IF general THEN Override(final, Follow(final, given, "memory-mapping", { "memory-mapped-preparation" }))
                  ELSE final
  IN  IF general \/ "memory-mapped-preparation" \in given
        THEN Override(prepared, Follow(prepared, given, "memory-mapped-preparation", PrepareMemory))
        ELSE prepared

\* The type of the files is the extension of the last one; a type that is given is only
\* looked for under names that no option of the compare command has.
FileTypes == { "csv", "gpx", "list", "seattle" }
TypeGiven(given) == given \cap { "tracks-file-type", "match-file-type", "compare-file-type" } # {}
tracks_correct(values, given, prefix) ==
  IF values["read-line"] \/ TypeGiven(given) \/ (prefix \o "tracks") \notin DOMAIN values THEN values
  ELSE LET files == values[prefix \o "tracks"]
       IN  Override(values, (prefix \o "tracks-file-type") :> files[Len(files)])
tracks_rejected(values, given, prefix) ==
  /\ ~values["read-line"]
  /\ \/ (prefix \o "tracks") \notin given
     \/ ~TypeGiven(given) /\ \E i, j \in DOMAIN values[prefix \o "tracks"] :
                                values[prefix \o "tracks"][i] # values[prefix \o "tracks"][j]
     \/ values[prefix \o "tracks-file-type"] \notin FileTypes

Simplification == { "filter-duplicates", "filter-warps", "simplify-track", "median-merge", "adaptive-median-merge" }
Adoptions == { "candidate-adoption-siblings", "candidate-adoption-nearby", "candidate-adoption-reverse" }
matching_groups(values, given) ==
  LET simplified == IF "trajectory-simplification" \notin given THEN values
                    ELSE Override(values, Follow(values, given, "trajectory-simplification", Simplification))
  IN  IF "candidate-adoption" \notin given THEN simplified
      ELSE Override(simplified, Follow(values, given, "candidate-adoption", Adoptions))

Limits(radius, upper, lower) == << IF radius > upper THEN radius ELSE upper, IF radius < lower THEN radius ELSE lower >>
matching_correct(values, given) ==
  LET grouped == matching_groups(values, given)
      limits == Limits(values["radius"], values["radius-upper-limit"], values["radius-lower-limit"])
      turns == "within-edge-turns" \notin given /\ \A o \in Adoptions : ~grouped[o]
  IN  Override(grouped,
        "within-edge-turns" :> (turns \/ grouped["within-edge-turns"])
        @@ "a-star" :> (values["a-star"] \/ values["a-star-euclidean"])
        @@ "radius-upper-limit" :> limits[1] @@ "radius-lower-limit" :> limits[2]
        @@ "k-nearest" :> IF values["candidate-search"] = "next" THEN 1 ELSE values["k-nearest"])

prepare_correct(values, given) ==
  prepare_memory_correct(prepare_process_correct(all_correct(values), given), given)
match_correct(values, given) ==
  matching_correct(
    export_correct(tracks_correct(match_output_correct(memory_correct(all_correct(values), given), given), given, "")),
    given)
compare_correct(values, given) ==
  tracks_correct(tracks_correct(all_correct(values), given, "match-"), given, "compare-")
Corrected(mode, vm) ==
  CASE mode = "prepare" -> prepare_correct(vm.values, vm.given)
    [] mode = "match" -> match_correct(vm.values, vm.given)
    [] mode = "compare" -> compare_correct(vm.values, vm.given)

\* What correct() throws for, each for values that it has not changed before.
files_rejected(values) == values["graph-file"] = values["tags-file"] \/ values["graph-file"] = values["index-file"]
                            \/ values["tags-file"] = values["index-file"]
prepare_rejected(values) ==
  \/ values["format"] \notin { "osm", "arc-node", "seattle", "melbourne", "giscup" }
  \/ values["osm-profile"] \notin { "car", "manual" }
  \/ files_rejected(values)
  \/ values["simplify"] \notin { "none", "all", "osm-aware" }
match_rejected(values, given) ==
  \/ values["input"] # "directory"
  \/ files_rejected(values)
  \/ values["time-interpolation"] \notin { "none", "points", "geometric" }
  \/ tracks_rejected(values, given, "")
  \/ values["candidate-search"] \notin { "circle", "nearest", "combined", "next" }
  \/ values["filter-method"] \notin { "within", "intersects" }
  \/ values["model"] \notin { "policy-iteration", "value-iteration", "q-learning", "viterbi" }
  \/ values["state-size"] \notin 2..3
Rejected(mode, vm, values) ==
  CASE mode = "prepare" -> prepare_rejected(values)
    [] mode = "match" -> match_rejected(values, vm.given)
    [] mode = "compare" -> tracks_rejected(values, vm.given, "match-") \/ tracks_rejected(values, vm.given, "compare-")

-----------------------------------------------------------------------------
(* What a command works with.                                              *)

\* The options that one match is done with; the others are for reading, writing and storing.
MatchSettings(values) ==
  LET settings == { "verbose", "quiet", "output", "filename", "console", "candidates-export-all",
                    "export-edges", "match_times", "edges", "edge_ids", "export-timestamps", "export-time-zone",
                    "time-interpolation", "join-merges", "concatenate-skips",
                    "export-routing-max-distance-factor-override" }
                  \cup ((Known(options_matching) \cup Known(options_model) \cup Known(options_weight_mdp)
                          \cup Known(options_weight_hmm) \cup Known(options_dynamic_programming)
                          \cup Known(options_learning))
                        \ { "split-time", "filter-polygon", "filter-method", "trajectory-simplification",
                            "candidate-adoption" })
  IN  [o \in settings \cap DOMAIN values |-> values[o]]

\* The importer of a type; there is none for other types.
Importer(type) == IF type \in { "csv", "gpx" } THEN type ELSE "none"
\* Lines of the console, edges or the ground truth of Seattle, which are only exported, or tracks.
MatchReader(values) ==
  IF values["read-line"] THEN "console"
  ELSE IF values["tracks-file-type"] \in { "list", "seattle" } THEN values["tracks-file-type"]
  ELSE Importer(values["tracks-file-type"])

\* Where a part of the network is kept; what is not mapped is read from its file at the start.
Storage(values, option) == IF values[option] THEN "file" ELSE "memory"
Deserializes(values) == \E option \in FinalMemory : Storage(values, option) = "memory"

-----------------------------------------------------------------------------
(* The program.                                                            *)

\* po::store of the line, then of the file: what is there stays there.
Stored(group) ==
  LET known(map) == [o \in DOMAIN map \cap Known(group) |-> map[o]]
      file == IF call.exists THEN known(call.file) ELSE NoDefaults
  IN  [values |-> known(call.line) @@ file @@ group.defaults, given |-> DOMAIN known(call.line) \cup DOMAIN file]
\* A file that is named has to be there; the one of the default name need not.
FileMissing == "config" \in DOMAIN call.line /\ ~call.exists
Foreign(group) == ~(DOMAIN call.line \cup (IF call.exists THEN DOMAIN call.file ELSE {}) \subseteq Known(group))

ModesOf(vm) == { m \in Modes : vm.values[m] }
TheMode == CHOOSE m \in Modes : stored.values[m]

\* Parsing for the mode alone lets other options pass; help is shown only without a mode.
ParseMode ==
  /\ step = "mode"
  /\ LET vm == Stored(options_mode)
         shown == ("help" \in vm.given /\ ModesOf(vm) = {}) \/ "version" \in vm.given
     IN  /\ stored' = vm
         /\ IF FileMissing \/ shown THEN step' = "exit" /\ code' = 1 ELSE step' = "select" /\ UNCHANGED code
  /\ UNCHANGED << call, data, work >>

\* global_data::correct and _mode; the server does nothing.
SelectMode ==
  /\ step = "select"
  /\ IF \E m \in Modes : ModesOf(stored) = { m }
       THEN IF TheMode = "server" THEN step' = "exit" /\ code' = 0 ELSE step' = "command" /\ UNCHANGED code
       ELSE step' = "exit" /\ code' = 2
  /\ UNCHANGED << call, stored, data, work >>

\* The command parses again.  If that fails or shows help it returns 1, which _mode ignores.
ParseCommand ==
  /\ step = "command"
  /\ LET group == OptionsOf(TheMode)
         vm == Stored(group)
     IN  /\ stored' = vm
         /\ IF FileMissing \/ Foreign(group) \/ vm.given \cap { "help", "version" } # {}
                 \/ ~(group.required \subseteq vm.given)
              THEN step' = "exit" /\ code' = 0 ELSE step' = "correct" /\ UNCHANGED code
  /\ UNCHANGED << call, data, work >>

CorrectCommand ==
  /\ step = "correct"
  /\ \E values \in { Corrected(TheMode, stored) } :
       IF Rejected(TheMode, stored, values)
         THEN step' = "exit" /\ code' = 3 /\ UNCHANGED data
         ELSE step' = "work" /\ data' = values /\ UNCHANGED code
  /\ UNCHANGED << call, stored, work >>

\* The work starts; prepare looks for its files, compare reads csv and gpx only.
WorkOf(mode) ==
  CASE mode = "prepare" -> [storages |-> [o \in PrepareMemory \cup FinalMemory |-> Storage(data, o)]]
    [] mode = "match" -> [settings |-> MatchSettings(data), reader |-> MatchReader(data), loads |-> Deserializes(data),
                          storages |-> [o \in FinalMemory |-> Storage(data, o)]]
    [] mode = "compare" -> [readers |-> << Importer(data["match-tracks-file-type"]),
                                           Importer(data["compare-tracks-file-type"]) >>]
Fails(mode) ==
  CASE mode = "prepare" -> \E i \in DOMAIN data["file"] : data["file"][i] = "missing"
    [] mode = "match" -> FALSE
    [] mode = "compare" -> \E i \in 1..2 : WorkOf(mode).readers[i] = "none"
Work ==
  /\ step = "work"
  /\ IF Fails(TheMode) THEN code' = 3 /\ UNCHANGED work ELSE code' = 0 /\ work' = WorkOf(TheMode)
  /\ step' = "exit"
  /\ UNCHANGED << call, stored, data >>

NotCalled == [line |-> NoDefaults, file |-> NoDefaults, exists |-> FALSE]
NothingStored == [values |-> NoDefaults, given |-> {}]
OptionsInit ==
  step = "mode" /\ call \in Calls /\ stored = NothingStored /\ data = NoDefaults /\ work = NoDefaults /\ code = -1
OptionsNext == ParseMode \/ SelectMode \/ ParseCommand \/ CorrectCommand \/ Work

-----------------------------------------------------------------------------
(* Properties.                                                             *)

\* The groups, from a member to the option that speaks for it.
GroupOf ==
  [o \in FinalMemory \cup { "memory-mapped-preparation" } |-> "memory-mapping"]
  @@ [o \in PrepareMemory |-> "memory-mapped-preparation"]
  @@ [o \in Simplification |-> "trajectory-simplification"]
  @@ [o \in Adoptions |-> "candidate-adoption"]
Fathers(o) == IF o \notin DOMAIN GroupOf THEN {}
              ELSE IF GroupOf[o] \in DOMAIN GroupOf THEN { GroupOf[o], GroupOf[GroupOf[o]] } ELSE { GroupOf[o] }

\* What the call says of an option: its own value, else that of the nearest of its groups
\* that is given, else the default.  The line comes before the file.
Said(o) == IF o \in DOMAIN call.line THEN call.line[o] ELSE call.file[o]
Sources(o) == IF o \in stored.given THEN { o }
              ELSE IF o \in DOMAIN GroupOf /\ GroupOf[o] \in stored.given THEN { GroupOf[o] }
              ELSE Fathers(o) \cap stored.given
\* Options that correct() sets by what others say.
Dependent == { "verbose", "a-star", "radius-upper-limit", "radius-lower-limit", "k-nearest" }
\* Options for which the call gives what the help text and correct() treat differently.
Disputed ==
  { o \in { "candidate-adoption-reverse" } : o \notin stored.given /\ "candidate-adoption" \in stored.given
                                             /\ Said("candidate-adoption") }
  \cup { o \in { "candidates-columns" } : "candidates-export-all" \in stored.given /\ Said("candidates-export-all") }

\* When a command starts to work each option has the value that was given for it, or for its
\* group, or its default, however line, file and groups were combined; the settings the
\* matcher is given agree with each other: the radius lies within its limits, the euclidean
\* heuristic is used with A* only, turns within edges follow the adoptions; and a match has
\* something to read from.  Two options are left to HelpTextsHold where code and help text
\* differ: the reverse adoption when its group is switched on, and the columns when all
\* candidates are exported.
\* code: options.cpp:40-502 (correct), doc: options.cpp:1020-1082, 1225-1355 (help texts)
OptionsRespected ==
  (step = "work" \/ work # NoDefaults) =>
    /\ \A o \in (DOMAIN data \cap DOMAIN OptionsOf(TheMode).defaults) \ (Dependent \cup Disputed) :
         LET from == Sources(o)
         IN  IF from # {} THEN data[o] = Said(CHOOSE s \in from : TRUE)
             ELSE \/ data[o] = OptionsOf(TheMode).defaults[o]
                  \/ o = "within-edge-turns" /\ \A a \in Adoptions : ~data[a]
                  \/ o = "remove-duplicate-nodes" /\ data["format"] = "seattle"
    /\ TheMode = "match" =>
         /\ data["radius-lower-limit"] <= data["radius"] /\ data["radius"] <= data["radius-upper-limit"]
         /\ data["a-star-euclidean"] => data["a-star"]
         /\ data["candidate-search"] = "next" => data["k-nearest"] = 1
    /\ data["quiet"] => ~data["verbose"]
    /\ TheMode = "match" /\ step = "exit" =>
         work.reader # "none" /\ (work.loads <=> \E o \in DOMAIN work.storages : work.storages[o] = "memory")

\* What the help texts say of these two: candidate-adoption "does not activate
\* 'candidate-adoption-reverse' when not explicitly enabled" (options.cpp:1301), and
\* candidates-export-all "automatically adds is_result column to candidate-columns if it is
\* not already present" (options.cpp:954) - once, so that every column has a name of its own.
HelpTextsHold ==
  (step = "work" \/ work # NoDefaults) /\ TheMode = "match" =>
    /\ data["candidate-adoption-reverse"] => "candidate-adoption-reverse" \in stored.given
    /\ data["candidates-export-all"] =>
         Len(SelectSeq(data["candidates-columns"], LAMBDA column : column = "is_result")) = 1

=============================================================================
