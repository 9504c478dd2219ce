--------------------------- MODULE MatchPipeline ---------------------------
(***************************************************************************)
(* The match command: the reader of src/src/app/include/app/match.hpp, the *)
(* matcher (include/matching/matcher.hpp) and its three result sinks, the  *)
(* output printer and the two CSV exporters.                               *)
(*                                                                         *)
(* The matcher is a coordinator; it is taken here as what Coordinator is   *)
(* shown to implement, the TaskService whose tasks are the tracks.  Each   *)
(* sink is a coordinator of its own with one worker and a queue of 1024    *)
(* tasks: a pool thread that matched a track passes the result to the      *)
(* printer, then to the exporter, then to the candidates exporter, and     *)
(* blocks on a sink whose queue is full.  Main reads the tracks, stops and *)
(* joins the matcher and destroys it, member by member.                    *)
(***************************************************************************)
EXTENDS TaskService

CONSTANTS
    Room,            \* what a sink takes before its caller blocks: 1024 tasks in its
                     \* queue, 1024 submitted and one between them, in the code
    MaxRows,         \* bound on the candidate rows of one track
    FailingDisk,     \* TRUE: a CSV file may stop being writable
    ReaderMayThrow   \* TRUE: reading the tracks may end in an exception

ASSUME PipelineAssumption ==
    /\ Threads \in Nat \ {0}
    /\ Room \in Nat \ {0}
    /\ MaxRows \in Nat
    /\ {FailingDisk, ReaderMayThrow} \subseteq BOOLEAN
    /\ {"header", "summary"} \cap Tasks = {}

VARIABLES
    console,    \* the option console: results go to the console only; else to all
    main,       \* progress of main through _start_matching and the destructors
    step,       \* the sink or member that main stops, joins or destroys next
    threw,      \* an importer threw
    stage,      \* stage[t]: where the worker that executes t is in _match_impl
    sinkOpen,   \* sinkOpen[s]: the sink's queue is not closed
    pending,    \* pending[s]: the sink's queue
    rows,       \* rows[s]: what the sink's worker has yet to write of its task
    headed,     \* headed[s]: _header_written
    good,       \* good[s]: the sink's stream is writable
    file,       \* file[s]: what was written
    sinkOver,   \* sinkOver[s]: the sink was joined
    alive,      \* the sinks that are not destroyed yet
    received    \* history: received[s]: the tracks in the order in which s took them

mainVars == <<console, main, step, threw>>
sinkVars == <<sinkOpen, pending, rows, headed, good, file, sinkOver, alive, received>>
pipelineVars == <<serviceVars, mainVars, stage, sinkVars>>

\* The order of the passes in _match_impl, and of stop() and join() in ~matcher.
SinkOrder == <<"printer", "exporter", "candidates">>
Sinks == {"printer", "exporter", "candidates"}
CsvSinks == Sinks \ {"printer"}
UsedSinks == IF console THEN {"printer"} ELSE Sinks

\* The members of matcher are destroyed in the reverse of their declaration.
MemberOrder == <<"printer", "candidates", "exporter">>

\* The stage that follows the pass to sink s.
After(s) ==
    CASE s = "printer"    -> IF console THEN "reset" ELSE "exporter"
      [] s = "exporter"   -> "candidates"
      [] s = "candidates" -> "reset"

PipelineInit ==
    /\ ServiceInit
    /\ console \in BOOLEAN
    /\ main = "reading"
    /\ step = 1
    /\ threw = FALSE
    /\ stage = [t \in Tasks |-> "none"]
    /\ sinkOpen = [s \in Sinks |-> TRUE]
    /\ pending = [s \in Sinks |-> <<>>]
    /\ rows = [s \in Sinks |-> <<>>]
    /\ headed = [s \in Sinks |-> s = "printer"]
    /\ good = [s \in Sinks |-> TRUE]
    /\ file = [s \in Sinks |-> <<>>]
    /\ sinkOver = [s \in Sinks |-> FALSE]
    /\ alive = Sinks
    /\ received = [s \in Sinks |-> <<>>]

-----------------------------------------------------------------------------
(* The pool threads of the matcher: execute() and _match_impl().           *)

Begin(t) ==
    /\ TakeTask(t)
    /\ stage' = [stage EXCEPT ![t] = "match"]
    /\ UNCHANGED <<mainVars, sinkVars>>

\* The track is matched and the result merged.
Match(t) ==
    /\ stage[t] = "match"
    /\ stage' = [stage EXCEPT ![t] = "printer"]
    /\ UNCHANGED <<serviceVars, mainVars, sinkVars>>

\* Matching, or parse_result of a sink, or a pass() that was blocked when
\* the sink was closed, throws: what was not passed yet never is.
Throw(t) ==
    /\ stage[t] \in Sinks \cup {"match"}
    /\ EndTask(t, "threw")
    /\ stage' = [stage EXCEPT ![t] = "none"]
    /\ UNCHANGED <<mainVars, sinkVars>>

\* _X.pass(_X.parse_result(...)): the queue of sink X takes the result, at
\* once or when there is room.
Pass(t, s) ==
    /\ stage[t] = s
    /\ sinkOpen[s]
    /\ Len(pending[s]) < Room
    /\ pending' = [pending EXCEPT ![s] = Append(@, t)]
    /\ received' = [received EXCEPT ![s] = Append(@, t)]
    /\ stage' = [stage EXCEPT ![t] = After(s)]
    /\ UNCHANGED <<serviceVars, mainVars, sinkOpen, rows, headed, good, file,
                   sinkOver, alive>>

\* A closed sink drops what it is passed, and pass() returns.
PassClosed(t, s) ==
    /\ stage[t] = s
    /\ ~sinkOpen[s]
    /\ stage' = [stage EXCEPT ![t] = After(s)]
    /\ UNCHANGED <<serviceVars, mainVars, sinkVars>>

\* The geometry caches of the thread are reset and execute() returns.
Return(t) ==
    /\ stage[t] = "reset"
    /\ EndTask(t, "returned")
    /\ stage' = [stage EXCEPT ![t] = "none"]
    /\ UNCHANGED <<mainVars, sinkVars>>

-----------------------------------------------------------------------------
(* The worker of a sink.                                                   *)

\* The next task: one line or row, or the candidates of the track.
Take(s) ==
    /\ ~sinkOver[s]
    /\ rows[s] = <<>>
    /\ pending[s] # <<>>
    /\ \E n \in IF s = "candidates" THEN 0..MaxRows ELSE {1} :
          rows' = [rows EXCEPT ![s] = [i \in 1..n |-> Head(pending[s])]]
    /\ pending' = [pending EXCEPT ![s] = Tail(@)]
    /\ UNCHANGED <<serviceVars, mainVars, stage, sinkOpen, headed, good, file,
                   sinkOver, alive, received>>

WriteRow(s) ==
    /\ rows[s] # <<>>
    /\ LET heading == IF headed[s] THEN <<>> ELSE <<"header">>
       IN  file' = [file EXCEPT ![s] = IF good[s] THEN @ \o heading \o <<Head(rows[s])>>
                                                  ELSE @]
    /\ headed' = [headed EXCEPT ![s] = TRUE]
    /\ rows' = [rows EXCEPT ![s] = Tail(@)]
    /\ UNCHANGED <<serviceVars, mainVars, stage, sinkOpen, pending, good,
                   sinkOver, alive, received>>

\* The stream of a CSV file gets into a bad state and stays there.
DiskFails(s) ==
    /\ FailingDisk
    /\ s \in CsvSinks
    /\ good[s]
    /\ good' = [good EXCEPT ![s] = FALSE]
    /\ UNCHANGED <<serviceVars, mainVars, stage, sinkOpen, pending, rows, headed, file,
                   sinkOver, alive, received>>

-----------------------------------------------------------------------------
(* Main: _start_matching.                                                  *)

\* The reader hands over a track.
ReadTrack(t) ==
    /\ main = "reading"
    /\ AcceptTask(t)
    /\ UNCHANGED <<mainVars, stage, sinkVars>>

\* "reading finished, close queue": matcher->stop().
ReadingEnds ==
    /\ main = "reading"
    /\ StopService
    /\ main' = "joining"
    /\ UNCHANGED <<console, step, threw, stage, sinkVars>>

\* An importer throws: no stop(), no join(), the matcher is destroyed while
\* the exception leaves _start_matching.
ReaderThrows ==
    /\ ReaderMayThrow
    /\ main = "reading"
    /\ main' = "stop sinks"
    /\ threw' = TRUE
    /\ UNCHANGED <<serviceVars, console, step, stage, sinkVars>>

\* Mutant: matcher.reset() without matcher->join().
ResetOnly ==
    /\ main = "joining"
    /\ main' = "stop sinks"
    /\ UNCHANGED <<serviceVars, console, step, threw, stage, sinkVars>>

\* _join_matcher: matcher->join(), then matcher.reset().
JoinMatcher ==
    /\ main = "joining"
    /\ JoinService
    /\ main' = "stop sinks"
    /\ UNCHANGED <<console, step, threw, stage, sinkVars>>

\* ~matcher: stop() of each sink, ...
StopSink ==
    /\ main = "stop sinks"
    /\ sinkOpen' = [sinkOpen EXCEPT ![SinkOrder[step]] = FALSE]
    /\ main' = IF step = 3 THEN "join sinks" ELSE main
    /\ step' = IF step = 3 THEN 1 ELSE step + 1
    /\ UNCHANGED <<serviceVars, console, threw, stage, pending, rows, headed, good, file, sinkOver,
                   alive, received>>

\* Mutant: a sink is left without waiting for its worker.
NoJoinSink ==
    /\ main = "join sinks"
    /\ main' = IF step = 3 THEN "members" ELSE main
    /\ step' = IF step = 3 THEN 1 ELSE step + 1
    /\ UNCHANGED <<serviceVars, console, threw, stage, sinkVars>>

\* ... then join() of each, which a task taken at the moment of stop() may
\* outlast in the queue (Coordinator's StrandedOnlyInWindow).
JoinSink ==
    /\ main = "join sinks"
    /\ rows[SinkOrder[step]] = <<>>
    /\ sinkOver' = [sinkOver EXCEPT ![SinkOrder[step]] = TRUE]
    /\ main' = IF step = 3 THEN "members" ELSE main
    /\ step' = IF step = 3 THEN 1 ELSE step + 1
    /\ UNCHANGED <<serviceVars, console, threw, stage, sinkOpen, pending, rows, headed, good, file,
                   alive, received>>

\* The destructor of the printer prints the totals if anything was counted.
Summary == IF console \/ file["printer"] = <<>> THEN <<>> ELSE <<"summary">>

DestroyMember ==
    /\ main = "members"
    /\ alive' = alive \ {MemberOrder[step]}
    /\ file' = IF MemberOrder[step] = "printer"
               THEN [file EXCEPT !["printer"] = @ \o Summary] ELSE file
    /\ main' = IF step = 3 THEN "base" ELSE main
    /\ step' = IF step = 3 THEN 1 ELSE step + 1
    /\ UNCHANGED <<serviceVars, console, threw, stage, sinkOpen, pending, rows, headed, good,
                   sinkOver, received>>

\* ~coordinator of the matcher: close the queue unless closed, ...
StopBase ==
    /\ main = "base"
    /\ open' = FALSE
    /\ main' = "join base"
    /\ UNCHANGED <<phase, line, over, console, step, threw, stage, sinkVars>>

\* ... and join, at once when join() was called before.
JoinBase ==
    /\ main = "join base"
    /\ over \/ JoinService
    /\ over' = TRUE
    /\ main' = "done"
    /\ UNCHANGED <<phase, line, open, console, step, threw, stage, sinkVars>>

Done ==
    /\ main = "done"
    /\ UNCHANGED pipelineVars

Works(t) ==
    \/ Begin(t) \/ Match(t) \/ Return(t)
    \/ \E s \in Sinks : Pass(t, s) \/ PassClosed(t, s)

Worker(t) == Works(t) \/ Throw(t)

Sink(s) == Take(s) \/ WriteRow(s)

Main ==
    \/ \E t \in Tasks : ReadTrack(t)
    \/ ReadingEnds \/ ReaderThrows \/ JoinMatcher
    \/ StopSink \/ JoinSink \/ DestroyMember \/ StopBase \/ JoinBase

PipelineNext ==
    \/ \E t \in Tasks : Worker(t)
    \/ \E s \in Sinks : Sink(s) \/ DiskFails(s)
    \/ Main
    \/ Done

PipelineSpec == PipelineInit /\ [][PipelineNext]_pipelineVars

-----------------------------------------------------------------------------
(* Properties.                                                             *)

In(x, seq) == \E i \in DOMAIN seq : seq[i] = x

\* The worker of t uses, or is about to use, a member that is gone.
Dangling(t) ==
    /\ phase[t] = "executing"
    /\ IF stage[t] \in Sinks THEN stage[t] \notin alive ELSE alive # Sinks

\* No worker ever touches a sink that ~matcher has destroyed, whatever the
\* matches throw: matcher->join() comes before matcher.reset().  It may happen
\* only when an importer threw, so that ~matcher runs while workers still match.
NoDanglingUse == (\E t \in Tasks : Dangling(t)) => threw

\* The result of every track whose execute() returned went to every sink in
\* use, and at the end it is in the sink's file, unless the file was not
\* writable, the task stayed in the queue or the track had no candidate.  When
\* an importer threw, the sinks are closed under the workers and drop results.
RowOfEachMatch ==
    \A t \in Tasks : (phase[t] = "returned" /\ ~threw) =>
        \A s \in UsedSinks :
            /\ In(t, received[s])
            /\ (sinkOver[s] /\ good[s] /\ s # "candidates")
                  => In(t, pending[s]) \/ In(t, file[s])

\* A track that threw midway may be in some outputs and not in others, but
\* only from the end: no CSV row without the line on the console, no
\* candidates without the row.  An importer that throws closes the printer
\* before the others, and only then may a row come without its line.
PassOrder ==
    ~threw => \A i \in 1..2 : \A t \in Tasks :
        In(t, received[SinkOrder[i + 1]]) => In(t, received[SinkOrder[i]])

\* No result is lost on its way through the sinks, and they get it in order.
SinksFed == RowOfEachMatch /\ PassOrder

\* Position of the first occurrence in a sequence.
Position(x, seq) ==
    CHOOSE i \in DOMAIN seq : seq[i] = x /\ \A j \in 1..(i - 1) : seq[j] # x

\* A CSV file starts with its header and has it once; the rows of a track
\* stand together, one track after the other in the order in which the sink
\* was given their results.  The totals are printed once, after the lines of
\* all results that were handed to the printer and not left in its queue.
FileWellFormed ==
    \A s \in Sinks : LET f == file[s] IN
        /\ In("summary", f) => \A t \in Tasks : In(t, received[s]) => In(t, f) \/ In(t, pending[s])
        /\ \A i \in DOMAIN f :
            /\ (f[i] = "header") <=> (i = 1 /\ s \in CsvSinks)
            /\ f[i] = "summary" => s = "printer" /\ i = Len(f)
            /\ \A j \in (i + 1)..Len(f) :
                  f[i] \in Tasks /\ f[j] \in Tasks =>
                      Position(f[i], received[s]) <= Position(f[j], received[s])

\* When the command has ended, also by an importer's exception, every worker
\* has ended, and each track that was not matched never will be.
NothingRunsAtEnd ==
    main = "done" => over /\ Running = {} /\ \A t \in Tasks : stage[t] = "none"

\* Every result is passed to living sinks, in order and once (matcher.hpp, ~matcher and
\* pass_match; the forwarders).
ResultsReachSinks == NoDanglingUse /\ SinksFed

\* What the command leaves is whole, and nothing works on after it (match.cpp,
\* csv_exporter.hpp, results_output_printer.hpp).
OutputIsWhole == FileWellFormed /\ NothingRunsAtEnd
=============================================================================
