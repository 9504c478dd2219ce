------------------------ MODULE MatchPipelineProofs ------------------------
(***************************************************************************)
(* Proofs about MatchPipeline, for any set of tracks, any number of        *)
(* threads, any capacity of the sinks and any number of rows.              *)
(***************************************************************************)
EXTENDS MatchPipeline, SequenceTheorems, TLAPS

Reading == {"reading", "joining"}

PipelineTypes ==
    /\ phase \in [Tasks -> {"new", "accepted", "executing", "returned", "threw"}]
    /\ console \in BOOLEAN
    /\ main \in Reading \cup {"stop sinks", "join sinks", "members", "base", "join base", "done"}
    /\ step \in 1..3
    /\ stage \in [Tasks -> {"none", "match", "reset"} \cup Sinks]
    /\ sinkOpen \in [Sinks -> BOOLEAN]
    /\ pending \in [Sinks -> Seq(Tasks)]
    /\ rows \in [Sinks -> Seq(Tasks)]
    /\ good \in [Sinks -> BOOLEAN]
    /\ file \in [Sinks -> Seq(Tasks \cup {"header", "summary"})]
    /\ sinkOver \in [Sinks -> BOOLEAN]
    /\ received \in [Sinks -> Seq(Tasks)]

\* A worker is inside _match_impl exactly while its track is executing.
StageOK == \A t \in Tasks : stage[t] = "none" <=> phase[t] # "executing"

\* The matcher is joined before its sinks are stopped, unless an importer threw.
JoinedOK ==
    /\ over => \A t \in Tasks : phase[t] # "executing"
    /\ main \in Reading => alive = Sinks /\ \A s \in Sinks : sinkOpen[s]
    /\ main \notin Reading /\ ~threw => over
    /\ main = "done" => over

\* A sink that was joined has no row left to write.
SinkOverOK == \A s \in Sinks : sinkOver[s] => rows[s] = <<>>

\* Who has come to a sink has been at the sinks before it.
PassedOK ==
    ~threw => \A t \in Tasks :
        /\ stage[t] \in {"exporter", "candidates"} => In(t, received["printer"])
        /\ stage[t] = "candidates" => In(t, received["exporter"])
        /\ stage[t] = "reset" \/ phase[t] = "returned" =>
              \A s \in UsedSinks : In(t, received[s])
        /\ In(t, received["exporter"]) => In(t, received["printer"])
        /\ In(t, received["candidates"]) => In(t, received["exporter"])

\* What the printer or the exporter received is in its queue, in hand or written.
KeptOK ==
    \A s \in {"printer", "exporter"} : \A t \in Tasks :
        good[s] /\ In(t, received[s]) =>
            In(t, pending[s]) \/ In(t, rows[s]) \/ In(t, file[s])

PipelineInv ==
    /\ PipelineTypes
    /\ StageOK
    /\ JoinedOK
    /\ SinkOverOK
    /\ PassedOK
    /\ KeptOK

-----------------------------------------------------------------------------
(* Membership in sequences.                                                *)

LEMMA NotInEmpty == \A x : ~In(x, <<>>)
  BY DEF In

LEMMA InAppend ==
  ASSUME NEW S, NEW seq \in Seq(S), NEW y \in S, NEW x
  PROVE  In(x, Append(seq, y)) <=> In(x, seq) \/ x = y
<1>1. In(x, Append(seq, y)) => In(x, seq) \/ x = y
  <2> SUFFICES ASSUME NEW i \in DOMAIN Append(seq, y), Append(seq, y)[i] = x, x # y
               PROVE  In(x, seq)
    BY DEF In
  <2>1. i \in DOMAIN seq /\ seq[i] = x
    BY AppendProperties
  <2> QED
    BY <2>1 DEF In
<1>2. In(x, seq) => In(x, Append(seq, y))
  <2> SUFFICES ASSUME NEW i \in DOMAIN seq, seq[i] = x
               PROVE  In(x, Append(seq, y))
    BY DEF In
  <2>1. i \in DOMAIN Append(seq, y) /\ Append(seq, y)[i] = x
    BY AppendProperties
  <2> QED
    BY <2>1 DEF In
<1>3. In(y, Append(seq, y))
  <2>1. Len(seq) + 1 \in DOMAIN Append(seq, y) /\ Append(seq, y)[Len(seq) + 1] = y
    BY AppendProperties
  <2> QED
    BY <2>1 DEF In
<1> QED
  BY <1>1, <1>2, <1>3

LEMMA InTail ==
  ASSUME NEW S, NEW seq \in Seq(S), seq # <<>>, NEW x
  PROVE  In(x, seq) <=> x = Head(seq) \/ In(x, Tail(seq))
<1>1. In(x, seq) => x = Head(seq) \/ In(x, Tail(seq))
  <2> SUFFICES ASSUME NEW i \in DOMAIN seq, seq[i] = x, i # 1
               PROVE  In(x, Tail(seq))
    BY DEF In
  <2>1. i - 1 \in DOMAIN Tail(seq) /\ Tail(seq)[i - 1] = x
    BY HeadTailProperties
  <2> QED
    BY <2>1 DEF In
<1>2. x = Head(seq) => In(x, seq)
  BY DEF In
<1>3. In(x, Tail(seq)) => In(x, seq)
  <2> SUFFICES ASSUME NEW i \in DOMAIN Tail(seq), Tail(seq)[i] = x
               PROVE  In(x, seq)
    BY DEF In
  <2>1. i + 1 \in DOMAIN seq /\ seq[i + 1] = x
    BY HeadTailProperties
  <2> QED
    BY <2>1 DEF In
<1> QED
  BY <1>1, <1>2, <1>3

LEMMA InConcat ==
  ASSUME NEW S, NEW s \in Seq(S), NEW t \in Seq(S), NEW x
  PROVE  In(x, s \o t) <=> In(x, s) \/ In(x, t)
<1>1. In(x, s \o t) => In(x, s) \/ In(x, t)
  <2> SUFFICES ASSUME NEW i \in DOMAIN (s \o t), (s \o t)[i] = x, ~In(x, s)
               PROVE  In(x, t)
    BY DEF In
  <2>1. i - Len(s) \in DOMAIN t /\ t[i - Len(s)] = x
    BY ConcatProperties DEF In
  <2> QED
    BY <2>1 DEF In
<1>2. In(x, s) => In(x, s \o t)
  <2> SUFFICES ASSUME NEW i \in DOMAIN s, s[i] = x
               PROVE  In(x, s \o t)
    BY DEF In
  <2>1. i \in DOMAIN (s \o t) /\ (s \o t)[i] = x
    BY ConcatProperties
  <2> QED
    BY <2>1 DEF In
<1>3. In(x, t) => In(x, s \o t)
  <2> SUFFICES ASSUME NEW i \in DOMAIN t, t[i] = x
               PROVE  In(x, s \o t)
    BY DEF In
  <2>1. i + Len(s) \in DOMAIN (s \o t) /\ (s \o t)[i + Len(s)] = x
    BY ConcatProperties
  <2> QED
    BY <2>1 DEF In
<1> QED
  BY <1>1, <1>2, <1>3

LEMMA InOne == \A x, y : In(x, <<y>>) <=> x = y
  BY DEF In
-----------------------------------------------------------------------------
(* The invariant.                                                          *)

LEMMA TypesInit == PipelineInit => PipelineTypes
<1>1. \A S : <<>> \in Seq(S)
  BY EmptySeq
<1> QED
  BY <1>1 DEF PipelineInit, ServiceInit, PipelineTypes, Reading, Sinks

LEMMA SummaryIsSeq == Summary \in Seq(Tasks \cup {"header", "summary"})
<1>1. <<"summary">> \in Seq(Tasks \cup {"header", "summary"})
  OBVIOUS
<1>2. <<>> \in Seq(Tasks \cup {"header", "summary"})
  OBVIOUS
<1> QED
  BY <1>1, <1>2 DEF Summary

\* What a sink writes for a track and above the first of them.
LEMMA LinesAreSeq ==
  /\ \A t \in Tasks : <<t>> \in Seq(Tasks \cup {"header", "summary"})
  /\ \A b : (IF b THEN <<>> ELSE <<"header">>) \in Seq(Tasks \cup {"header", "summary"})
<1>1. \A t \in Tasks : <<t>> \in Seq(Tasks \cup {"header", "summary"})
  OBVIOUS
<1>2. <<"header">> \in Seq(Tasks \cup {"header", "summary"})
  OBVIOUS
<1>3. <<>> \in Seq(Tasks \cup {"header", "summary"})
  OBVIOUS
<1> QED
  BY <1>1, <1>2, <1>3

LEMMA RowCounts ==
  ASSUME NEW s, NEW n \in IF s = "candidates" THEN 0..MaxRows ELSE {1}
  PROVE  n \in Nat
  BY PipelineAssumption DEF PipelineAssumption

LEMMA RowsAreSeq ==
  ASSUME NEW n \in Nat, NEW t \in Tasks
  PROVE  [i \in 1..n |-> t] \in Seq(Tasks)
  OBVIOUS

LEMMA OrderNamesSinks == \A i \in 1..3 : SinkOrder[i] \in Sinks
<1>1. \A i \in 1..3 : i = 1 \/ i = 2 \/ i = 3
  OBVIOUS
<1> QED
  BY <1>1 DEF SinkOrder, Sinks

LEMMA StepStaysInRange ==
  ASSUME step \in 1..3, step' = IF step = 3 THEN 1 ELSE step + 1
  PROVE  step' \in 1..3
  OBVIOUS

\* What a sink takes, writes and prints are sequences of tracks and marks.
LEMMA TypesStep == PipelineTypes /\ [PipelineNext]_pipelineVars => PipelineTypes'
<1> SUFFICES ASSUME PipelineTypes, [PipelineNext]_pipelineVars PROVE PipelineTypes'
  OBVIOUS
<1> USE DEF PipelineTypes, Reading, mainVars, sinkVars, serviceVars
<1>1. ASSUME NEW t \in Tasks, Begin(t) \/ Match(t) \/ Throw(t) \/ Return(t)
      PROVE  PipelineTypes'
  BY <1>1 DEF Begin, Match, Throw, Return, TakeTask, EndTask, Become, Sinks
<1>2. ASSUME NEW t \in Tasks, NEW s \in Sinks, Pass(t, s) \/ PassClosed(t, s)
      PROVE  PipelineTypes'
  <2>1. After(s) \in {"none", "match", "reset"} \cup Sinks
    BY DEF After, Sinks
  <2>2. \A seq \in Seq(Tasks) : Append(seq, t) \in Seq(Tasks)
    BY AppendProperties
  <2>3. CASE Pass(t, s)
    BY <2>1, <2>2, <2>3 DEF Pass
  <2>4. CASE PassClosed(t, s)
    BY <2>1, <2>4 DEF PassClosed
  <2> QED
    BY <1>2, <2>3, <2>4
<1>3. ASSUME NEW s \in Sinks, Take(s) PROVE PipelineTypes'
  <2>1. Head(pending[s]) \in Tasks /\ Tail(pending[s]) \in Seq(Tasks)
    BY <1>3, HeadTailProperties DEF Take
  <2>2. PICK n \in IF s = "candidates" THEN 0..MaxRows ELSE {1} :
           rows' = [rows EXCEPT ![s] = [i \in 1..n |-> Head(pending[s])]]
    BY <1>3 DEF Take
  <2>3. n \in Nat
    BY <2>2, RowCounts
  <2>4. [i \in 1..n |-> Head(pending[s])] \in Seq(Tasks)
    BY <2>1, <2>3, RowsAreSeq
  <2> QED
    BY <1>3, <2>1, <2>2, <2>4 DEF Take
<1>4. ASSUME NEW s \in Sinks, WriteRow(s) PROVE PipelineTypes'
  <2> DEFINE Marked == Tasks \cup {"header", "summary"}
             heading == IF headed[s] THEN <<>> ELSE <<"header">>
  <2>1. Head(rows[s]) \in Tasks /\ Tail(rows[s]) \in Seq(Tasks)
    BY <1>4, HeadTailProperties DEF WriteRow
  <2>2. heading \in Seq(Marked) /\ <<Head(rows[s])>> \in Seq(Marked)
    BY <2>1, LinesAreSeq
  <2>3. file[s] \o heading \o <<Head(rows[s])>> \in Seq(Marked)
    BY <2>2, ConcatProperties
  <2> QED
    BY <1>4, <2>1, <2>3 DEF WriteRow
<1>5. ASSUME NEW s \in Sinks, DiskFails(s) PROVE PipelineTypes'
  BY <1>5 DEF DiskFails
<1>6. CASE \/ \E t \in Tasks : ReadTrack(t)
           \/ ReadingEnds \/ ReaderThrows \/ JoinMatcher \/ StopBase \/ JoinBase
  BY <1>6 DEF ReadTrack, ReadingEnds, ReaderThrows, JoinMatcher, StopBase, JoinBase,
              AcceptTask, StopService, JoinService, Become
<1>7. CASE StopSink \/ JoinSink
  <2>1. SinkOrder[step] \in Sinks
    BY OrderNamesSinks
  <2>2. step' \in 1..3
    BY <1>7, StepStaysInRange DEF StopSink, JoinSink
  <2>3. CASE StopSink
    BY <2>1, <2>2, <2>3 DEF StopSink
  <2>4. CASE JoinSink
    BY <2>1, <2>2, <2>4 DEF JoinSink
  <2> QED
    BY <1>7, <2>3, <2>4
<1>8. CASE DestroyMember
  <2>1. file["printer"] \o Summary \in Seq(Tasks \cup {"header", "summary"})
    BY SummaryIsSeq, ConcatProperties DEF Sinks
  <2>2. step' \in 1..3
    BY <1>8, StepStaysInRange DEF DestroyMember
  <2>3. file' \in [Sinks -> Seq(Tasks \cup {"header", "summary"})]
    BY <1>8, <2>1 DEF DestroyMember
  <2> QED
    BY <1>8, <2>2, <2>3 DEF DestroyMember
<1>9. CASE UNCHANGED pipelineVars
  BY <1>9 DEF pipelineVars
<1> QED
  BY <1>1, <1>2, <1>3, <1>4, <1>5, <1>6, <1>7, <1>8, <1>9
  DEF PipelineNext, Worker, Works, Sink, Main, Done

LEMMA StageStep ==
  PipelineTypes /\ StageOK /\ [PipelineNext]_pipelineVars => StageOK'
<1> SUFFICES ASSUME PipelineTypes, StageOK, [PipelineNext]_pipelineVars PROVE StageOK'
  OBVIOUS
<1> USE DEF StageOK, PipelineTypes, mainVars, sinkVars, serviceVars
<1>1. ASSUME NEW t \in Tasks, Begin(t) \/ Match(t) \/ Throw(t) \/ Return(t)
      PROVE  StageOK'
  BY <1>1 DEF Begin, Match, Throw, Return, TakeTask, EndTask, Become, Sinks
<1>2. ASSUME NEW t \in Tasks, NEW s \in Sinks, Pass(t, s) \/ PassClosed(t, s)
      PROVE  StageOK'
  <2>1. After(s) # "none" /\ s # "none"
    BY DEF After, Sinks
  <2> QED
    BY <1>2, <2>1 DEF Pass, PassClosed
<1>3. ASSUME NEW t \in Tasks, ReadTrack(t) PROVE StageOK'
  BY <1>3 DEF ReadTrack, AcceptTask, Become
<1>4. CASE UNCHANGED <<phase, stage>>
  BY <1>4
<1> QED
  BY <1>1, <1>2, <1>3, <1>4
  DEF PipelineNext, Worker, Works, Sink, Take, WriteRow, DiskFails, Main, ReadingEnds, ReaderThrows,
      JoinMatcher, StopSink, JoinSink, DestroyMember, StopBase, JoinBase, Done, StopService,
      JoinService, pipelineVars

\* No worker begins once the matcher is joined, and the sinks live until main goes on.
LEMMA JoinedStep ==
  PipelineTypes /\ JoinedOK /\ [PipelineNext]_pipelineVars => JoinedOK'
<1> SUFFICES ASSUME PipelineTypes, JoinedOK, [PipelineNext]_pipelineVars PROVE JoinedOK'
  OBVIOUS
<1> USE DEF JoinedOK, Running, Reading, mainVars, sinkVars, serviceVars
<1>1. ASSUME NEW t \in Tasks, Begin(t) PROVE JoinedOK'
  BY <1>1 DEF Begin, TakeTask
<1>2. ASSUME NEW t \in Tasks, Throw(t) PROVE JoinedOK'
  BY <1>2 DEF Throw, EndTask, Become, PipelineTypes
<1>3. ASSUME NEW t \in Tasks, Return(t) PROVE JoinedOK'
  BY <1>3 DEF Return, EndTask, Become, PipelineTypes
<1>4. ASSUME NEW t \in Tasks, ReadTrack(t) PROVE JoinedOK'
  BY <1>4 DEF ReadTrack, AcceptTask, Become, PipelineTypes
<1>5. CASE ReadingEnds
  BY <1>5 DEF ReadingEnds, StopService
<1>6. CASE ReaderThrows
  BY <1>6 DEF ReaderThrows
<1>7. CASE JoinMatcher
  BY <1>7 DEF JoinMatcher, JoinService
<1>8. CASE StopSink
  BY <1>8 DEF StopSink
<1>9. CASE JoinSink
  BY <1>9 DEF JoinSink
<1>10. CASE DestroyMember
  BY <1>10 DEF DestroyMember
<1>11. CASE StopBase
  BY <1>11 DEF StopBase
<1>12. CASE JoinBase
  BY <1>12 DEF JoinBase, JoinService
<1>13. CASE UNCHANGED <<serviceVars, mainVars, sinkOpen, alive>>
  BY <1>13
<1> QED
  BY <1>1, <1>2, <1>3, <1>4, <1>5, <1>6, <1>7, <1>8, <1>9, <1>10, <1>11, <1>12, <1>13
  DEF PipelineNext, Worker, Works, Match, Pass, PassClosed, Sink, Take, WriteRow, DiskFails, Main,
      Done, pipelineVars

LEMMA SinkOverStep ==
  PipelineTypes /\ SinkOverOK /\ [PipelineNext]_pipelineVars => SinkOverOK'
<1> SUFFICES ASSUME PipelineTypes, SinkOverOK, [PipelineNext]_pipelineVars PROVE SinkOverOK'
  OBVIOUS
<1> USE DEF SinkOverOK, PipelineTypes, mainVars, sinkVars, serviceVars
<1>1. ASSUME NEW s \in Sinks, Take(s) \/ WriteRow(s) PROVE SinkOverOK'
  BY <1>1 DEF Take, WriteRow
<1>2. CASE JoinSink
  BY <1>2 DEF JoinSink
<1>3. CASE UNCHANGED <<rows, sinkOver>>
  BY <1>3
<1> QED
  BY <1>1, <1>2, <1>3
  DEF PipelineNext, Worker, Works, Begin, Match, Throw, Return, Pass, PassClosed, Sink, DiskFails,
      Main, ReadTrack, ReadingEnds, ReaderThrows, JoinMatcher, StopSink, DestroyMember, StopBase,
      JoinBase, Done, pipelineVars

\* What a pass adds to a sink.
LEMMA PassAdds ==
  ASSUME PipelineTypes, NEW t \in Tasks, NEW s \in Sinks, Pass(t, s)
  PROVE  \A r \in Sinks : \A x \in Tasks :
           /\ In(x, received'[r]) <=> In(x, received[r]) \/ (r = s /\ x = t)
           /\ In(x, pending'[r]) <=> In(x, pending[r]) \/ (r = s /\ x = t)
<1>1. /\ received' = [received EXCEPT ![s] = Append(received[s], t)]
      /\ pending' = [pending EXCEPT ![s] = Append(pending[s], t)]
  BY DEF Pass
<1>2. received[s] \in Seq(Tasks) /\ pending[s] \in Seq(Tasks)
  BY DEF PipelineTypes
<1>3. ASSUME NEW r \in Sinks, NEW x \in Tasks
      PROVE  /\ In(x, received'[r]) <=> In(x, received[r]) \/ (r = s /\ x = t)
             /\ In(x, pending'[r]) <=> In(x, pending[r]) \/ (r = s /\ x = t)
  <2>1. CASE r = s
    <3>1. received'[r] = Append(received[s], t) /\ pending'[r] = Append(pending[s], t)
      BY <1>1, <2>1 DEF PipelineTypes
    <3>2. /\ In(x, Append(received[s], t)) <=> In(x, received[s]) \/ x = t
          /\ In(x, Append(pending[s], t)) <=> In(x, pending[s]) \/ x = t
      BY <1>2, InAppend
    <3> QED
      BY <2>1, <3>1, <3>2
  <2>2. CASE r # s
    BY <1>1, <2>2 DEF PipelineTypes
  <2> QED
    BY <2>1, <2>2
<1> QED
  BY <1>3

\* A worker passes its sinks in their order: with a sink that is open, that is the only
\* way on, and the sinks are open as long as main is reading or joining.
LEMMA PassedStep ==
  PipelineInv /\ [PipelineNext]_pipelineVars => PassedOK'
<1> SUFFICES ASSUME PipelineInv, [PipelineNext]_pipelineVars, ~threw' PROVE PassedOK'
  BY DEF PassedOK
<1> USE DEF PipelineInv
<1>0. ~threw
  BY DEF PipelineNext, Worker, Works, Begin, Match, Throw, Return, Pass, PassClosed, Sink, Take,
         WriteRow, DiskFails, Main, ReadTrack, ReadingEnds, ReaderThrows, JoinMatcher, StopSink,
         JoinSink, DestroyMember, StopBase, JoinBase, Done, mainVars, pipelineVars
<1>1. ASSUME NEW t \in Tasks, Begin(t) \/ Match(t) \/ Throw(t) \/ Return(t)
      PROVE  PassedOK'
  <2>1. /\ UNCHANGED <<received, console, threw>>
        /\ \A x \in Tasks : x # t => stage'[x] = stage[x] /\ phase'[x] = phase[x]
    BY <1>1 DEF PipelineTypes, Begin, Match, Throw, Return, TakeTask, EndTask, Become, mainVars,
                sinkVars, serviceVars
  <2>2. /\ stage'[t] \in {"none", "match", "printer"}
        /\ phase'[t] = "returned" => stage[t] = "reset"
    BY <1>1 DEF PipelineTypes, StageOK, Begin, Match, Throw, Return, TakeTask, EndTask, Become,
                mainVars, sinkVars, serviceVars
  <2> QED
    BY <1>0, <2>1, <2>2 DEF PassedOK, UsedSinks
<1>2. ASSUME NEW t \in Tasks, NEW s \in Sinks, Pass(t, s) PROVE PassedOK'
  <2>1. \A r \in Sinks : \A x \in Tasks :
           In(x, received'[r]) <=> In(x, received[r]) \/ (r = s /\ x = t)
    BY <1>2, PassAdds
  <2>2. /\ stage[t] = s /\ stage' = [stage EXCEPT ![t] = After(s)]
        /\ UNCHANGED <<phase, console, threw>>
    BY <1>2 DEF Pass, serviceVars, mainVars
  <2>3. phase[t] = "executing"
    BY <2>2 DEF StageOK, Sinks
  <2>4. s = "printer" \/ s = "exporter" \/ s = "candidates"
    BY DEF Sinks
  <2> QED
    BY <1>0, <2>1, <2>2, <2>3, <2>4 DEF PassedOK, PipelineTypes, After, UsedSinks, Sinks
<1>3. ASSUME NEW t \in Tasks, NEW s \in Sinks, PassClosed(t, s) PROVE PassedOK'
  <2>1. phase[t] = "executing" /\ ~sinkOpen[s]
    BY <1>3 DEF PassClosed, StageOK, Sinks
  <2> QED
    BY <1>0, <2>1 DEF JoinedOK, Running
<1>4. CASE UNCHANGED <<stage, received, console, threw>> /\ \A t \in Tasks : phase'[t] = phase[t]
                                                                        \/ phase'[t] = "accepted"
  BY <1>0, <1>4 DEF PassedOK, UsedSinks
<1>5. ASSUME NEW t \in Tasks, ReadTrack(t)
      PROVE  \A x \in Tasks : phase'[x] = phase[x] \/ phase'[x] = "accepted"
  BY <1>5 DEF ReadTrack, AcceptTask, Become, PipelineTypes
<1> QED
  BY <1>1, <1>2, <1>3, <1>4, <1>5
  DEF PipelineNext, Worker, Works, Sink, Take, WriteRow, DiskFails, Main, ReadTrack, AcceptTask,
      ReadingEnds, ReaderThrows, JoinMatcher, StopSink, JoinSink, DestroyMember, StopBase, JoinBase,
      Done, StopService, JoinService, mainVars, sinkVars, serviceVars, pipelineVars

\* What a sink takes from its queue is in hand.
LEMMA TakeMoves ==
  ASSUME PipelineTypes, NEW s \in {"printer", "exporter"}, Take(s)
  PROVE  \A x \in Tasks : In(x, pending[s]) => In(x, pending'[s]) \/ In(x, rows'[s])
<1>1. s \in Sinks /\ pending[s] \in Seq(Tasks) /\ pending[s] # <<>>
  BY DEF PipelineTypes, Sinks, Take
<1>2. pending'[s] = Tail(pending[s]) /\ rows'[s] = [i \in 1..1 |-> Head(pending[s])]
  BY <1>1 DEF PipelineTypes, Take
<1>3. In(Head(pending[s]), [i \in 1..1 |-> Head(pending[s])])
  BY DEF In
<1>4. ASSUME NEW x \in Tasks, In(x, pending[s])
      PROVE  In(x, pending'[s]) \/ In(x, rows'[s])
  <2>1. x = Head(pending[s]) \/ In(x, Tail(pending[s]))
    BY <1>1, <1>4, InTail
  <2> QED
    BY <1>2, <1>3, <2>1
<1> QED
  BY <1>4

\* What it has in hand is in its file when it is written, unless the stream is bad.
LEMMA WriteMoves ==
  ASSUME PipelineTypes, NEW s \in Sinks, WriteRow(s), good[s], NEW x \in Tasks
  PROVE  /\ In(x, file[s]) => In(x, file'[s])
         /\ In(x, rows[s]) => In(x, rows'[s]) \/ In(x, file'[s])
<1> DEFINE Marked == Tasks \cup {"header", "summary"}
           heading == IF headed[s] THEN <<>> ELSE <<"header">>
           first == Head(rows[s])
<1>1. rows[s] \in Seq(Tasks) /\ rows[s] # <<>> /\ file[s] \in Seq(Marked)
  BY DEF PipelineTypes, WriteRow
<1>2. first \in Tasks
  BY <1>1, HeadTailProperties
<1>3. heading \in Seq(Marked) /\ <<first>> \in Seq(Marked)
  BY <1>2, LinesAreSeq
<1>4. file'[s] = file[s] \o heading \o <<first>> /\ rows'[s] = Tail(rows[s])
  BY DEF PipelineTypes, WriteRow
<1>5. file[s] \o heading \in Seq(Marked)
  BY <1>1, <1>3, ConcatProperties
<1>6. In(x, (file[s] \o heading) \o <<first>>) <=> In(x, file[s] \o heading) \/ In(x, <<first>>)
  <2> HIDE DEF Marked, heading, first
  <2> QED
    BY <1>3, <1>5, InConcat
<1>7. In(x, file[s] \o heading) <=> In(x, file[s]) \/ In(x, heading)
  BY <1>1, <1>3, InConcat
<1>8. In(x, <<first>>) <=> x = first
  BY InOne
<1>9. In(x, rows[s]) => x = first \/ In(x, Tail(rows[s]))
  BY <1>1, InTail
<1> QED
  BY <1>4, <1>6, <1>7, <1>8, <1>9

\* The totals come after what was written.
LEMMA SummaryAdds ==
  ASSUME PipelineTypes, DestroyMember, NEW s \in Sinks, NEW x \in Tasks, In(x, file[s])
  PROVE  In(x, file'[s])
<1>1. CASE MemberOrder[step] = "printer" /\ s = "printer"
  <2>1. file'[s] = file[s] \o Summary
    BY <1>1 DEF PipelineTypes, DestroyMember
  <2>2. file[s] \in Seq(Tasks \cup {"header", "summary"})
    BY DEF PipelineTypes
  <2> QED
    BY <2>1, <2>2, SummaryIsSeq, InConcat
<1>2. CASE MemberOrder[step] # "printer" \/ s # "printer"
  <2>1. file'[s] = file[s]
    BY <1>2 DEF PipelineTypes, DestroyMember
  <2> QED
    BY <2>1
<1> QED
  BY <1>1, <1>2

LEMMA KeptStep ==
  PipelineTypes /\ KeptOK /\ [PipelineNext]_pipelineVars => KeptOK'
<1> SUFFICES ASSUME PipelineTypes, KeptOK, [PipelineNext]_pipelineVars,
                    NEW s \in {"printer", "exporter"}, NEW x \in Tasks,
                    good'[s], In(x, received'[s])
             PROVE  In(x, pending'[s]) \/ In(x, rows'[s]) \/ In(x, file'[s])
  BY DEF KeptOK
<1>0. s \in Sinks
  BY DEF Sinks
<1>1. ASSUME NEW t \in Tasks, NEW r \in Sinks, Pass(t, r)
      PROVE  In(x, pending'[s]) \/ In(x, rows'[s]) \/ In(x, file'[s])
  <2>1. UNCHANGED <<rows, file, good>>
    BY <1>1 DEF Pass
  <2>2. /\ In(x, received'[s]) <=> In(x, received[s]) \/ (s = r /\ x = t)
        /\ In(x, pending'[s]) <=> In(x, pending[s]) \/ (s = r /\ x = t)
    BY <1>0, <1>1, PassAdds
  <2> QED
    BY <2>1, <2>2 DEF KeptOK
<1>2. ASSUME NEW r \in Sinks, Take(r)
      PROVE  In(x, pending'[s]) \/ In(x, rows'[s]) \/ In(x, file'[s])
  <2>1. UNCHANGED <<received, file, good>> /\ rows[r] = <<>>
    BY <1>2 DEF Take
  <2>2. In(x, pending[s]) \/ In(x, rows[s]) \/ In(x, file[s])
    BY <2>1 DEF KeptOK
  <2>3. CASE r = s
    BY <1>2, <2>1, <2>2, <2>3, TakeMoves, NotInEmpty
  <2>4. CASE r # s
    <3>1. pending'[s] = pending[s] /\ rows'[s] = rows[s]
      BY <1>0, <1>2, <2>4 DEF Take, PipelineTypes
    <3> QED
      BY <2>1, <2>2, <3>1
  <2> QED
    BY <2>3, <2>4
<1>3. ASSUME NEW r \in Sinks, WriteRow(r)
      PROVE  In(x, pending'[s]) \/ In(x, rows'[s]) \/ In(x, file'[s])
  <2>1. UNCHANGED <<received, pending, good>>
    BY <1>3 DEF WriteRow
  <2>2. good[s] /\ (In(x, pending[s]) \/ In(x, rows[s]) \/ In(x, file[s]))
    BY <2>1 DEF KeptOK
  <2>3. CASE r = s
    BY <1>0, <1>3, <2>1, <2>2, <2>3, WriteMoves
  <2>4. CASE r # s
    <3>1. file'[s] = file[s] /\ rows'[s] = rows[s]
      BY <1>0, <1>3, <2>4 DEF WriteRow, PipelineTypes
    <3> QED
      BY <2>1, <2>2, <3>1
  <2> QED
    BY <2>3, <2>4
<1>4. CASE DestroyMember
  <2>1. UNCHANGED <<received, pending, rows, good>>
    BY <1>4 DEF DestroyMember, sinkVars
  <2>2. In(x, pending[s]) \/ In(x, rows[s]) \/ In(x, file[s])
    BY <2>1 DEF KeptOK
  <2> QED
    BY <1>0, <1>4, <2>1, <2>2, SummaryAdds
<1>5. CASE UNCHANGED <<received, pending, rows, file>> /\ (good'[s] => good[s])
  BY <1>5 DEF KeptOK
<1>6. ASSUME NEW r \in Sinks, DiskFails(r) PROVE good'[s] => good[s]
  BY <1>0, <1>6 DEF DiskFails, PipelineTypes
<1> QED
  BY <1>1, <1>2, <1>3, <1>4, <1>5, <1>6
  DEF PipelineNext, Worker, Works, Begin, Match, Throw, Return, PassClosed, Sink, DiskFails, Main,
      ReadTrack, ReadingEnds, ReaderThrows, JoinMatcher, StopSink, JoinSink, StopBase, JoinBase,
      Done, sinkVars, pipelineVars

-----------------------------------------------------------------------------
(* The theorems.                                                           *)

LEMMA PipelineInvInit == PipelineInit => PipelineInv
<1> SUFFICES ASSUME PipelineInit PROVE PipelineInv
  OBVIOUS
<1>1. PipelineTypes
  BY TypesInit
<1>2. StageOK /\ JoinedOK /\ SinkOverOK
  BY DEF PipelineInit, ServiceInit, StageOK, JoinedOK, SinkOverOK, Reading
<1>3. \A s \in Sinks : \A t \in Tasks : ~In(t, received[s])
  BY NotInEmpty DEF PipelineInit
<1>4. PassedOK
  BY <1>3 DEF PipelineInit, ServiceInit, PassedOK, Sinks
<1>5. KeptOK
  BY <1>3 DEF KeptOK, Sinks
<1> QED
  BY <1>1, <1>2, <1>4, <1>5 DEF PipelineInv

LEMMA PipelineInvStep == PipelineInv /\ [PipelineNext]_pipelineVars => PipelineInv'
  BY TypesStep, StageStep, JoinedStep, SinkOverStep, PassedStep, KeptStep DEF PipelineInv

LEMMA PipelineInvHolds == PipelineSpec => []PipelineInv
  BY PipelineInvInit, PipelineInvStep, PTL DEF PipelineSpec

LEMMA InvGivesNoDanglingUse == PipelineInv => NoDanglingUse
<1> SUFFICES ASSUME PipelineInv, ~threw, NEW t \in Tasks, Dangling(t) PROVE FALSE
  BY DEF NoDanglingUse
<1>1. phase[t] = "executing" /\ alive # Sinks
  BY DEF Dangling
<1>2. main \in Reading
  BY <1>1 DEF PipelineInv, JoinedOK
<1> QED
  BY <1>1, <1>2 DEF PipelineInv, JoinedOK

LEMMA InvGivesRows == PipelineInv => RowOfEachMatch
<1> SUFFICES ASSUME PipelineInv, NEW t \in Tasks, phase[t] = "returned", ~threw,
                    NEW s \in UsedSinks
             PROVE  /\ In(t, received[s])
                    /\ (sinkOver[s] /\ good[s] /\ s # "candidates")
                          => In(t, pending[s]) \/ In(t, file[s])
  BY DEF RowOfEachMatch
<1>1. In(t, received[s])
  BY DEF PipelineInv, PassedOK
<1>2. ASSUME sinkOver[s], good[s], s # "candidates"
      PROVE  In(t, pending[s]) \/ In(t, file[s])
  <2>1. s \in {"printer", "exporter"} /\ s \in Sinks
    BY <1>2 DEF UsedSinks, Sinks
  <2>2. rows[s] = <<>>
    BY <1>2, <2>1 DEF PipelineInv, SinkOverOK
  <2> QED
    BY <1>1, <1>2, <2>1, <2>2, NotInEmpty DEF PipelineInv, KeptOK
<1> QED
  BY <1>1, <1>2

LEMMA InvGivesOrder == PipelineInv => PassOrder
<1> SUFFICES ASSUME PipelineInv, ~threw, NEW i \in 1..2, NEW t \in Tasks,
                    In(t, received[SinkOrder[i + 1]])
             PROVE  In(t, received[SinkOrder[i]])
  BY DEF PassOrder
<1>1. /\ SinkOrder[1] = "printer"
      /\ SinkOrder[2] = "exporter"
      /\ SinkOrder[3] = "candidates"
  BY DEF SinkOrder
<1>2. CASE i = 1
  BY <1>1, <1>2 DEF PipelineInv, PassedOK
<1>3. CASE i = 2
  BY <1>1, <1>3 DEF PipelineInv, PassedOK
<1> QED
  BY <1>2, <1>3

\* The result of every match reaches living sinks, in their order, and what the printer and
\* the exporter took is written, however many tracks and threads there are
\* (matcher.hpp, _match_impl, ~matcher; match.hpp, _join_matcher).
THEOREM ResultsAlwaysReachSinks == PipelineSpec => []ResultsReachSinks
<1>1. PipelineInv => ResultsReachSinks
  BY InvGivesNoDanglingUse, InvGivesRows, InvGivesOrder DEF ResultsReachSinks, SinksFed
<1> QED
  BY <1>1, PipelineInvHolds, PTL

LEMMA InvEndsQuietly == PipelineInv => NothingRunsAtEnd
  BY DEF PipelineInv, StageOK, JoinedOK, NothingRunsAtEnd, Running

-----------------------------------------------------------------------------
(* What the files hold.                                                    *)

Once(seq) == \A i, j \in DOMAIN seq : seq[i] = seq[j] => i = j

\* x is in seq no later than y.
Before(x, y, seq) == \A i, j \in DOMAIN seq : seq[i] = x /\ seq[j] = y => i <= j

\* The tracks of a come in the order of seq; those of a come before those of b.
InOrder(a, seq) ==
    \A i, j \in DOMAIN a :
        i < j /\ a[i] \in Tasks /\ a[j] \in Tasks => Before(a[i], a[j], seq)
Precedes(a, b, seq) ==
    \A x, y \in Tasks : In(x, a) /\ In(y, b) => Before(x, y, seq)

\* A result comes to a sink at most once.
FreshOK ==
    \A t \in Tasks : \A s \in Sinks :
        \/ phase[t] \in {"new", "accepted"}
        \/ stage[t] \in {"match", "printer"}
        \/ stage[t] = "exporter" /\ s # "printer"
        \/ stage[t] = "candidates" /\ s = "candidates"
        => ~In(t, received[s])
OnceOK == \A s \in Sinks : Once(received[s])

\* The file, the rows in hand and the queue of a sink are in its order, one after the other.
OrderOf(f, r, p, q) ==
    /\ InOrder(f, q) /\ Precedes(f, r, q) /\ Precedes(f, p, q)
    /\ Precedes(r, r, q) /\ Precedes(r, p, q)
    /\ InOrder(p, q)
    /\ \A x \in Tasks : In(x, f) \/ In(x, r) \/ In(x, p) => In(x, q)
OrderOK == \A s \in Sinks : OrderOf(file[s], rows[s], pending[s], received[s])

\* A file has its header, if it has one, in front; a file that was begun while its stream
\* was good is not empty.
HeaderOK ==
    /\ headed \in [Sinks -> BOOLEAN]
    /\ headed["printer"] /\ good["printer"]
    /\ \A s \in Sinks : ~headed[s] => file[s] = <<>>
    /\ \A s \in Sinks \ {"printer"} : headed[s] /\ good[s] => file[s] # <<>>
    /\ \A s \in Sinks : \A i \in DOMAIN file[s] :
          file[s][i] = "header" <=> i = 1 /\ s \in CsvSinks

\* The sinks are joined before the printer is destroyed, and it is destroyed once.
SummaryOK ==
    /\ main = "join sinks" => \A i \in 1..3 : i < step => sinkOver[SinkOrder[i]]
    /\ main \in {"members", "base", "join base", "done"} => \A s \in Sinks : sinkOver[s]
    /\ \A s \in Sinks : \A i \in DOMAIN file[s] : file[s][i] = "summary" =>
          /\ s = "printer"
          /\ i = Len(file[s])
          /\ main \in {"base", "join base", "done"} \/ (main = "members" /\ step > 1)

LEMMA BeforeKept ==
  ASSUME NEW S, NEW q \in Seq(S), NEW t \in S, NEW x, NEW y, x # t, y # t, Before(x, y, q)
  PROVE  Before(x, y, Append(q, t))
<1> SUFFICES ASSUME NEW i \in DOMAIN Append(q, t), NEW j \in DOMAIN Append(q, t),
                    Append(q, t)[i] = x, Append(q, t)[j] = y
             PROVE  i <= j
  BY DEF Before
<1>1. i \in DOMAIN q /\ q[i] = x /\ j \in DOMAIN q /\ q[j] = y
  BY AppendProperties
<1> QED
  BY <1>1 DEF Before

LEMMA BeforeNew ==
  ASSUME NEW S, NEW q \in Seq(S), NEW t \in S, NEW x, ~In(t, q)
  PROVE  Before(x, t, Append(q, t))
<1> SUFFICES ASSUME NEW i \in DOMAIN Append(q, t), NEW j \in DOMAIN Append(q, t),
                    Append(q, t)[i] = x, Append(q, t)[j] = t
             PROVE  i <= j
  BY DEF Before
<1>1. i \in 1..Len(q) + 1 /\ j \in 1..Len(q) + 1
  BY AppendProperties
<1>2. j \notin 1..Len(q)
  BY AppendProperties DEF In
<1> QED
  BY <1>1, <1>2, LenProperties

LEMMA OnceAppend ==
  ASSUME NEW S, NEW q \in Seq(S), NEW t \in S, Once(q), ~In(t, q)
  PROVE  Once(Append(q, t))
<1> SUFFICES ASSUME NEW i \in DOMAIN Append(q, t), NEW j \in DOMAIN Append(q, t),
                    Append(q, t)[i] = Append(q, t)[j]
             PROVE  i = j
  BY DEF Once
<1>1. i \in 1..Len(q) + 1 /\ j \in 1..Len(q) + 1 /\ Len(q) \in Nat
  BY AppendProperties, LenProperties
<1>2. \A k \in 1..Len(q) : Append(q, t)[k] = q[k] /\ q[k] # t
  BY AppendProperties DEF In
<1>3. Append(q, t)[Len(q) + 1] = t
  BY AppendProperties
<1>4. CASE i \in 1..Len(q) /\ j \in 1..Len(q)
  BY <1>2, <1>4 DEF Once
<1>5. CASE i = Len(q) + 1 \/ j = Len(q) + 1
  BY <1>1, <1>2, <1>3, <1>5
<1> QED
  BY <1>1, <1>4, <1>5

LEMMA BeforeItself ==
  ASSUME NEW S, NEW q \in Seq(S), Once(q), NEW x
  PROVE  Before(x, x, q)
<1> SUFFICES ASSUME NEW i \in DOMAIN q, NEW j \in DOMAIN q, q[i] = x, q[j] = x PROVE i <= j
  BY DEF Before
<1>1. i = j /\ i \in Nat
  BY DEF Once
<1> QED
  BY <1>1

\* Where a sequence has each element once, the first position is the position.
LEMMA PositionIs ==
  ASSUME NEW S, NEW q \in Seq(S), Once(q), NEW i \in DOMAIN q
  PROVE  Position(q[i], q) = i
<1>1. \A j \in 1..(i - 1) : q[j] # q[i]
  BY DEF Once
<1>2. \A k \in DOMAIN q : q[k] = q[i] => k = i
  BY DEF Once
<1> QED
  BY <1>1, <1>2 DEF Position

LEMMA PositionsInOrder ==
  ASSUME NEW S, NEW q \in Seq(S), Once(q), NEW x, NEW y, In(x, q), In(y, q), Before(x, y, q)
  PROVE  Position(x, q) <= Position(y, q)
<1>1. PICK i \in DOMAIN q : q[i] = x
  BY DEF In
<1>2. PICK j \in DOMAIN q : q[j] = y
  BY DEF In
<1>3. i <= j
  BY <1>1, <1>2 DEF Before
<1>4. Position(q[i], q) = i /\ Position(q[j], q) = j
  BY PositionIs
<1> QED
  BY <1>1, <1>2, <1>3, <1>4

LEMMA ConcatInOrder ==
  ASSUME NEW S, NEW a \in Seq(S), NEW b \in Seq(S), NEW q,
         InOrder(a, q), InOrder(b, q), Precedes(a, b, q)
  PROVE  InOrder(a \o b, q)
<1> SUFFICES ASSUME NEW i \in DOMAIN (a \o b), NEW j \in DOMAIN (a \o b), i < j,
                    (a \o b)[i] \in Tasks, (a \o b)[j] \in Tasks
             PROVE  Before((a \o b)[i], (a \o b)[j], q)
  BY DEF InOrder
<1>1. /\ i \in 1..Len(a) + Len(b) /\ j \in 1..Len(a) + Len(b)
      /\ Len(a) \in Nat /\ Len(b) \in Nat
  BY ConcatProperties, LenProperties
<1>2. CASE j <= Len(a)
  <2>1. /\ i \in DOMAIN a /\ j \in DOMAIN a
        /\ (a \o b)[i] = a[i] /\ (a \o b)[j] = a[j]
    BY <1>1, <1>2, ConcatProperties
  <2> QED
    BY <2>1 DEF InOrder
<1>3. CASE i > Len(a)
  <2>1. /\ i - Len(a) \in DOMAIN b /\ j - Len(a) \in DOMAIN b /\ i - Len(a) < j - Len(a)
        /\ (a \o b)[i] = b[i - Len(a)] /\ (a \o b)[j] = b[j - Len(a)]
    BY <1>1, <1>3, ConcatProperties
  <2> QED
    BY <2>1 DEF InOrder
<1>4. CASE i <= Len(a) /\ j > Len(a)
  <2>1. /\ i \in DOMAIN a /\ j - Len(a) \in DOMAIN b
        /\ (a \o b)[i] = a[i] /\ (a \o b)[j] = b[j - Len(a)]
    BY <1>1, <1>4, ConcatProperties
  <2>2. In((a \o b)[i], a) /\ In((a \o b)[j], b)
    BY <2>1 DEF In
  <2> QED
    BY <2>2 DEF Precedes
<1> QED
  BY <1>1, <1>2, <1>3, <1>4

\* A worker passes a sink once.
LEMMA FreshStep ==
  PipelineTypes /\ StageOK /\ FreshOK /\ [PipelineNext]_pipelineVars => FreshOK'
<1> SUFFICES ASSUME PipelineTypes, StageOK, FreshOK, [PipelineNext]_pipelineVars PROVE FreshOK'
  OBVIOUS
<1>1. ASSUME NEW t \in Tasks, NEW s \in Sinks, Pass(t, s) PROVE FreshOK'
  <2>1. /\ phase' = phase /\ stage[t] = s /\ stage'[t] = After(s) /\ phase[t] = "executing"
        /\ \A x \in Tasks : x # t => stage'[x] = stage[x]
    BY <1>1 DEF Pass, PipelineTypes, serviceVars, StageOK, Sinks
  <2>2. \A r \in Sinks : \A x \in Tasks :
           In(x, received'[r]) <=> In(x, received[r]) \/ (r = s /\ x = t)
    BY <1>1, PassAdds
  <2>3. /\ s = "printer" => After(s) \in {"reset", "exporter"}
        /\ s = "exporter" => After(s) = "candidates"
        /\ s = "candidates" => After(s) = "reset"
    BY DEF After
  <2> QED
    BY <2>1, <2>2, <2>3 DEF FreshOK, Sinks
<1>2. ASSUME NEW t \in Tasks, NEW s \in Sinks, PassClosed(t, s) PROVE FreshOK'
  <2>1. /\ phase' = phase /\ received' = received /\ stage[t] = s /\ stage'[t] = After(s)
        /\ \A x \in Tasks : x # t => stage'[x] = stage[x]
    BY <1>2 DEF PassClosed, PipelineTypes, serviceVars, sinkVars
  <2>2. /\ s = "printer" => After(s) \in {"reset", "exporter"}
        /\ s = "exporter" => After(s) = "candidates"
        /\ s = "candidates" => After(s) = "reset"
    BY DEF After
  <2> QED
    BY <2>1, <2>2 DEF FreshOK, Sinks
<1>3. ASSUME NEW t \in Tasks, Begin(t) \/ Match(t) \/ Throw(t) \/ Return(t) PROVE FreshOK'
  BY <1>3 DEF Begin, Match, Throw, Return, TakeTask, EndTask, Become, PipelineTypes, FreshOK,
              sinkVars, serviceVars
<1>4. ASSUME NEW t \in Tasks, ReadTrack(t) PROVE FreshOK'
  BY <1>4 DEF ReadTrack, AcceptTask, Become, PipelineTypes, FreshOK, sinkVars
<1>5. CASE UNCHANGED <<phase, stage, received>>
  BY <1>5 DEF FreshOK
<1> QED
  BY <1>1, <1>2, <1>3, <1>4, <1>5
  DEF PipelineNext, Worker, Works, Sink, Take, WriteRow, DiskFails, Main, ReadingEnds, ReaderThrows,
      JoinMatcher, StopSink, JoinSink, DestroyMember, StopBase, JoinBase, Done, StopService,
      JoinService, mainVars, sinkVars, serviceVars, pipelineVars

LEMMA OnlyPassReceives ==
  ASSUME [PipelineNext]_pipelineVars, received' # received
  PROVE  \E t \in Tasks : \E s \in Sinks : Pass(t, s)
  BY DEF PipelineNext, Worker, Works, Begin, Match, Throw, Return, PassClosed, Sink, Take, WriteRow,
      DiskFails, Main, ReadTrack, ReadingEnds, ReaderThrows, JoinMatcher, StopSink, JoinSink,
      DestroyMember, StopBase, JoinBase, Done, sinkVars, pipelineVars

LEMMA PassIsFresh ==
  ASSUME FreshOK, NEW t \in Tasks, NEW s \in Sinks, Pass(t, s)
  PROVE  ~In(t, received[s])
<1>1. stage[t] = s
  BY DEF Pass
<1> QED
  BY <1>1 DEF FreshOK, Sinks

LEMMA OnceStep ==
  PipelineTypes /\ FreshOK /\ OnceOK /\ [PipelineNext]_pipelineVars => OnceOK'
<1> SUFFICES ASSUME PipelineTypes, FreshOK, OnceOK, [PipelineNext]_pipelineVars, NEW r \in Sinks
             PROVE  Once(received'[r])
  BY DEF OnceOK
<1>1. ASSUME NEW t \in Tasks, NEW s \in Sinks, Pass(t, s) PROVE Once(received'[r])
  <2>1. ~In(t, received[s])
    BY <1>1, PassIsFresh
  <2>2. CASE r = s
    <3>1. received'[r] = Append(received[s], t) /\ received[s] \in Seq(Tasks)
      BY <1>1, <2>2 DEF Pass, PipelineTypes
    <3> QED
      BY <2>1, <3>1, OnceAppend DEF OnceOK
  <2>3. CASE r # s
    <3>1. received'[r] = received[r]
      BY <1>1, <2>3 DEF Pass, PipelineTypes
    <3> QED
      BY <3>1 DEF OnceOK
  <2> QED
    BY <2>2, <2>3
<1>2. CASE received' = received
  BY <1>2 DEF OnceOK
<1> QED
  BY <1>1, <1>2, OnlyPassReceives

\* What the sink has written grows by its row, below the header if it has none yet.
LEMMA WriteGrows ==
  ASSUME PipelineTypes, HeaderOK, NEW s \in Sinks, WriteRow(s), good[s]
  PROVE  /\ Head(rows[s]) \in Tasks
         /\ headed[s] => file'[s] = file[s] \o <<Head(rows[s])>>
         /\ ~headed[s] => /\ s \in CsvSinks
                          /\ file'[s] = <<"header">> \o <<Head(rows[s])>>
<1>1. rows[s] \in Seq(Tasks) /\ rows[s] # <<>>
      /\ file[s] \in Seq(Tasks \cup {"header", "summary"})
  BY DEF PipelineTypes, WriteRow
<1>2. Head(rows[s]) \in Tasks
  BY <1>1, HeadTailProperties
<1>3. file'[s] = file[s] \o (IF headed[s] THEN <<>> ELSE <<"header">>) \o <<Head(rows[s])>>
  BY DEF PipelineTypes, WriteRow
<1>4. ASSUME headed[s] PROVE file'[s] = file[s] \o <<Head(rows[s])>>
  <2>1. file[s] \o <<>> = file[s]
    BY <1>1
  <2> QED
    BY <1>3, <1>4, <2>1
<1>5. ASSUME ~headed[s] PROVE s \in CsvSinks /\ file'[s] = <<"header">> \o <<Head(rows[s])>>
  <2>1. file[s] = <<>> /\ s \in CsvSinks
    BY <1>5 DEF HeaderOK, CsvSinks
  <2>2. file'[s] = <<>> \o <<"header">> \o <<Head(rows[s])>>
    BY <1>3, <1>5, <2>1
  <2>3. <<>> \o <<"header">> = <<"header">>
    OBVIOUS
  <2> QED
    BY <2>1, <2>2, <2>3
<1> QED
  BY <1>2, <1>4, <1>5

LEMMA OneMore ==
  ASSUME NEW S, NEW a \in Seq(S), NEW y \in S
  PROVE  /\ Len(a) \in Nat /\ DOMAIN a = 1..Len(a)
         /\ DOMAIN (a \o <<y>>) = 1..(Len(a) + 1)
         /\ Len(a \o <<y>>) = Len(a) + 1
         /\ \A i \in 1..Len(a) : (a \o <<y>>)[i] = a[i]
         /\ (a \o <<y>>)[Len(a) + 1] = y
<1>1. <<y>> \in Seq(S) /\ Len(<<y>>) = 1 /\ <<y>>[1] = y
  OBVIOUS
<1>2. Len(a) \in Nat /\ DOMAIN a = 1..Len(a)
  BY LenProperties
<1>3. /\ a \o <<y>> \in Seq(S) /\ Len(a \o <<y>>) = Len(a) + 1
      /\ DOMAIN (a \o <<y>>) = 1..(Len(a) + 1)
      /\ \A i \in 1..(Len(a) + 1) :
            (a \o <<y>>)[i] = IF i <= Len(a) THEN a[i] ELSE <<y>>[i - Len(a)]
  BY <1>1, <1>2, ConcatProperties, LenProperties
<1> QED
  BY <1>1, <1>2, <1>3

LEMMA MarksAreNoTracks == "header" \notin Tasks /\ "summary" \notin Tasks
  BY PipelineAssumption DEF PipelineAssumption

LEMMA HeaderStep ==
  PipelineTypes /\ HeaderOK /\ [PipelineNext]_pipelineVars => HeaderOK'
<1> SUFFICES ASSUME PipelineTypes, HeaderOK, [PipelineNext]_pipelineVars PROVE HeaderOK'
  OBVIOUS
<1> DEFINE Marked == Tasks \cup {"header", "summary"}
<1>0. file \in [Sinks -> Seq(Marked)] /\ good \in [Sinks -> BOOLEAN]
  BY DEF PipelineTypes
<1>1. ASSUME NEW s \in Sinks, WriteRow(s) PROVE HeaderOK'
  <2> DEFINE h == Head(rows[s])
  <2>1. /\ headed' = [headed EXCEPT ![s] = TRUE] /\ good' = good
        /\ \A r \in Sinks : r # s => file'[r] = file[r]
    BY <1>0, <1>1 DEF WriteRow
  <2>2. CASE good[s]
    <3>1. /\ h \in Tasks /\ h # "header"
          /\ headed[s] => file'[s] = file[s] \o <<h>>
          /\ ~headed[s] => s \in CsvSinks /\ file'[s] = <<"header">> \o <<h>>
      BY <1>1, <2>2, WriteGrows, MarksAreNoTracks
    <3> HIDE DEF h
    <3>2. CASE headed[s]
      <4>1. /\ Len(file[s]) \in Nat /\ DOMAIN file[s] = 1..Len(file[s])
            /\ DOMAIN file'[s] = 1..(Len(file[s]) + 1)
            /\ \A i \in 1..Len(file[s]) : file'[s][i] = file[s][i]
            /\ file'[s][Len(file[s]) + 1] = h
        BY <1>0, <3>1, <3>2, OneMore
      <4>2. s \in CsvSinks => Len(file[s]) # 0
        BY <1>0, <2>2, <3>2, EmptySeq DEF HeaderOK, CsvSinks
      <4>3. \A i \in DOMAIN file'[s] : file'[s][i] = "header" <=> i = 1 /\ s \in CsvSinks
        BY <3>1, <4>1, <4>2 DEF HeaderOK
      <4>4. file'[s] # <<>>
        BY <4>1
      <4> QED
        BY <2>1, <4>3, <4>4 DEF HeaderOK
    <3>3. CASE ~headed[s]
      <4>1. <<"header">> \in Seq(Marked) /\ Len(<<"header">>) = 1 /\ <<"header">>[1] = "header"
        OBVIOUS
      <4>2. /\ DOMAIN file'[s] = 1..2
            /\ file'[s][1] = "header"
            /\ file'[s][2] = h
        BY <3>1, <3>3, <4>1, OneMore
      <4>3. \A i \in DOMAIN file'[s] : file'[s][i] = "header" <=> i = 1 /\ s \in CsvSinks
        BY <3>1, <3>3, <4>2
      <4>4. file'[s] # <<>>
        BY <4>2
      <4> QED
        BY <2>1, <4>3, <4>4 DEF HeaderOK
    <3> QED
      BY <3>2, <3>3
  <2>3. CASE ~good[s]
    <3>1. file' = file
      BY <1>0, <1>1, <2>3 DEF WriteRow
    <3> QED
      BY <2>1, <2>3, <3>1 DEF HeaderOK
  <2> QED
    BY <2>2, <2>3
<1>2. CASE DestroyMember
  <2>1. UNCHANGED <<headed, good>> /\ \A r \in CsvSinks : file'[r] = file[r]
    BY <1>0, <1>2 DEF DestroyMember, CsvSinks
  <2>2. file'["printer"] = file["printer"] \/ file'["printer"] = file["printer"] \o <<"summary">>
    <3>1. file["printer"] \o <<>> = file["printer"]
      BY <1>0 DEF Sinks
    <3> QED
      BY <1>0, <1>2, <3>1 DEF DestroyMember, Summary, Sinks
  <2>3. file["printer"] \in Seq(Marked)
    BY <1>0 DEF Sinks
  <2>4. \A i \in DOMAIN file'["printer"] : file'["printer"][i] # "header"
    <3>1. \A i \in DOMAIN file["printer"] : file["printer"][i] # "header"
      BY DEF HeaderOK, CsvSinks, Sinks
    <3>2. CASE file'["printer"] = file["printer"]
      BY <3>1, <3>2
    <3>3. CASE file'["printer"] = file["printer"] \o <<"summary">>
      BY <2>3, <3>1, <3>3, OneMore
    <3> QED
      BY <2>2, <3>2, <3>3
  <2> QED
    BY <2>1, <2>4 DEF HeaderOK, CsvSinks
<1>3. ASSUME NEW s \in Sinks, DiskFails(s) PROVE HeaderOK'
  BY <1>0, <1>3 DEF DiskFails, HeaderOK, CsvSinks
<1>4. CASE UNCHANGED <<headed, good, file>>
  BY <1>4 DEF HeaderOK
<1> QED
  BY <1>1, <1>2, <1>3, <1>4
  DEF PipelineNext, Worker, Works, Begin, Match, Throw, Return, Pass, PassClosed, Sink, Take, Main,
      ReadTrack, ReadingEnds, ReaderThrows, JoinMatcher, StopSink, JoinSink, StopBase, JoinBase,
      Done, sinkVars, pipelineVars

\* Main comes to the members when all three sinks were joined.
LEMMA SmallSteps ==
  ASSUME NEW k \in 1..3, NEW i \in 1..3
  PROVE  /\ i <= k => i < k \/ i = k
         /\ i < k + 1 => i <= k
         /\ ~(i < 1)
  OBVIOUS

LEMMA SinksAreJoined ==
  ASSUME PipelineTypes, SummaryOK, JoinSink
  PROVE  /\ main' = "join sinks" => \A i \in 1..3 : i < step' => sinkOver'[SinkOrder[i]]
         /\ main' = "members" => \A s \in Sinks : sinkOver'[s]
         /\ main' \in {"join sinks", "members"}
<1>1. /\ sinkOver' = [sinkOver EXCEPT ![SinkOrder[step]] = TRUE]
      /\ main = "join sinks" /\ step \in 1..3 /\ sinkOver \in [Sinks -> BOOLEAN]
      /\ main' = IF step = 3 THEN "members" ELSE main
      /\ step' = IF step = 3 THEN 1 ELSE step + 1
  BY DEF JoinSink, PipelineTypes
<1>2. \A i \in 1..3 : i <= step => sinkOver'[SinkOrder[i]]
  <2>1. \A i \in 1..3 : i < step => sinkOver[SinkOrder[i]]
    BY <1>1 DEF SummaryOK
  <2>2. \A i \in 1..3 : i <= step => i < step \/ i = step
    BY <1>1, SmallSteps
  <2> QED
    BY <1>1, <2>1, <2>2, OrderNamesSinks
<1>3. \A s \in Sinks : \E i \in 1..3 : SinkOrder[i] = s
  <2>1. SinkOrder[1] = "printer" /\ SinkOrder[2] = "exporter" /\ SinkOrder[3] = "candidates"
    BY DEF SinkOrder
  <2> QED
    BY <2>1 DEF Sinks
<1>4. CASE step = 3
  <2>1. \A i \in 1..3 : sinkOver'[SinkOrder[i]]
    BY <1>2, <1>4
  <2> QED
    BY <1>1, <1>3, <1>4, <2>1, ZenonT(40)
<1>5. CASE step # 3
  <2>1. \A i \in 1..3 : i < step' => i <= step
    BY <1>1, <1>5, SmallSteps
  <2> QED
    BY <1>1, <1>2, <1>5, <2>1
<1> QED
  BY <1>4, <1>5

LEMMA SummaryStep ==
  PipelineTypes /\ SinkOverOK /\ HeaderOK /\ SummaryOK /\ [PipelineNext]_pipelineVars => SummaryOK'
<1> SUFFICES ASSUME PipelineTypes, SinkOverOK, HeaderOK, SummaryOK, [PipelineNext]_pipelineVars
             PROVE  SummaryOK'
  OBVIOUS
<1> DEFINE Marked == Tasks \cup {"header", "summary"}
           Ended == {"base", "join base", "done"}
           NoSummary(f) == \A i \in DOMAIN f : f[i] # "summary"
<1>0. /\ file \in [Sinks -> Seq(Marked)] /\ step \in 1..3
      /\ MemberOrder[1] = "printer" /\ MemberOrder[2] # "printer" /\ MemberOrder[3] # "printer"
  BY DEF PipelineTypes, MemberOrder
<1>1. ASSUME NEW s \in Sinks, WriteRow(s) PROVE SummaryOK'
  <2> DEFINE h == Head(rows[s])
  <2>1. /\ UNCHANGED <<main, step, sinkOver>>
        /\ \A r \in Sinks : r # s => file'[r] = file[r]
    BY <1>0, <1>1 DEF WriteRow, mainVars
  <2>2. ~sinkOver[s]
    BY <1>1 DEF WriteRow, SinkOverOK
  <2>3. NoSummary(file[s])
    BY <2>2 DEF SummaryOK
  <2>4. NoSummary(file'[s])
    <3>1. CASE good[s]
      <4>1. /\ h \in Tasks /\ h # "summary"
            /\ headed[s] => file'[s] = file[s] \o <<h>>
            /\ ~headed[s] => file'[s] = <<"header">> \o <<h>>
        BY <1>1, <3>1, WriteGrows, MarksAreNoTracks
      <4> HIDE DEF h
      <4>2. CASE headed[s]
        <5>1. /\ DOMAIN file'[s] = 1..(Len(file[s]) + 1) /\ DOMAIN file[s] = 1..Len(file[s])
              /\ \A i \in 1..Len(file[s]) : file'[s][i] = file[s][i]
              /\ file'[s][Len(file[s]) + 1] = h
              /\ Len(file[s]) \in Nat
          BY <1>0, <4>1, <4>2, OneMore
        <5> QED
          BY <2>3, <4>1, <5>1
      <4>3. CASE ~headed[s]
        <5>1. <<"header">> \in Seq(Marked) /\ Len(<<"header">>) = 1 /\ <<"header">>[1] = "header"
          OBVIOUS
        <5>2. /\ DOMAIN file'[s] = 1..2
              /\ file'[s][1] = "header"
              /\ file'[s][2] = h
          BY <4>1, <4>3, <5>1, OneMore
        <5> QED
          BY <4>1, <5>2
      <4> QED
        BY <4>2, <4>3
    <3>2. CASE ~good[s]
      <4>1. file'[s] = file[s]
        BY <1>0, <1>1, <3>2 DEF WriteRow
      <4> QED
        BY <2>3, <4>1
    <3> QED
      BY <3>1, <3>2
  <2>5. \A r \in Sinks : r = s \/ file'[r] = file[r]
    BY <2>1
  <2>6. \A r \in Sinks : \A i \in DOMAIN file'[r] : file'[r][i] = "summary" =>
           file[r] = file'[r]
    BY <2>4, <2>5
  <2> QED
    BY <2>1, <2>6 DEF SummaryOK
<1>2. CASE DestroyMember
  <2>1. /\ main = "members" /\ sinkOver' = sinkOver
        /\ main' = IF step = 3 THEN "base" ELSE main
        /\ step' = IF step = 3 THEN 1 ELSE step + 1
    BY <1>2 DEF DestroyMember
  <2>2. main' \in Ended \/ (main' = "members" /\ step' > 1)
    BY <1>0, <2>1
  <2>3. \A s \in Sinks : sinkOver'[s]
    BY <2>1 DEF SummaryOK
  <2>4. ASSUME NEW s \in Sinks, NEW i \in DOMAIN file'[s], file'[s][i] = "summary"
        PROVE  s = "printer" /\ i = Len(file'[s])
    <3>1. CASE s = "printer" /\ step = 1
      <4>1. NoSummary(file["printer"])
        BY <2>1, <3>1 DEF SummaryOK, Sinks
      <4>2. file'[s] = file[s] \o Summary
        BY <1>0, <1>2, <3>1 DEF DestroyMember
      <4>3. Summary = <<>> \/ Summary = <<"summary">>
        BY DEF Summary
      <4>4. CASE Summary = <<>>
        <5>1. file[s] \o <<>> = file[s]
          BY <1>0
        <5> QED
          BY <2>4, <3>1, <4>1, <4>2, <4>4, <5>1
      <4>5. CASE Summary = <<"summary">>
        <5>1. file[s] \in Seq(Marked) /\ file'[s] = file[s] \o <<"summary">>
          BY <1>0, <4>2, <4>5
        <5> QED
          BY <2>4, <3>1, <4>1, <5>1, OneMore
      <4> QED
        BY <4>3, <4>4, <4>5
    <3>2. CASE s # "printer" \/ step # 1
      <4>1. file'[s] = file[s]
        <5>1. CASE MemberOrder[step] # "printer"
          BY <1>2, <5>1 DEF DestroyMember
        <5>2. CASE s # "printer"
          BY <1>0, <1>2, <5>2 DEF DestroyMember
        <5> QED
          BY <1>0, <3>2, <5>1, <5>2
      <4> QED
        BY <2>4, <4>1 DEF SummaryOK
    <3> QED
      BY <3>1, <3>2
  <2> QED
    BY <2>1, <2>2, <2>3, <2>4 DEF SummaryOK
<1>3. CASE JoinSink
  <2>1. file' = file /\ main = "join sinks"
    BY <1>3 DEF JoinSink
  <2>2. \A s \in Sinks : NoSummary(file[s])
    BY <2>1 DEF SummaryOK
  <2> QED
    BY <1>3, <2>1, <2>2, SinksAreJoined DEF SummaryOK
<1>4. CASE StopSink
  <2>1. /\ file' = file /\ main = "stop sinks" /\ sinkOver' = sinkOver
        /\ main' \in {"stop sinks", "join sinks"}
        /\ main' = "join sinks" => step' = 1
    BY <1>4 DEF StopSink
  <2>2. \A s \in Sinks : NoSummary(file[s])
    BY <2>1 DEF SummaryOK
  <2>3. main' = "join sinks" => \A i \in 1..3 : ~(i < step')
    BY <2>1, SmallSteps
  <2> QED
    BY <2>1, <2>2, <2>3 DEF SummaryOK
<1>5. CASE \/ ReadingEnds \/ ReaderThrows \/ JoinMatcher
  <2>1. UNCHANGED <<file, sinkOver>> /\ main \in Reading
        /\ main' \in {"joining", "stop sinks"}
    BY <1>5 DEF ReadingEnds, ReaderThrows, JoinMatcher, Reading, sinkVars
  <2>2. \A s \in Sinks : NoSummary(file[s])
    BY <2>1 DEF SummaryOK, Reading
  <2> QED
    BY <2>1, <2>2 DEF SummaryOK
<1>6. CASE StopBase \/ JoinBase
  BY <1>6 DEF StopBase, JoinBase, SummaryOK, sinkVars
<1>7. CASE UNCHANGED <<main, step, sinkOver, file>>
  BY <1>7 DEF SummaryOK
<1> QED
  BY <1>1, <1>2, <1>3, <1>4, <1>5, <1>6, <1>7
  DEF PipelineNext, Worker, Works, Begin, Match, Throw, Return, Pass, PassClosed, Sink, Take,
      DiskFails, Main, ReadTrack, Done, mainVars, sinkVars, pipelineVars

LEMMA InOrderKept ==
  ASSUME NEW q \in Seq(Tasks), NEW t \in Tasks, ~In(t, q), NEW a, InOrder(a, q),
         \A x \in Tasks : In(x, a) => In(x, q)
  PROVE  InOrder(a, Append(q, t))
<1> SUFFICES ASSUME NEW i \in DOMAIN a, NEW j \in DOMAIN a, i < j, a[i] \in Tasks, a[j] \in Tasks
             PROVE  Before(a[i], a[j], Append(q, t))
  BY DEF InOrder
<1>1. In(a[i], a) /\ In(a[j], a)
  BY DEF In
<1>2. a[i] # t /\ a[j] # t
  BY <1>1
<1>3. Before(a[i], a[j], q)
  BY DEF InOrder
<1> QED
  BY <1>2, <1>3, BeforeKept

LEMMA PrecedesKept ==
  ASSUME NEW q \in Seq(Tasks), NEW t \in Tasks, ~In(t, q), NEW a, NEW b, Precedes(a, b, q),
         \A x \in Tasks : In(x, a) \/ In(x, b) => In(x, q)
  PROVE  Precedes(a, b, Append(q, t))
<1> SUFFICES ASSUME NEW x \in Tasks, NEW y \in Tasks, In(x, a), In(y, b)
             PROVE  Before(x, y, Append(q, t))
  BY DEF Precedes
<1>1. x # t /\ y # t /\ Before(x, y, q)
  BY DEF Precedes
<1> QED
  BY <1>1, BeforeKept

\* What a sink takes comes after all it has.
LEMMA PrecedesNew ==
  ASSUME NEW q \in Seq(Tasks), NEW t \in Tasks, ~In(t, q), NEW a, NEW p \in Seq(Tasks),
         Precedes(a, p, q), \A x \in Tasks : In(x, a) \/ In(x, p) => In(x, q)
  PROVE  Precedes(a, Append(p, t), Append(q, t))
<1> SUFFICES ASSUME NEW x \in Tasks, NEW y \in Tasks, In(x, a), In(y, Append(p, t))
             PROVE  Before(x, y, Append(q, t))
  BY DEF Precedes
<1>1. In(y, p) \/ y = t
  BY InAppend
<1>2. CASE In(y, p)
  BY <1>2, PrecedesKept DEF Precedes
<1>3. CASE y = t
  BY <1>3, BeforeNew
<1> QED
  BY <1>1, <1>2, <1>3

LEMMA OneInOrder == \A x, q : InOrder(<<x>>, q)
  BY DEF InOrder

LEMMA OrderAfterPass ==
  ASSUME NEW q \in Seq(Tasks), NEW t \in Tasks, ~In(t, q), NEW f, NEW r, NEW p \in Seq(Tasks),
         OrderOf(f, r, p, q)
  PROVE  OrderOf(f, r, Append(p, t), Append(q, t))
<1>1. \A x \in Tasks : In(x, f) \/ In(x, r) \/ In(x, p) => In(x, q)
  BY DEF OrderOf
<1>2. InOrder(f, Append(q, t)) /\ InOrder(p, Append(q, t))
  BY <1>1, InOrderKept DEF OrderOf
<1>3. Precedes(f, r, Append(q, t)) /\ Precedes(r, r, Append(q, t))
  BY <1>1, PrecedesKept DEF OrderOf
<1>4. Precedes(f, Append(p, t), Append(q, t)) /\ Precedes(r, Append(p, t), Append(q, t))
  BY <1>1, PrecedesNew DEF OrderOf
<1>5. InOrder(Append(p, t), Append(q, t))
  <2> SUFFICES ASSUME NEW i \in DOMAIN Append(p, t), NEW j \in DOMAIN Append(p, t), i < j,
                      Append(p, t)[i] \in Tasks, Append(p, t)[j] \in Tasks
               PROVE  Before(Append(p, t)[i], Append(p, t)[j], Append(q, t))
    BY DEF InOrder
  <2>1. /\ Len(p) \in Nat /\ DOMAIN p = 1..Len(p)
        /\ i \in 1..(Len(p) + 1) /\ j \in 1..(Len(p) + 1)
        /\ \A k \in 1..Len(p) : Append(p, t)[k] = p[k]
        /\ Append(p, t)[Len(p) + 1] = t
    BY AppendProperties, LenProperties
  <2>2. CASE j = Len(p) + 1
    BY <2>1, <2>2, BeforeNew
  <2>3. CASE j # Len(p) + 1
    <3>1. i \in DOMAIN p /\ j \in DOMAIN p
      BY <2>1, <2>3
    <3> QED
      BY <1>2, <2>1, <3>1 DEF InOrder
  <2> QED
    BY <2>2, <2>3
<1>6. \A x \in Tasks : In(x, f) \/ In(x, r) \/ In(x, Append(p, t)) => In(x, Append(q, t))
  BY <1>1, InAppend
<1> QED
  BY <1>2, <1>3, <1>4, <1>5, <1>6 DEF OrderOf

LEMMA OrderAfterTake ==
  ASSUME NEW q \in Seq(Tasks), Once(q), NEW f, NEW p \in Seq(Tasks), p # <<>>, NEW n \in Nat,
         OrderOf(f, <<>>, p, q)
  PROVE  OrderOf(f, [i \in 1..n |-> Head(p)], Tail(p), q)
<1> DEFINE r == [i \in 1..n |-> Head(p)]
           h == Head(p)
<1>1. h \in Tasks /\ Tail(p) \in Seq(Tasks)
  BY HeadTailProperties
<1>2. \A x : In(x, r) => x = h
  BY DEF In
<1>3. In(h, p) /\ \A x : In(x, Tail(p)) => In(x, p)
  BY InTail
<1> HIDE DEF r
<1>4. Precedes(f, r, q) /\ Precedes(f, Tail(p), q)
  BY <1>2, <1>3 DEF OrderOf, Precedes
<1>5. Precedes(r, r, q)
  BY <1>2, BeforeItself DEF Precedes
<1>6. /\ Len(Tail(p)) = Len(p) - 1 /\ Len(p) \in Nat /\ DOMAIN p = 1..Len(p)
      /\ DOMAIN Tail(p) = 1..(Len(p) - 1)
      /\ \A i \in 1..(Len(p) - 1) : Tail(p)[i] = p[i + 1]
      /\ p[1] = h /\ Len(p) >= 1
  BY HeadTailProperties, EmptySeq, LenProperties
<1>7. Precedes(r, Tail(p), q)
  <2> SUFFICES ASSUME NEW y \in Tasks, In(y, Tail(p)) PROVE Before(h, y, q)
    BY <1>2 DEF Precedes
  <2>1. PICK j \in DOMAIN Tail(p) : Tail(p)[j] = y
    BY DEF In
  <2>2. 1 \in DOMAIN p /\ j + 1 \in DOMAIN p /\ 1 < j + 1 /\ p[j + 1] = y
    BY <1>6, <2>1
  <2>3. InOrder(p, q)
    BY DEF OrderOf
  <2> QED
    BY <1>1, <1>6, <2>2, <2>3 DEF InOrder
<1>8. InOrder(Tail(p), q)
  <2> SUFFICES ASSUME NEW i \in DOMAIN Tail(p), NEW j \in DOMAIN Tail(p), i < j,
                      Tail(p)[i] \in Tasks, Tail(p)[j] \in Tasks
               PROVE  Before(Tail(p)[i], Tail(p)[j], q)
    BY DEF InOrder
  <2>1. /\ i + 1 \in DOMAIN p /\ j + 1 \in DOMAIN p /\ i + 1 < j + 1
        /\ Tail(p)[i] = p[i + 1] /\ Tail(p)[j] = p[j + 1]
    BY <1>6
  <2>2. InOrder(p, q)
    BY DEF OrderOf
  <2> QED
    BY <2>1, <2>2 DEF InOrder
<1>9. \A x \in Tasks : In(x, f) \/ In(x, r) \/ In(x, Tail(p)) => In(x, q)
  BY <1>2, <1>3 DEF OrderOf
<1>10. InOrder(f, q)
  BY DEF OrderOf
<1> QED
  BY <1>4, <1>5, <1>7, <1>8, <1>9, <1>10 DEF OrderOf, r

LEMMA OrderAfterWrite ==
  ASSUME NEW q, NEW S, Tasks \subseteq S, NEW f \in Seq(S), NEW r \in Seq(Tasks), r # <<>>, NEW p,
         OrderOf(f, r, p, q)
  PROVE  OrderOf(f \o <<Head(r)>>, Tail(r), p, q) /\ OrderOf(f, Tail(r), p, q)
<1> DEFINE h == Head(r)
<1>1. h \in Tasks /\ h \in S
  BY HeadTailProperties
<1>2. In(h, r) /\ \A x : In(x, Tail(r)) => In(x, r)
  BY InTail
<1>3. OrderOf(f, Tail(r), p, q)
  BY <1>2 DEF OrderOf, Precedes
<1> HIDE DEF h
<1>4. <<h>> \in Seq(S)
  BY <1>1
<1>5. \A x : In(x, f \o <<h>>) <=> In(x, f) \/ x = h
  BY <1>4, InConcat, InOne
<1>6. Precedes(f, <<h>>, q)
  BY <1>2, InOne DEF OrderOf, Precedes
<1>7. InOrder(f \o <<h>>, q)
  <2>1. InOrder(f, q) /\ InOrder(<<h>>, q)
    BY OneInOrder DEF OrderOf
  <2> QED
    BY <1>4, <1>6, <2>1, ConcatInOrder
<1>8. Precedes(f \o <<h>>, Tail(r), q) /\ Precedes(f \o <<h>>, p, q)
  BY <1>1, <1>2, <1>5 DEF OrderOf, Precedes
<1>9. OrderOf(f \o <<h>>, Tail(r), p, q)
  BY <1>2, <1>3, <1>5, <1>7, <1>8 DEF OrderOf
<1> QED
  BY <1>3, <1>9 DEF h

\* The header and the totals are no tracks.
LEMMA OrderAfterMark ==
  ASSUME NEW q, NEW S, NEW f \in Seq(S), NEW m \in S, m \notin Tasks, NEW r, NEW p,
         OrderOf(f, r, p, q)
  PROVE  OrderOf(f \o <<m>>, r, p, q)
<1>1. <<m>> \in Seq(S)
  OBVIOUS
<1>2. ASSUME NEW x \in Tasks PROVE In(x, f \o <<m>>) <=> In(x, f)
  <2>1. In(x, f \o <<m>>) <=> In(x, f) \/ In(x, <<m>>)
    BY <1>1, InConcat
  <2>2. In(x, <<m>>) <=> x = m
    BY InOne
  <2> QED
    BY <2>1, <2>2
<1>3. Precedes(f, <<m>>, q)
  BY InOne DEF Precedes
<1>4. InOrder(f \o <<m>>, q)
  <2>1. InOrder(f, q) /\ InOrder(<<m>>, q)
    BY OneInOrder DEF OrderOf
  <2> QED
    BY <1>1, <1>3, <2>1, ConcatInOrder
<1> QED
  BY <1>2, <1>4 DEF OrderOf, Precedes

LEMMA OrderStep ==
  /\ PipelineTypes /\ HeaderOK /\ FreshOK /\ OnceOK /\ OrderOK
  /\ [PipelineNext]_pipelineVars
  => OrderOK'
<1> SUFFICES ASSUME PipelineTypes, HeaderOK, FreshOK, OnceOK, OrderOK,
                    [PipelineNext]_pipelineVars, NEW s \in Sinks
             PROVE  OrderOf(file'[s], rows'[s], pending'[s], received'[s])
  BY DEF OrderOK
<1> DEFINE Marked == Tasks \cup {"header", "summary"}
           Next == OrderOf(file'[s], rows'[s], pending'[s], received'[s])
<1>0. /\ file \in [Sinks -> Seq(Marked)] /\ rows \in [Sinks -> Seq(Tasks)]
      /\ pending \in [Sinks -> Seq(Tasks)] /\ received \in [Sinks -> Seq(Tasks)]
      /\ OrderOf(file[s], rows[s], pending[s], received[s])
  BY DEF PipelineTypes, OrderOK
<1>1. ASSUME NEW t \in Tasks, NEW r \in Sinks, Pass(t, r) PROVE Next
  <2>1. file'[s] = file[s] /\ rows'[s] = rows[s]
    BY <1>1 DEF Pass
  <2>2. CASE r = s
    <3>1. /\ pending'[s] = Append(pending[s], t)
          /\ received'[s] = Append(received[s], t)
          /\ ~In(t, received[s])
      BY <1>0, <1>1, <2>2, PassIsFresh DEF Pass
    <3> QED
      BY <1>0, <2>1, <3>1, OrderAfterPass
  <2>3. CASE r # s
    <3>1. pending'[s] = pending[s] /\ received'[s] = received[s]
      BY <1>0, <1>1, <2>3 DEF Pass
    <3> QED
      BY <1>0, <2>1, <3>1
  <2> QED
    BY <2>2, <2>3
<1>2. ASSUME NEW r \in Sinks, Take(r) PROVE Next
  <2>1. file'[s] = file[s] /\ received'[s] = received[s]
    BY <1>2 DEF Take
  <2>2. CASE r = s
    <3>1. PICK n \in IF s = "candidates" THEN 0..MaxRows ELSE {1} :
             rows' = [rows EXCEPT ![s] = [i \in 1..n |-> Head(pending[s])]]
      BY <1>2, <2>2 DEF Take
    <3>2. n \in Nat
      BY <3>1, RowCounts
    <3>3. /\ rows'[s] = [i \in 1..n |-> Head(pending[s])]
          /\ pending'[s] = Tail(pending[s])
          /\ rows[s] = <<>> /\ pending[s] # <<>>
      BY <1>0, <1>2, <2>2, <3>1 DEF Take
    <3>4. Once(received[s])
      BY DEF OnceOK
    <3> QED
      BY <1>0, <2>1, <3>2, <3>3, <3>4, OrderAfterTake
  <2>3. CASE r # s
    <3>1. pending'[s] = pending[s] /\ rows'[s] = rows[s]
      BY <1>0, <1>2, <2>3 DEF Take
    <3> QED
      BY <1>0, <2>1, <3>1
  <2> QED
    BY <2>2, <2>3
<1>3. ASSUME NEW r \in Sinks, WriteRow(r) PROVE Next
  <2>1. pending'[s] = pending[s] /\ received'[s] = received[s]
    BY <1>3 DEF WriteRow
  <2>2. CASE r = s
    <3>1. rows'[s] = Tail(rows[s]) /\ rows[s] # <<>>
      BY <1>0, <1>3, <2>2 DEF WriteRow
    <3>2. OrderOf(file[s], Tail(rows[s]), pending[s], received[s])
      BY <1>0, <3>1, OrderAfterWrite
    <3>3. CASE good[s] /\ headed[s]
      <4>1. file'[s] = file[s] \o <<Head(rows[s])>>
        BY <1>3, <2>2, <3>3, WriteGrows
      <4> QED
        BY <1>0, <2>1, <3>1, <4>1, OrderAfterWrite
    <3>4. CASE good[s] /\ ~headed[s]
      <4>1. file[s] = <<>> /\ file'[s] = <<"header">> \o <<Head(rows[s])>>
        BY <1>3, <2>2, <3>4, WriteGrows DEF HeaderOK
      <4>2. <<>> \o <<"header">> = <<"header">> /\ <<"header">> \in Seq(Marked)
        OBVIOUS
      <4>3. OrderOf(<<>> \o <<"header">>, rows[s], pending[s], received[s])
        BY <1>0, <4>1, MarksAreNoTracks, OrderAfterMark
      <4>4. OrderOf(<<"header">>, rows[s], pending[s], received[s])
        BY <4>2, <4>3
      <4> QED
        BY <1>0, <2>1, <3>1, <4>1, <4>2, <4>4, OrderAfterWrite
    <3>5. CASE ~good[s]
      <4>1. file'[s] = file[s]
        BY <1>0, <1>3, <2>2, <3>5 DEF WriteRow
      <4> QED
        BY <2>1, <3>1, <3>2, <4>1
    <3> QED
      BY <3>3, <3>4, <3>5
  <2>3. CASE r # s
    <3>1. file'[s] = file[s] /\ rows'[s] = rows[s]
      BY <1>0, <1>3, <2>3 DEF WriteRow
    <3> QED
      BY <1>0, <2>1, <3>1
  <2> QED
    BY <2>2, <2>3
<1>4. CASE DestroyMember
  <2>1. UNCHANGED <<received, pending, rows>>
    BY <1>4 DEF DestroyMember
  <2>2. file'[s] = file[s] \/ file'[s] = file[s] \o <<"summary">>
    <3>1. file[s] \o <<>> = file[s]
      BY <1>0
    <3> QED
      BY <1>0, <1>4, <3>1 DEF DestroyMember, Summary
  <2>3. CASE file'[s] = file[s]
    BY <1>0, <2>1, <2>3
  <2>4. CASE file'[s] = file[s] \o <<"summary">>
    BY <1>0, <2>1, <2>4, MarksAreNoTracks, OrderAfterMark
  <2> QED
    BY <2>2, <2>3, <2>4
<1>5. CASE UNCHANGED <<received, pending, rows, file>>
  BY <1>0, <1>5
<1> QED
  BY <1>1, <1>2, <1>3, <1>4, <1>5
  DEF PipelineNext, Worker, Works, Begin, Match, Throw, Return, PassClosed, Sink, DiskFails, Main,
      ReadTrack, ReadingEnds, ReaderThrows, JoinMatcher, StopSink, JoinSink, StopBase, JoinBase,
      Done, sinkVars, pipelineVars

-----------------------------------------------------------------------------

FileInv ==
    /\ PipelineInv
    /\ FreshOK
    /\ OnceOK
    /\ OrderOK
    /\ HeaderOK
    /\ SummaryOK

LEMMA FileInvInit == PipelineInit => FileInv
<1> SUFFICES ASSUME PipelineInit PROVE FileInv
  OBVIOUS
<1>1. PipelineInv
  BY PipelineInvInit
<1>2. \A s \in Sinks : /\ file[s] = <<>> /\ rows[s] = <<>> /\ pending[s] = <<>>
                       /\ received[s] = <<>>
  BY DEF PipelineInit
<1>3. FreshOK /\ OnceOK
  BY <1>2, NotInEmpty DEF FreshOK, OnceOK, Once
<1>4. OrderOf(<<>>, <<>>, <<>>, <<>>)
  BY NotInEmpty DEF OrderOf, InOrder, Precedes
<1>5. OrderOK
  BY <1>2, <1>4 DEF OrderOK
<1>6. HeaderOK
  <2>1. /\ headed = [s \in Sinks |-> s = "printer"] /\ good = [s \in Sinks |-> TRUE]
        /\ "printer" \in Sinks
    BY DEF PipelineInit, Sinks
  <2>2. /\ headed \in [Sinks -> BOOLEAN] /\ headed["printer"] /\ good["printer"]
        /\ \A s \in Sinks \ {"printer"} : ~headed[s]
    BY <2>1
  <2>3. \A s \in Sinks : DOMAIN file[s] = {}
    BY <1>2
  <2> QED
    BY <1>2, <2>2, <2>3 DEF HeaderOK
<1>7. SummaryOK
  BY <1>2 DEF PipelineInit, SummaryOK
<1> QED
  BY <1>1, <1>3, <1>5, <1>6, <1>7 DEF FileInv

LEMMA FileInvStep == FileInv /\ [PipelineNext]_pipelineVars => FileInv'
  BY PipelineInvStep, FreshStep, OnceStep, OrderStep, HeaderStep, SummaryStep
  DEF FileInv, PipelineInv

LEMMA InvGivesFiles == FileInv => FileWellFormed
<1> SUFFICES ASSUME FileInv, NEW s \in Sinks
             PROVE  /\ In("summary", file[s]) => \A t \in Tasks :
                          In(t, received[s]) => In(t, file[s]) \/ In(t, pending[s])
                    /\ \A i \in DOMAIN file[s] :
                        /\ file[s][i] = "header" <=> (i = 1 /\ s \in CsvSinks)
                        /\ file[s][i] = "summary" => s = "printer" /\ i = Len(file[s])
                        /\ \A j \in (i + 1)..Len(file[s]) :
                              file[s][i] \in Tasks /\ file[s][j] \in Tasks =>
                                Position(file[s][i], received[s])
                                  <= Position(file[s][j], received[s])
  BY DEF FileWellFormed
<1>0. received[s] \in Seq(Tasks) /\ file[s] \in Seq(Tasks \cup {"header", "summary"})
  BY DEF FileInv, PipelineInv, PipelineTypes
<1>1. ASSUME In("summary", file[s]), NEW t \in Tasks, In(t, received[s])
      PROVE  In(t, file[s]) \/ In(t, pending[s])
  <2>1. s = "printer" /\ sinkOver[s]
    BY <1>1 DEF FileInv, SummaryOK, In
  <2>2. rows[s] = <<>> /\ good[s]
    BY <2>1 DEF FileInv, PipelineInv, SinkOverOK, HeaderOK
  <2> QED
    BY <1>1, <2>1, <2>2, NotInEmpty DEF FileInv, PipelineInv, KeptOK
<1>2. \A i \in DOMAIN file[s] :
        /\ file[s][i] = "header" <=> (i = 1 /\ s \in CsvSinks)
        /\ file[s][i] = "summary" => s = "printer" /\ i = Len(file[s])
  BY DEF FileInv, HeaderOK, SummaryOK
<1>3. ASSUME NEW i \in DOMAIN file[s], NEW j \in (i + 1)..Len(file[s]),
             file[s][i] \in Tasks, file[s][j] \in Tasks
      PROVE  Position(file[s][i], received[s]) <= Position(file[s][j], received[s])
  <2>1. i < j /\ j \in DOMAIN file[s]
    BY <1>0, LenProperties
  <2>2. OrderOf(file[s], rows[s], pending[s], received[s]) /\ Once(received[s])
    BY DEF FileInv, OrderOK, OnceOK
  <2>3. Before(file[s][i], file[s][j], received[s])
    BY <1>3, <2>1, <2>2 DEF OrderOf, InOrder
  <2>4. In(file[s][i], file[s]) /\ In(file[s][j], file[s])
    BY <2>1 DEF In
  <2>5. In(file[s][i], received[s]) /\ In(file[s][j], received[s])
    BY <1>3, <2>2, <2>4 DEF OrderOf
  <2> QED
    BY <1>0, <2>2, <2>3, <2>5, PositionsInOrder
<1> QED
  BY <1>1, <1>2, <1>3

\* What the command leaves is whole, however many tracks, threads and rows there are: each
\* file has its header in front and the rows of its tracks in the order in which it was
\* given them, the totals come last and once, and when the command has ended no worker runs
\* (csv_exporter.hpp, results_output_printer.hpp, matcher.hpp, coordinator.hpp).
THEOREM OutputIsAlwaysWhole == PipelineSpec => []OutputIsWhole
<1>1. FileInv => OutputIsWhole
  BY InvEndsQuietly, InvGivesFiles DEF FileInv, OutputIsWhole
<1>2. PipelineSpec => []FileInv
  BY FileInvInit, FileInvStep, PTL DEF PipelineSpec
<1> QED
  BY <1>1, <1>2, PTL
=============================================================================
