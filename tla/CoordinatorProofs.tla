------------------------- MODULE CoordinatorProofs -------------------------
(***************************************************************************)
(* Proofs about Coordinator, for any finite set of tasks, any finite pool  *)
(* and any queue size.                                                     *)
(***************************************************************************)
EXTENDS Coordinator, FiniteSetTheorems, SequenceTheorems, TLAPS

\* The coordinator thread holds a task exactly between pull and submit.
HeldOK == held # NoTask <=> pc \in {"acquire", "submit"}

\* A pool thread holds a task exactly from taking it to release().
JobOK == \A w \in Workers : job[w] # NoTask <=> w \in Busy

\* The coordinator thread does not run before start().
StartOK == owner = "constructed" => pc = "unstarted"

\* TypeOK is not inductive by itself: that the semaphore stays within its
\* bounds follows from the accounting of its permits.
PermitInv ==
    /\ TypeOK
    /\ HeldOK
    /\ JobOK
    /\ StartOK
    /\ PermitConservation

LEMMA BusyFinite == IsFiniteSet(Busy) /\ Cardinality(Busy) \in Nat
  BY CoordinatorAssumption, FS_Subset, FS_CardinalityType DEF Busy, CoordinatorAssumption

LEMMA BusyGrows ==
  ASSUME NEW w \in Workers, w \notin Busy, Busy' = Busy \cup {w}
  PROVE  Cardinality(Busy') = Cardinality(Busy) + 1 /\ Cardinality(Busy') \in Nat
  BY BusyFinite, FS_AddElement

LEMMA BusyShrinks ==
  ASSUME NEW w \in Workers, w \in Busy, Busy' = Busy \ {w}
  PROVE  Cardinality(Busy') = Cardinality(Busy) - 1 /\ Cardinality(Busy') \in Nat
  BY BusyFinite, FS_RemoveElement, FS_CardinalityType

\* A closure that leaves the work queue takes its permit with it.
LEMMA BeginMovesPermit ==
  ASSUME work \in Seq(Tasks), Len(work') = Len(work) - 1, UNCHANGED mainVars,
         Cardinality(Busy') = Cardinality(Busy) + 1
  PROVE  Permits' = Permits
  BY BusyFinite, LenProperties DEF Permits, mainVars

LEMMA ReleaseGivesPermit ==
  ASSUME work \in Seq(Tasks), work' = work, UNCHANGED mainVars,
         Cardinality(Busy') = Cardinality(Busy) - 1, Cardinality(Busy') \in Nat
  PROVE  Permits' = Permits - 1 /\ Permits' \in Nat
  BY BusyFinite, LenProperties DEF Permits, mainVars

LEMMA PermitInvInit == Init => PermitInv
<1> SUFFICES ASSUME Init PROVE PermitInv
  OBVIOUS
<1>1. Busy = {}
  BY DEF Init, Busy
<1>2. TypeOK
  <2>1. <<>> \in Seq(Tasks) /\ Len(<<>>) = 0
    BY EmptySeq
  <2>2. semaphore \in 0..QueueSize /\ Len(queue) <= QueueSize
    BY <2>1, CoordinatorAssumption DEF Init, CoordinatorAssumption
  <2> QED
    BY <2>1, <2>2
    DEF Init, TypeOK, CallerStates, OwnerStates, MainStates, WorkerStates, Outcomes
<1>3. HeldOK /\ JobOK /\ StartOK
  BY <1>1 DEF Init, HeldOK, JobOK, StartOK
<1>4. PermitConservation
  BY <1>1, FS_EmptySet, CoordinatorAssumption
  DEF Init, PermitConservation, Permits, CoordinatorAssumption
<1> QED
  BY <1>2, <1>3, <1>4 DEF PermitInv

LEMMA PermitInvStep == PermitInv /\ [Next]_vars => PermitInv'
<1> SUFFICES ASSUME PermitInv, [Next]_vars PROVE PermitInv'
  OBVIOUS
<1> USE CoordinatorAssumption, BusyFinite
    DEF CoordinatorAssumption, PermitInv, TypeOK, HeldOK, JobOK, StartOK, PermitConservation, Permits,
        CallerStates, OwnerStates, MainStates, WorkerStates, Outcomes,
        callVars, queueVars, mainVars, poolVars
<1>1. CASE \E t \in Tasks : Call(t)
  <2>1. PICK t \in Tasks : Call(t)
    BY <1>1
  <2>2. Busy' = Busy
    BY <2>1 DEF Call, Accept, Wait, Drop, Refuse, Busy
  <2>3. CASE Accept(t)
    BY <2>2, <2>3 DEF Accept, Full
  <2>4. CASE Wait(t) \/ Drop(t) \/ Refuse(t)
    BY <2>2, <2>4, SMTT(30) DEF Wait, Drop, Refuse
  <2> QED
    BY <2>1, <2>3, <2>4 DEF Call
<1>2. CASE Owner
  <2>1. Busy' = Busy
    BY <1>2 DEF Owner, Start, Stop, Join, Destroy, DestroyPool, Destroyed, Busy
  <2>2. CASE Start
    BY <2>1, <2>2 DEF Start
  <2>3. CASE Stop \/ Destroy
    BY <2>1, <2>3 DEF Stop, Destroy
  <2>4. CASE Join \/ Destroyed
    BY <2>1, <2>4 DEF Join, Destroyed
  <2>5. CASE DestroyPool
    BY <2>1, <2>5 DEF DestroyPool
  <2> QED
    BY <1>2, <2>2, <2>3, <2>4, <2>5 DEF Owner
<1>3. CASE Main
  <2>1. Busy' = Busy
    BY <1>3 DEF Main, TestEmpty, TestClosed, Pull, PullClosed, Acquire, Submit, ClosePool, JoinPool, Busy
  <2>2. CASE TestEmpty \/ TestClosed \/ PullClosed \/ ClosePool \/ JoinPool
    BY <2>1, <2>2 DEF TestEmpty, TestClosed, PullClosed, ClosePool, JoinPool
  <2>3. CASE Pull
    BY <2>1, <2>3 DEF Pull
  <2>4. CASE Acquire
    BY <2>1, <2>4 DEF Acquire
  <2>5. CASE Submit
    BY <2>1, <2>5 DEF Submit
  <2> QED
    BY <1>3, <2>2, <2>3, <2>4, <2>5 DEF Main
<1>4. CASE \E w \in Workers : Pool(w)
  <2>1. PICK w \in Workers : Pool(w)
    BY <1>4
  <2>2. CASE Take(w)
    <3>1. w \notin Busy /\ Busy' = Busy \cup {w}
      BY <2>2 DEF Take, Busy
    <3>2. Cardinality(Busy') = Cardinality(Busy) + 1 /\ Cardinality(Busy') \in Nat
      BY <3>1, BusyGrows
    <3>3. Head(work) \in Tasks /\ Tail(work) \in Seq(Tasks) /\ Len(Tail(work)) = Len(work) - 1
      BY <2>2, HeadTailProperties DEF Take
    <3>4. TypeOK'
      BY <2>2, <3>3 DEF Take
    <3>5. HeldOK' /\ JobOK' /\ StartOK'
      BY <2>2, <3>1, <3>3 DEF Take
    <3>6. Permits' = Permits /\ semaphore' = semaphore
      BY <2>2, <3>2, <3>3, BeginMovesPermit DEF Take
    <3>7. PermitConservation'
      BY <3>6
    <3> QED
      BY <3>4, <3>5, <3>7
  <2>3. CASE Execute(w)
    <3>1. w \in Busy /\ Busy' = Busy
      BY <2>3 DEF Execute, Busy
    <3> QED
      BY <2>3, <3>1 DEF Execute
  <2>4. CASE Release(w)
    <3>1. w \in Busy /\ Busy' = Busy \ {w}
      BY <2>4 DEF Release, Busy
    <3>2. Cardinality(Busy') = Cardinality(Busy) - 1 /\ Cardinality(Busy') \in Nat
      BY <3>1, BusyShrinks
    <3>3. Permits' = Permits - 1 /\ Permits' \in Nat /\ semaphore' = semaphore + 1
      BY <2>4, <3>2, ReleaseGivesPermit DEF Release
    <3>4. semaphore' \in 0..QueueSize /\ PermitConservation'
      BY <3>3
    <3>5. TypeOK'
      BY <2>4, <3>4 DEF Release
    <3>6. HeldOK' /\ JobOK' /\ StartOK'
      BY <2>4, <3>1 DEF Release
    <3> QED
      BY <3>4, <3>5, <3>6
  <2>5. CASE Exit(w)
    <3>1. Busy' = Busy
      BY <2>5 DEF Exit, Busy
    <3> QED
      BY <2>5, <3>1 DEF Exit
  <2> QED
    BY <2>1, <2>2, <2>3, <2>4, <2>5 DEF Pool
<1>5. CASE Finished \/ UNCHANGED vars
  BY <1>5, ZenonT(40) DEF Finished, vars, Busy
<1> QED
  BY <1>1, <1>2, <1>3, <1>4, <1>5 DEF Next

\* Every variable keeps its type; the queue and the free permits never exceed
\* the queue size (coordinator.hpp, semaphore.hpp).
THEOREM TypeCorrect == Spec => []TypeOK
<1>1. PermitInv => TypeOK
  BY DEF PermitInv
<1> QED
  BY PermitInvInit, PermitInvStep, <1>1, PTL DEF Spec

\* Permits are neither lost nor given back twice, and every variable keeps
\* its type, in every reachable state.
THEOREM PermitsConserved == Spec => [](TypeOK /\ PermitConservation)
<1>1. PermitInv => TypeOK /\ PermitConservation
  BY DEF PermitInv
<1> QED
  BY PermitInvInit, PermitInvStep, <1>1, PTL DEF Spec

-----------------------------------------------------------------------------
(* How the threads end.                                                    *)

\* Pool threads exit after close(), with the work queue empty; the pool is
\* closed by the coordinator thread, or by the destructor if that thread
\* never ran; the owner leaves join() after the coordinator thread.
EndOK ==
    /\ \A w \in Workers : worker[w] = "exited" => poolClosed /\ work = <<>>
    /\ poolClosed => pc \in {"unstarted", "join_pool", "exited"}
    /\ pc = "unstarted" =>
          /\ work = <<>>
          /\ owner \in {"constructed", "destroying", "destroying_pool", "destroyed"}
    /\ pc = "exited" => \A w \in Workers : worker[w] = "exited"
    /\ owner = "joined" => pc = "exited"
    /\ owner \in {"destroying_pool", "destroyed"} => pc \in {"unstarted", "exited"}
    /\ owner = "destroyed" => \A w \in Workers : worker[w] = "exited"
    /\ owner \notin {"constructed", "started"} => closed
    /\ pc = "unstarted" /\ poolClosed => owner \in {"destroying_pool", "destroyed"}

LEMMA EndStep == PermitInv /\ EndOK /\ [Next]_vars => EndOK'
<1> SUFFICES ASSUME PermitInv, EndOK, [Next]_vars PROVE EndOK'
  OBVIOUS
<1> USE DEF PermitInv, TypeOK, HeldOK, StartOK, EndOK, callVars, queueVars, mainVars, poolVars,
            OwnerStates, MainStates, WorkerStates
<1>1. CASE \E t \in Tasks : Call(t)
  BY <1>1 DEF Call, Accept, Wait, Drop, Refuse
<1>2. CASE Owner
  <2>1. CASE Start \/ Stop \/ Join
    BY <2>1 DEF Start, Stop, Join
  <2>2. CASE Destroy \/ DestroyPool \/ Destroyed
    BY <2>2 DEF Destroy, DestroyPool, Destroyed, Alive
  <2> QED
    BY <1>2, <2>1, <2>2 DEF Owner
<1>3. CASE Main
  <2>1. CASE TestEmpty \/ TestClosed
    BY <2>1 DEF TestEmpty, TestClosed
  <2>2. CASE Pull \/ PullClosed \/ Acquire
    BY <2>2 DEF Pull, PullClosed, Acquire
  <2>3. CASE Submit
    BY <2>3 DEF Submit
  <2>4. CASE ClosePool \/ JoinPool
    BY <2>4 DEF ClosePool, JoinPool
  <2> QED
    BY <1>3, <2>1, <2>2, <2>3, <2>4 DEF Main
<1>4. CASE \E w \in Workers : Pool(w)
  <2>1. PICK w \in Workers : Pool(w)
    BY <1>4
  <2>2. CASE Take(w)
    BY <2>2 DEF Take
  <2>3. CASE Execute(w)
    BY <2>3 DEF Execute
  <2>4. CASE Release(w)
    BY <2>4 DEF Release
  <2>5. CASE Exit(w)
    BY <2>5 DEF Exit
  <2> QED
    BY <2>1, <2>2, <2>3, <2>4, <2>5 DEF Pool
<1>5. CASE Finished \/ UNCHANGED vars
  BY <1>5 DEF Finished, vars
<1> QED
  BY <1>1, <1>2, <1>3, <1>4, <1>5 DEF Next

-----------------------------------------------------------------------------
(* What can stay behind in the queue.                                      *)

\* At the second read of the loop condition only tasks that came after the
\* first can be in the queue; once the second found the queue closed, none
\* can come any more.
WindowOK ==
    /\ pc = "test_closed" => Elements(queue) \subseteq late
    /\ pc \in {"close_pool", "join_pool", "exited"} => closed
    /\ StrandedOnlyInWindow

LEMMA AppendElements ==
  ASSUME NEW S, NEW q \in Seq(S), NEW t \in S
  PROVE  Elements(Append(q, t)) = Elements(q) \cup {t}
<1>1. \A i \in 1..Len(q) + 1 : Append(q, t)[i] = IF i = Len(q) + 1 THEN t ELSE q[i]
  OBVIOUS
<1>2. DOMAIN Append(q, t) = 1..Len(q) + 1 /\ DOMAIN q = 1..Len(q) /\ Len(q) \in Nat
  OBVIOUS
<1> QED
  BY <1>1, <1>2 DEF Elements

LEMMA WindowStep == PermitInv /\ WindowOK /\ [Next]_vars => WindowOK'
<1> SUFFICES ASSUME PermitInv, WindowOK, [Next]_vars PROVE WindowOK'
  OBVIOUS
<1> USE DEF PermitInv, TypeOK, WindowOK, StrandedOnlyInWindow,
            callVars, queueVars, mainVars, poolVars, MainStates
<1>1. CASE \E t \in Tasks : Call(t)
  <2>1. PICK t \in Tasks : Call(t)
    BY <1>1
  <2>2. CASE Accept(t)
    <3>1. Elements(queue') = Elements(queue) \cup {t}
      BY <2>2, AppendElements DEF Accept
    <3> QED
      BY <2>2, <3>1 DEF Accept
  <2>3. CASE Wait(t) \/ Drop(t) \/ Refuse(t)
    BY <2>3 DEF Wait, Drop, Refuse
  <2> QED
    BY <2>1, <2>2, <2>3 DEF Call
<1>2. CASE Owner
  BY <1>2 DEF Owner, Start, Stop, Join, Destroy, DestroyPool, Destroyed
<1>3. CASE Main
  <2>1. CASE TestEmpty
    <3>1. queue = <<>> => Elements(queue) = {}
      BY DEF Elements
    <3> QED
      BY <2>1, <3>1 DEF TestEmpty
  <2>2. CASE TestClosed \/ PullClosed \/ Acquire \/ Submit \/ ClosePool \/ JoinPool
    BY <2>2 DEF TestClosed, PullClosed, Acquire, Submit, ClosePool, JoinPool
  <2>3. CASE Pull
    BY <2>3 DEF Pull
  <2> QED
    BY <1>3, <2>1, <2>2, <2>3 DEF Main
<1>4. CASE \E w \in Workers : Pool(w)
  BY <1>4 DEF Pool, Take, Execute, Release, Exit
<1>5. CASE Finished \/ UNCHANGED vars
  BY <1>5 DEF Finished, vars
<1> QED
  BY <1>1, <1>2, <1>3, <1>4, <1>5 DEF Next

\* The only tasks that can miss their execution are those the queue takes
\* between the two reads of the loop condition.
THEOREM StrandingIsConfined == Spec => []StrandedOnlyInWindow
<1>1. Init => WindowOK
  BY DEF Init, WindowOK, StrandedOnlyInWindow
<1>2. WindowOK => StrandedOnlyInWindow
  BY DEF WindowOK
<1> QED
  BY PermitInvInit, PermitInvStep, WindowStep, <1>1, <1>2, PTL DEF Spec

-----------------------------------------------------------------------------
(* Every task runs through the coordinator once and in order.              *)

\* The tasks the queue took are those whose execute() has begun and then
\* those in the line: work queue, coordinator's hand, queue.
ChainOK == order = taken \o Line

LEMMA SingletonSeq ==
  ASSUME NEW S, NEW e \in S
  PROVE  <<e>> \in Seq(S) /\ Len(<<e>>) = 1 /\ <<e>>[1] = e
  OBVIOUS

LEMMA HeadConcatTail ==
  ASSUME NEW S, NEW s \in Seq(S), s # <<>>
  PROVE  s = <<Head(s)>> \o Tail(s)
<1>1. /\ Head(s) = s[1] /\ Head(s) \in S /\ Len(s) \in Nat /\ Len(s) > 0
      /\ Tail(s) \in Seq(S) /\ Len(Tail(s)) = Len(s) - 1
      /\ \A i \in 1..Len(s) - 1 : Tail(s)[i] = s[i + 1]
  BY HeadTailProperties, EmptySeq
<1>2. /\ <<Head(s)>> \o Tail(s) \in Seq(S) /\ Len(<<Head(s)>> \o Tail(s)) = Len(s)
      /\ \A i \in 1..Len(s) : (<<Head(s)>> \o Tail(s))[i] =
            IF i <= 1 THEN <<Head(s)>>[i] ELSE Tail(s)[i - 1]
  BY <1>1, ConcatProperties, SingletonSeq
<1>3. \A i \in 1..Len(s) : (<<Head(s)>> \o Tail(s))[i] = s[i]
  <2> TAKE i \in 1..Len(s)
  <2>1. CASE i = 1
    BY <1>1, <1>2, <2>1
  <2>2. CASE i # 1
    <3>1. i - 1 \in 1..Len(s) - 1 /\ (i - 1) + 1 = i
      BY <1>1, <2>2
    <3> QED
      BY <1>1, <1>2, <2>2, <3>1
  <2> QED
    BY <2>1, <2>2
<1> QED
  BY <1>1, <1>2, <1>3, SeqEqual

LEMMA ConcatHeadTail ==
  ASSUME NEW S, NEW s \in Seq(S), s # <<>>, NEW r \in Seq(S)
  PROVE  /\ s \o r \in Seq(S) /\ s \o r # <<>>
         /\ Head(s \o r) = Head(s) /\ Tail(s \o r) = Tail(s) \o r
<1>1. /\ Len(s) \in Nat /\ Len(s) > 0 /\ Len(r) \in Nat
      /\ Tail(s) \in Seq(S) /\ Len(Tail(s)) = Len(s) - 1
      /\ \A i \in 1..Len(s) - 1 : Tail(s)[i] = s[i + 1]
  BY HeadTailProperties, EmptySeq, LenProperties
<1>2. /\ s \o r \in Seq(S) /\ Len(s \o r) = Len(s) + Len(r)
      /\ \A i \in 1..Len(s) + Len(r) : (s \o r)[i] = IF i <= Len(s) THEN s[i] ELSE r[i - Len(s)]
  BY ConcatProperties
<1>3. s \o r # <<>> /\ Len(s \o r) > 0
  BY <1>1, <1>2
<1>4. Head(s \o r) = Head(s)
  BY <1>1, <1>2, <1>3
<1>5. /\ Tail(s \o r) \in Seq(S) /\ Len(Tail(s \o r)) = Len(s) + Len(r) - 1
      /\ \A i \in 1..Len(s) + Len(r) - 1 : Tail(s \o r)[i] = (s \o r)[i + 1]
  BY <1>2, <1>3, HeadTailProperties
<1>6. /\ Tail(s) \o r \in Seq(S) /\ Len(Tail(s) \o r) = Len(s) - 1 + Len(r)
      /\ \A i \in 1..Len(s) - 1 + Len(r) :
            (Tail(s) \o r)[i] = IF i <= Len(s) - 1 THEN Tail(s)[i] ELSE r[i - (Len(s) - 1)]
  BY <1>1, ConcatProperties
<1>7. Len(s) + Len(r) - 1 = Len(s) - 1 + Len(r)
  BY <1>1
<1>8. ASSUME NEW i \in 1..Len(s) + Len(r) - 1 PROVE Tail(s \o r)[i] = (Tail(s) \o r)[i]
  <2>1. i + 1 \in 1..Len(s) + Len(r) /\ (i + 1 <= Len(s) <=> i <= Len(s) - 1)
        /\ (i + 1) - Len(s) = i - (Len(s) - 1)
    BY <1>1
  <2>2. i <= Len(s) - 1 => i \in 1..Len(s) - 1
    BY <1>1
  <2>3. Tail(s \o r)[i] = IF i + 1 <= Len(s) THEN s[i + 1] ELSE r[(i + 1) - Len(s)]
    BY <1>2, <1>5, <2>1
  <2>4. (Tail(s) \o r)[i] = IF i <= Len(s) - 1 THEN Tail(s)[i] ELSE r[i - (Len(s) - 1)]
    BY <1>6, <1>7
  <2> QED
    BY <1>1, <2>1, <2>2, <2>3, <2>4
<1>9. Tail(s \o r) = Tail(s) \o r
  BY <1>5, <1>6, <1>7, <1>8, SeqEqual
<1> QED
  BY <1>2, <1>3, <1>4, <1>9

LEMMA LineType ==
  ASSUME PermitInv
  PROVE  /\ queue \in Seq(Tasks) /\ work \in Seq(Tasks)
         /\ order \in Seq(Tasks) /\ taken \in Seq(Tasks)
         /\ Hand \in Seq(Tasks) /\ Hand \o queue \in Seq(Tasks) /\ Line \in Seq(Tasks)
<1>1. Hand \in Seq(Tasks)
  BY EmptySeq, SingletonSeq DEF Hand, PermitInv, TypeOK
<1> QED
  BY <1>1, ConcatProperties DEF Line, PermitInv, TypeOK

LEMMA BeginsHead ==
  ASSUME PermitInv, NEW w \in Workers, Take(w)
  PROVE  Line # <<>> /\ Head(Line) = Head(work) /\ Line' = Tail(Line)
<1>1. Line # <<>> /\ Head(Line) = Head(work) /\ Tail(Line) = Tail(work) \o (Hand \o queue)
  BY LineType, ConcatHeadTail, ZenonT(40) DEF Take, Line
<1> QED
  BY <1>1 DEF Take, queueVars, mainVars, Line, Hand

LEMMA AcceptsLast ==
  ASSUME PermitInv, NEW t \in Tasks, Accept(t) PROVE Line' = Append(Line, t)
<1>1. queue' = queue \o <<t>> /\ work' = work /\ Hand' = Hand
  BY LineType, AppendIsConcat DEF Accept, mainVars, poolVars, Hand
<1>2. <<t>> \in Seq(Tasks)
  BY SingletonSeq
<1>3. Hand \o (queue \o <<t>>) = (Hand \o queue) \o <<t>>
  BY <1>2, LineType, ConcatAssociative
<1>4. work \o ((Hand \o queue) \o <<t>>) = Line \o <<t>>
  <2>1. \A x, y \in Seq(Tasks) : x \o (y \o <<t>>) = (x \o y) \o <<t>>
    BY <1>2, ConcatAssociative
  <2> QED
    BY <2>1, LineType, Zenon DEF Line
<1>5. Line' = Line \o <<t>>
  BY <1>1, <1>3, <1>4 DEF Line
<1> QED
  BY <1>5, LineType, AppendIsConcat

\* The line grows at its end when the queue takes a task, shrinks at its head
\* when a task is taken, and no other step changes it.
LEMMA LineMoves ==
  ASSUME PermitInv, [Next]_vars
  PROVE  \/ UNCHANGED <<Line, order, taken>>
         \/ \E t \in Tasks : Accept(t) /\ Line' = Append(Line, t)
         \/ \E w \in Workers :
               Take(w) /\ Line # <<>> /\ Head(Line) = Head(work) /\ Line' = Tail(Line)
<1>1. HeldOK /\ held \in Tasks \cup {NoTask} /\ NoTask \notin Tasks
  BY CoordinatorAssumption DEF PermitInv, TypeOK, CoordinatorAssumption
<1>2. ASSUME UNCHANGED <<work, held, queue>> PROVE UNCHANGED Line
  BY <1>2 DEF Line, Hand
<1>3. CASE \E t \in Tasks : Call(t)
  <2>1. PICK t \in Tasks : Call(t)
    BY <1>3
  <2>2. CASE Accept(t)
    BY <2>2, AcceptsLast
  <2>3. CASE Wait(t) \/ Drop(t) \/ Refuse(t)
    BY <1>2, <2>3 DEF Wait, Drop, Refuse, queueVars, mainVars, poolVars
  <2> QED
    BY <2>1, <2>2, <2>3 DEF Call
<1>4. CASE Owner
  BY <1>2, <1>4 DEF Owner, Start, Stop, Join, Destroy, DestroyPool, Destroyed,
                    queueVars, mainVars, poolVars
<1>5. CASE Main
  <2>1. CASE TestEmpty \/ TestClosed \/ PullClosed \/ Acquire \/ ClosePool \/ JoinPool
    BY <1>2, <2>1 DEF TestEmpty, TestClosed, PullClosed, Acquire, ClosePool, JoinPool,
                      queueVars, mainVars, poolVars
  <2>2. CASE Pull
    <3>1. held = NoTask /\ held' = Head(queue) /\ held' # NoTask /\ queue' = Tail(queue)
      BY <2>2, <1>1, LineType, HeadTailProperties DEF Pull, HeldOK
    <3>2. Hand = <<>> /\ Hand' = <<Head(queue)>>
      BY <3>1 DEF Hand
    <3>3. Hand' \o queue' = Hand \o queue
      BY <2>2, <3>1, <3>2, LineType, HeadConcatTail, ConcatEmptySeq DEF Pull
    <3> QED
      BY <2>2, <3>3 DEF Pull, poolVars, Line
  <2>3. CASE Submit
    <3>1. held \in Tasks /\ Hand = <<held>> /\ Hand' = <<>>
      BY <2>3, <1>1 DEF Submit, HeldOK, Hand
    <3>2. work' = work \o Hand
      BY <2>3, <3>1, LineType, AppendIsConcat DEF Submit
    <3>3. Hand' \o queue = queue
      BY <3>1, LineType, ConcatEmptySeq
    <3>4. (work \o Hand) \o queue = work \o (Hand \o queue)
      <4>1. \A x, y, z \in Seq(Tasks) : (x \o y) \o z = x \o (y \o z)
        BY ConcatAssociative
      <4>2. work \in Seq(Tasks) /\ Hand \in Seq(Tasks) /\ queue \in Seq(Tasks)
        BY LineType
      <4> QED
        BY <4>1, <4>2, Zenon
    <3> QED
      BY <2>3, <3>2, <3>3, <3>4 DEF Submit, queueVars, Line
  <2> QED
    BY <1>5, <2>1, <2>2, <2>3 DEF Main
<1>6. CASE \E w \in Workers : Pool(w)
  <2>1. PICK w \in Workers : Pool(w)
    BY <1>6
  <2>2. CASE Take(w)
    BY <2>2, BeginsHead
  <2>3. CASE Execute(w) \/ Release(w) \/ Exit(w)
    BY <1>2, <2>3 DEF Execute, Release, Exit, queueVars, mainVars, poolVars
  <2> QED
    BY <2>1, <2>2, <2>3 DEF Pool
<1>7. CASE Finished \/ UNCHANGED vars
  BY <1>2, <1>7 DEF Finished, vars, queueVars, mainVars, poolVars
<1> QED
  BY <1>3, <1>4, <1>5, <1>6, <1>7 DEF Next

LEMMA LineKept ==
  ASSUME PermitInv, [Next]_vars, UNCHANGED <<order, taken>> PROVE UNCHANGED Line
<1>1. \A t \in Tasks : ~Accept(t)
  <2> SUFFICES ASSUME NEW t \in Tasks, Accept(t) PROVE FALSE
    OBVIOUS
  <2>1. order = Append(order, t) /\ order \in Seq(Tasks)
    BY LineType DEF Accept
  <2>2. Len(order) = Len(order) + 1 /\ Len(order) \in Nat
    BY <2>1, LenProperties
  <2> QED
    BY <2>2
<1>2. \A w \in Workers : ~Take(w)
  <2> SUFFICES ASSUME NEW w \in Workers, Take(w) PROVE FALSE
    OBVIOUS
  <2>1. taken = Append(taken, Head(work)) /\ taken \in Seq(Tasks) /\ Head(work) \in Tasks
    BY LineType, HeadTailProperties DEF Take
  <2>2. Len(taken) = Len(taken) + 1 /\ Len(taken) \in Nat
    BY <2>1, LenProperties
  <2> QED
    BY <2>2
<1> QED
  BY <1>1, <1>2, LineMoves

LEMMA ChainStep == PermitInv /\ ChainOK /\ [Next]_vars => ChainOK'
<1> SUFFICES ASSUME PermitInv, ChainOK, [Next]_vars PROVE ChainOK'
  OBVIOUS
<1>1. CASE UNCHANGED <<Line, order, taken>>
  BY <1>1 DEF ChainOK
<1>2. CASE \E t \in Tasks : Accept(t) /\ Line' = Append(Line, t)
  <2>1. PICK t \in Tasks : Accept(t) /\ Line' = Append(Line, t)
    BY <1>2
  <2>2. order' = order \o <<t>> /\ taken' = taken /\ Line' = Line \o <<t>> /\ <<t>> \in Seq(Tasks)
    BY <2>1, LineType, AppendIsConcat, SingletonSeq DEF Accept, poolVars
  <2>3. (taken \o Line) \o <<t>> = taken \o (Line \o <<t>>)
    <3>1. \A x, y \in Seq(Tasks) : (x \o y) \o <<t>> = x \o (y \o <<t>>)
      BY <2>2, ConcatAssociative
    <3> QED
      BY <3>1, LineType, Zenon
  <2> QED
    BY <2>2, <2>3 DEF ChainOK
<1>3. CASE \E w \in Workers : Take(w) /\ Line # <<>> /\ Head(Line) = Head(work) /\ Line' = Tail(Line)
  <2> DEFINE h == Head(Line)
             r == Tail(Line)
  <2>1. /\ order' = order /\ taken' = Append(taken, h) /\ Line' = r /\ Line # <<>>
        /\ h \in Tasks /\ r \in Seq(Tasks) /\ Line = <<h>> \o r
    BY <1>3, LineType, HeadTailProperties, HeadConcatTail DEF Take, queueVars
  <2> HIDE DEF h, r
  <2>2. taken' = taken \o <<h>> /\ <<h>> \in Seq(Tasks)
    BY <2>1, LineType, AppendIsConcat, SingletonSeq
  <2>3. (taken \o <<h>>) \o r = taken \o (<<h>> \o r)
    BY <2>1, <2>2, LineType, ConcatAssociative
  <2> QED
    BY <2>1, <2>2, <2>3 DEF ChainOK
<1> QED
  BY <1>1, <1>2, <1>3, LineMoves

LEMMA ChainInit == Init => ChainOK
<1>1. <<>> \in Seq(Tasks) /\ <<>> \o <<>> = <<>>
  BY EmptySeq, ConcatEmptySeq
<1> QED
  BY <1>1 DEF Init, ChainOK, Line, Hand

LEMMA ChainFifo == PermitInv /\ ChainOK => FifoTake
<1> SUFFICES ASSUME PermitInv, ChainOK PROVE FifoTake
  OBVIOUS
<1> DEFINE n == Len(taken)
           s == SubSeq(order, 1, n)
<1>1. taken \in Seq(Tasks) /\ Line \in Seq(Tasks) /\ n \in Nat /\ Len(Line) \in Nat
  BY LineType, LenProperties
<1>2. \A i \in 1..n : order[i] = taken[i] /\ taken[i] \in Tasks
  <2> TAKE i \in 1..n
  <2>1. i \in 1..n + Len(Line) /\ i <= n
    BY <1>1
  <2> QED
    BY <1>1, <2>1, ConcatProperties, ElementOfSeq DEF ChainOK
<1>3. s \in Seq(Tasks) /\ Len(s) = n /\ \A i \in 1..n : s[i] = order[i]
  <2>1. /\ s \in Seq(Tasks) /\ Len(s) = IF 1 <= n THEN n - 1 + 1 ELSE 0
        /\ \A i \in 1..n - 1 + 1 : s[i] = order[1 + i - 1]
    BY <1>1, <1>2, SubSeqProperties
  <2>2. n - 1 + 1 = n /\ (IF 1 <= n THEN n - 1 + 1 ELSE 0) = n
    BY <1>1
  <2>3. \A i \in 1..n : 1 + i - 1 = i
    OBVIOUS
  <2> QED
    BY <2>1, <2>2, <2>3
<1> QED
  BY <1>1, <1>2, <1>3, SeqEqual DEF FifoTake

\* The pool threads take the tasks in the order in which the queue accepted them,
\* whatever the number of workers.
THEOREM TakenInOrder == Spec => []FifoTake
  BY PermitInvInit, PermitInvStep, ChainInit, ChainStep, ChainFifo, PTL DEF Spec

-----------------------------------------------------------------------------
(* Where the unfinished tasks are.                                         *)

PlaceOK ==
    \A t \in Unfinished :
        t \in Elements(queue) \/ t = held \/ t \in Elements(work) \/ Executing(t)

LEMMA ElementsHeadTail ==
  ASSUME NEW S, NEW s \in Seq(S), s # <<>>
  PROVE  Elements(s) = {Head(s)} \cup Elements(Tail(s))
<1>1. /\ Len(s) \in Nat /\ Len(s) > 0 /\ DOMAIN s = 1..Len(s) /\ Head(s) = s[1]
      /\ DOMAIN Tail(s) = 1..Len(s) - 1
      /\ \A i \in 1..Len(s) - 1 : Tail(s)[i] = s[i + 1]
  BY HeadTailProperties, LenProperties, EmptySeq
<1>2. ASSUME NEW i \in 1..Len(s) PROVE s[i] \in {Head(s)} \cup Elements(Tail(s))
  <2>1. CASE i = 1
    BY <1>1, <2>1
  <2>2. CASE i # 1
    <3>1. i - 1 \in 1..Len(s) - 1 /\ (i - 1) + 1 = i
      BY <1>1, <2>2
    <3> QED
      BY <1>1, <3>1 DEF Elements
  <2> QED
    BY <2>1, <2>2
<1>3. \A i \in 1..Len(s) - 1 : i + 1 \in 1..Len(s)
  BY <1>1
<1>4. 1 \in 1..Len(s)
  BY <1>1
<1> QED
  BY <1>1, <1>2, <1>3, <1>4 DEF Elements

LEMMA PlaceStep == PermitInv /\ PlaceOK /\ [Next]_vars => PlaceOK'
<1> SUFFICES ASSUME PermitInv, PlaceOK, [Next]_vars,
                    NEW t \in Unfinished'
             PROVE  (t \in Elements(queue) \/ t = held \/ t \in Elements(work) \/ Executing(t))'
  BY DEF PlaceOK
<1>1. /\ queue \in Seq(Tasks) /\ work \in Seq(Tasks) /\ held \in Tasks \cup {NoTask}
      /\ caller \in [Tasks -> CallerStates] /\ outcome \in [Tasks -> Outcomes]
      /\ worker \in [Workers -> WorkerStates] /\ job \in [Workers -> Tasks \cup {NoTask}]
      /\ HeldOK /\ JobOK /\ NoTask \notin Tasks
  BY CoordinatorAssumption DEF PermitInv, TypeOK, CoordinatorAssumption
<1>2. t \in Tasks /\ caller'[t] = "accepted" /\ outcome'[t] = "none"
  BY DEF Unfinished
<1>3. ASSUME caller[t] = "accepted", UNCHANGED <<queue, held, work, worker, job, outcome>>
      PROVE  (t \in Elements(queue) \/ t = held \/ t \in Elements(work) \/ Executing(t))'
  BY <1>2, <1>3 DEF PlaceOK, Unfinished, Executing
<1>4. CASE \E u \in Tasks : Call(u)
  <2>1. PICK u \in Tasks : Call(u)
    BY <1>4
  <2>2. CASE Accept(u)
    <3>1. Elements(queue') = Elements(queue) \cup {u}
      BY <2>2, <1>1, AppendElements DEF Accept
    <3>2. caller[t] = "accepted" \/ t = u
      BY <2>2, <1>1, <1>2 DEF Accept
    <3> QED
      BY <2>2, <3>1, <3>2, <1>2 DEF Accept, mainVars, poolVars, PlaceOK, Unfinished, Executing
  <2>3. CASE Wait(u) \/ Drop(u) \/ Refuse(u)
    <3>1. caller[t] = "accepted"
      BY <2>3, <1>1, <1>2 DEF Wait, Drop, Refuse
    <3> QED
      BY <1>3, <2>3, <3>1 DEF Wait, Drop, Refuse, queueVars, mainVars, poolVars
  <2> QED
    BY <2>1, <2>2, <2>3 DEF Call
<1>5. CASE Owner
  BY <1>2, <1>3, <1>5 DEF Owner, Start, Stop, Join, Destroy, DestroyPool, Destroyed,
                          queueVars, mainVars, poolVars
<1>6. CASE Main
  <2>1. caller[t] = "accepted" /\ t \in Unfinished /\ UNCHANGED <<worker, job, outcome>>
    BY <1>2, <1>6 DEF Main, TestEmpty, TestClosed, Pull, PullClosed, Acquire, Submit, ClosePool,
                      JoinPool, callVars, poolVars, Unfinished
  <2>2. CASE TestEmpty \/ TestClosed \/ PullClosed \/ Acquire \/ ClosePool \/ JoinPool
    BY <1>3, <2>1, <2>2 DEF TestEmpty, TestClosed, PullClosed, Acquire, ClosePool, JoinPool,
                            queueVars, mainVars, poolVars
  <2>3. CASE Pull
    <3>1. Elements(queue) = {held'} \cup Elements(queue')
      BY <2>3, <1>1, ElementsHeadTail DEF Pull
    <3>2. held = NoTask /\ UNCHANGED work
      BY <2>3, <1>1 DEF Pull, HeldOK, poolVars
    <3> QED
      BY <2>1, <3>1, <3>2, <1>1, <1>2 DEF PlaceOK, Executing
  <2>4. CASE Submit
    <3>1. Elements(work') = Elements(work) \cup {held} /\ UNCHANGED queue
      BY <2>4, <1>1, AppendElements DEF Submit, HeldOK, queueVars
    <3> QED
      BY <2>1, <3>1 DEF PlaceOK, Executing
  <2> QED
    BY <1>6, <2>2, <2>3, <2>4 DEF Main
<1>7. CASE \E w \in Workers : Pool(w)
  <2>1. PICK w \in Workers : Pool(w)
    BY <1>7
  <2>2. UNCHANGED <<caller, queue, held>>
    BY <2>1 DEF Pool, Take, Execute, Release, Exit, callVars, queueVars, mainVars
  <2>3. CASE Take(w)
    <3>1. Elements(work) = {Head(work)} \cup Elements(work')
      BY <2>3, <1>1, ElementsHeadTail DEF Take
    <3>2. worker'[w] = "execute" /\ job'[w] = Head(work)
      BY <2>3, <1>1 DEF Take
    <3>3. \A x \in Workers : x # w => worker'[x] = worker[x] /\ job'[x] = job[x]
      BY <2>3, <1>1 DEF Take
    <3>4. worker[w] # "execute" /\ UNCHANGED outcome
      BY <2>3 DEF Take
    <3> QED
      BY <2>2, <3>1, <3>2, <3>3, <3>4, <1>2 DEF PlaceOK, Unfinished, Executing
  <2>4. CASE Execute(w)
    <3>1. job[w] \in Tasks
      BY <2>4, <1>1 DEF Execute, JobOK, Busy
    <3>2. outcome'[job[w]] # "none" /\ \A u \in Tasks : u # job[w] => outcome'[u] = outcome[u]
      BY <2>4, <3>1, <1>1 DEF Execute
    <3>3. UNCHANGED <<work, job>> /\ \A x \in Workers : x # w => worker'[x] = worker[x]
      BY <2>4, <1>1 DEF Execute
    <3> QED
      BY <2>2, <3>1, <3>2, <3>3, <1>2 DEF PlaceOK, Unfinished, Executing
  <2>5. CASE Release(w) \/ Exit(w)
    <3>1. /\ UNCHANGED <<work, outcome>> /\ worker[w] # "execute"
          /\ \A x \in Workers : x # w => worker'[x] = worker[x] /\ job'[x] = job[x]
      BY <2>5, <1>1 DEF Release, Exit
    <3> QED
      BY <2>2, <3>1, <1>2 DEF PlaceOK, Unfinished, Executing
  <2> QED
    BY <2>1, <2>3, <2>4, <2>5 DEF Pool
<1>8. CASE Finished \/ UNCHANGED vars
  BY <1>2, <1>3, <1>8 DEF Finished, vars, callVars, queueVars, mainVars, poolVars
<1> QED
  BY <1>4, <1>5, <1>6, <1>7, <1>8 DEF Next

\* join() and the destructor are barriers: afterwards nothing is executing,
\* nothing will, and what was not executed is in the queue.
THEOREM JoinIsBarrier == Spec => []DrainedAtJoin
<1>1. Init => EndOK /\ PlaceOK
  BY DEF Init, EndOK, PlaceOK, Unfinished
<1>2. PermitInv /\ EndOK /\ PlaceOK => DrainedAtJoin
  <2> SUFFICES ASSUME PermitInv, EndOK, PlaceOK, owner \in {"joined", "destroyed"}
               PROVE  /\ work = <<>>
                      /\ held = NoTask
                      /\ \A w \in Workers : worker[w] = "exited"
                      /\ Unfinished \subseteq Elements(queue)
    BY DEF DrainedAtJoin
  <2>1. pc \in {"unstarted", "exited"} /\ \A w \in Workers : worker[w] = "exited"
    BY DEF EndOK
  <2>2. held = NoTask
    BY <2>1 DEF PermitInv, HeldOK
  <2>3. work = <<>>
    BY <2>1, CoordinatorAssumption DEF EndOK, CoordinatorAssumption
  <2>4. NoTask \notin Unfinished /\ Elements(work) = {}
    BY <2>3, CoordinatorAssumption DEF CoordinatorAssumption, Unfinished, Elements
  <2> QED
    BY <2>1, <2>2, <2>3, <2>4 DEF PlaceOK, Executing
<1> QED
  BY PermitInvInit, PermitInvStep, EndStep, PlaceStep, <1>1, <1>2, PTL DEF Spec

-----------------------------------------------------------------------------
(* How far the callers run ahead of the workers.                           *)

LEMMA ElementsBound ==
  ASSUME NEW S, NEW s \in Seq(S)
  PROVE  IsFiniteSet(Elements(s)) /\ Cardinality(Elements(s)) <= Len(s)
<1>1. Len(s) \in Nat /\ DOMAIN s = 1..Len(s) /\ s \in [1..Len(s) -> S]
  BY LenProperties
<1>2. s \in Surjection(1..Len(s), Elements(s))
  BY <1>1 DEF Surjection, Elements
<1>3. IsFiniteSet(1..Len(s)) /\ Cardinality(1..Len(s)) = Len(s)
  BY <1>1, FS_Interval, SMTT(30)
<1> QED
  BY <1>2, <1>3, FS_Surjection

LEMMA JobsBound ==
  IsFiniteSet({job[w] : w \in Busy}) /\ Cardinality({job[w] : w \in Busy}) <= Cardinality(Busy)
<1> DEFINE J == {job[w] : w \in Busy}
           f == [w \in Busy |-> job[w]]
<1>1. f \in Surjection(Busy, J)
  BY DEF Surjection
<1> QED
  BY <1>1, BusyFinite, FS_Surjection

LEMMA UnionBound ==
  ASSUME NEW A, NEW B, IsFiniteSet(A), IsFiniteSet(B),
         NEW m \in Nat, NEW n \in Nat, Cardinality(A) <= m, Cardinality(B) <= n
  PROVE  IsFiniteSet(A \cup B) /\ Cardinality(A \cup B) <= m + n
<1>1. IsFiniteSet(A \cap B) /\ IsFiniteSet(A \cup B)
  BY FS_Subset, FS_Union
<1>2. /\ Cardinality(A) \in Nat /\ Cardinality(B) \in Nat
      /\ Cardinality(A \cap B) \in Nat /\ Cardinality(A \cup B) \in Nat
  BY <1>1, FS_CardinalityType
<1>3. Cardinality(A \cup B) = Cardinality(A) + Cardinality(B) - Cardinality(A \cap B)
  BY FS_Union
<1> QED
  BY <1>1, <1>2, <1>3

\* With any number of workers and callers, at most 2 * QueueSize + 1 accepted
\* tasks are unfinished at a time.
THEOREM BacklogIsBounded == Spec => []BoundedBacklog
<1>1. Init => PlaceOK
  BY DEF Init, PlaceOK, Unfinished
<1>2. PermitInv /\ PlaceOK => BoundedBacklog
  <2> SUFFICES ASSUME PermitInv, PlaceOK PROVE Cardinality(Unfinished) <= 2 * QueueSize + 1
    BY DEF BoundedBacklog
  <2> DEFINE inHand == IF pc \in {"acquire", "submit"} THEN {held} ELSE {}
             inHandLen == IF pc \in {"acquire", "submit"} THEN 1 ELSE 0
             jobs == {job[w] : w \in Busy}
             all == (Elements(queue) \cup inHand) \cup (Elements(work) \cup jobs)
  <2>1. /\ queue \in Seq(Tasks) /\ work \in Seq(Tasks)
        /\ Len(queue) \in Nat /\ Len(queue) <= QueueSize /\ Len(work) \in Nat
        /\ QueueSize \in Nat /\ semaphore \in Nat /\ NoTask \notin Tasks
    BY CoordinatorAssumption, LenProperties DEF PermitInv, TypeOK, CoordinatorAssumption
  <2>2. Unfinished \subseteq all
    BY <2>1 DEF PlaceOK, Executing, Busy, Unfinished, PermitInv, HeldOK
  <2>3. IsFiniteSet(inHand) /\ Cardinality(inHand) <= inHandLen /\ inHandLen \in Nat
    <3>1. IsFiniteSet({held}) /\ Cardinality({held}) = 1
      BY FS_Singleton
    <3>2. IsFiniteSet({}) /\ Cardinality({}) = 0
      BY FS_EmptySet
    <3>3. CASE pc \in {"acquire", "submit"}
      <4>1. inHand = {held} /\ inHandLen = 1
        BY <3>3
      <4> HIDE DEF inHand, inHandLen
      <4> QED
        BY <3>1, <4>1
    <3>4. CASE pc \notin {"acquire", "submit"}
      <4>1. inHand = {} /\ inHandLen = 0
        BY <3>4
      <4> HIDE DEF inHand, inHandLen
      <4> QED
        BY <3>2, <4>1
    <3> QED
      BY <3>3, <3>4
  <2>4. IsFiniteSet(Elements(queue)) /\ Cardinality(Elements(queue)) <= Len(queue)
    BY <2>1, ElementsBound
  <2>5. IsFiniteSet(Elements(work)) /\ Cardinality(Elements(work)) <= Len(work)
    BY <2>1, ElementsBound
  <2>6. IsFiniteSet(jobs) /\ Cardinality(jobs) <= Cardinality(Busy)
    BY JobsBound
  <2> HIDE DEF inHand, inHandLen, jobs
  <2>7. /\ IsFiniteSet(Elements(queue) \cup inHand)
        /\ Cardinality(Elements(queue) \cup inHand) <= Len(queue) + inHandLen
    BY <2>1, <2>3, <2>4, UnionBound
  <2>8. /\ IsFiniteSet(Elements(work) \cup jobs)
        /\ Cardinality(Elements(work) \cup jobs) <= Len(work) + Cardinality(Busy)
    BY <2>1, <2>5, <2>6, BusyFinite, UnionBound
  <2>9. /\ IsFiniteSet(all)
        /\ Cardinality(all) <= (Len(queue) + inHandLen) + (Len(work) + Cardinality(Busy))
    <3>1. Len(queue) + inHandLen \in Nat /\ Len(work) + Cardinality(Busy) \in Nat
      BY <2>1, <2>3, BusyFinite
    <3> QED
      BY <2>7, <2>8, <3>1, UnionBound
  <2>10. inHandLen + Len(work) + Cardinality(Busy) <= QueueSize + 1
    <3>1. semaphore + ((IF pc = "submit" THEN 1 ELSE 0) + Len(work) + Cardinality(Busy)) = QueueSize
      BY DEF PermitInv, PermitConservation, Permits
    <3>2. inHandLen <= (IF pc = "submit" THEN 1 ELSE 0) + 1
      BY DEF inHandLen
    <3> QED
      BY <3>1, <3>2, <2>1, <2>3, BusyFinite
  <2>11. Cardinality(Unfinished) <= Cardinality(all) /\ Cardinality(all) \in Nat /\ Cardinality(Unfinished) \in Nat
    BY <2>2, <2>9, FS_Subset, FS_CardinalityType
  <2> QED
    BY <2>1, <2>3, <2>9, <2>10, <2>11, BusyFinite
<1> QED
  BY PermitInvInit, PermitInvStep, PlaceStep, <1>1, <1>2, PTL DEF Spec

-----------------------------------------------------------------------------
(* The coordinator implements TaskService.                                 *)

\* The queue takes a task once; what has an outcome or is in a pool thread
\* has begun; a task is in one pool thread at most.
OnceOK ==
    /\ \A i, j \in 1..Len(order) : order[i] = order[j] => i = j
    /\ \A t \in Tasks : caller[t] = "accepted" <=> t \in Elements(order)
    /\ \A w \in Workers : job[w] # NoTask => job[w] \in Elements(taken)
    /\ \A v, w \in Workers : job[v] # NoTask /\ job[v] = job[w] => v = w
    /\ \A w \in Workers : worker[w] = "execute" => outcome[job[w]] = "none"
    /\ \A t \in Tasks : outcome[t] # "none" => t \in Elements(taken)

LEMMA PrefixElements ==
  ASSUME NEW S, NEW s \in Seq(S), NEW r \in Seq(S)
  PROVE  /\ \A i \in 1..Len(s) : i \in 1..Len(s \o r) /\ (s \o r)[i] = s[i]
         /\ Elements(s) \subseteq Elements(s \o r)
<1>1. /\ Len(s) \in Nat /\ Len(r) \in Nat /\ Len(s \o r) = Len(s) + Len(r)
      /\ s \o r \in Seq(S)
      /\ \A i \in 1..Len(s) + Len(r) : (s \o r)[i] = IF i <= Len(s) THEN s[i] ELSE r[i - Len(s)]
  BY ConcatProperties, LenProperties
<1>2. \A i \in 1..Len(s) : i \in 1..Len(s) + Len(r) /\ i <= Len(s)
  BY <1>1
<1>3. DOMAIN s = 1..Len(s) /\ DOMAIN (s \o r) = 1..Len(s \o r)
  BY <1>1, LenProperties
<1> QED
  BY <1>1, <1>2, <1>3 DEF Elements

\* The head of the line has not begun, by its place in the order.
LEMMA HeadNotBegun ==
  ASSUME PermitInv, ChainOK, OnceOK, Line # <<>>
  PROVE  Head(Line) \in Elements(order) /\ Head(Line) \notin Elements(taken)
<1> DEFINE n == Len(taken)
           h == Head(Line)
<1>1. /\ taken \in Seq(Tasks) /\ Line \in Seq(Tasks) /\ order \in Seq(Tasks)
      /\ n \in Nat /\ Len(Line) \in Nat /\ Len(Line) > 0 /\ h = Line[1]
  BY LineType, LenProperties, EmptySeq, HeadTailProperties
<1>2. /\ Len(order) = n + Len(Line)
      /\ \A i \in 1..n + Len(Line) : order[i] = IF i <= n THEN taken[i] ELSE Line[i - n]
  BY <1>1, ConcatProperties DEF ChainOK
<1>3. n + 1 \in 1..n + Len(Line) /\ ~(n + 1 <= n) /\ (n + 1) - n = 1
  BY <1>1
<1>4. order[n + 1] = h /\ n + 1 \in 1..Len(order)
  BY <1>1, <1>2, <1>3
<1>5. ASSUME NEW i \in 1..n PROVE taken[i] # h
  <2>1. i \in 1..n + Len(Line) /\ i <= n /\ i # n + 1
    BY <1>1
  <2> QED
    BY <1>2, <1>4, <2>1 DEF OnceOK
<1>6. DOMAIN taken = 1..n /\ DOMAIN order = 1..Len(order)
  BY <1>1, LenProperties
<1> QED
  BY <1>4, <1>5, <1>6 DEF Elements

LEMMA StartedInOrder ==
  ASSUME PermitInv, ChainOK PROVE Elements(taken) \subseteq Elements(order)
  BY LineType, PrefixElements DEF ChainOK

LEMMA OnceStep == PermitInv /\ ChainOK /\ OnceOK /\ [Next]_vars => OnceOK'
<1> SUFFICES ASSUME PermitInv, ChainOK, OnceOK, [Next]_vars PROVE OnceOK'
  OBVIOUS
<1>1. /\ order \in Seq(Tasks) /\ taken \in Seq(Tasks) /\ Len(order) \in Nat
      /\ caller \in [Tasks -> CallerStates] /\ outcome \in [Tasks -> Outcomes]
      /\ worker \in [Workers -> WorkerStates] /\ job \in [Workers -> Tasks \cup {NoTask}]
      /\ JobOK /\ NoTask \notin Tasks
  BY CoordinatorAssumption, LenProperties DEF PermitInv, TypeOK, CoordinatorAssumption
<1>2. ASSUME UNCHANGED <<order, taken, worker, job, outcome>>,
             \A t \in Tasks : caller'[t] = "accepted" <=> caller[t] = "accepted"
      PROVE  OnceOK'
  BY <1>2 DEF OnceOK
<1>3. CASE \E t \in Tasks : Call(t)
  <2>1. PICK t \in Tasks : Call(t)
    BY <1>3
  <2>2. CASE Accept(t)
    <3>1. /\ Len(order') = Len(order) + 1 /\ order'[Len(order) + 1] = t
          /\ \A i \in 1..Len(order) : order'[i] = order[i]
      BY <2>2, <1>1 DEF Accept
    <3>2. Elements(order') = Elements(order) \cup {t}
      BY <2>2, <1>1, AppendElements DEF Accept
    <3>3. t \notin Elements(order)
      BY <2>2 DEF Accept, OnceOK
    <3>4. \A i \in 1..Len(order) : order[i] # t
      BY <3>3, <1>1 DEF Elements
    <3>5. \A i \in 1..Len(order') : i = Len(order) + 1 \/ i \in 1..Len(order)
      BY <3>1, <1>1
    <3>6. \A i, j \in 1..Len(order') : order'[i] = order'[j] => i = j
      BY <3>1, <3>4, <3>5 DEF OnceOK
    <3>7. \A u \in Tasks : caller'[u] = "accepted" <=> u \in Elements(order')
      BY <2>2, <3>2, <1>1 DEF Accept, OnceOK
    <3> QED
      BY <2>2, <3>6, <3>7 DEF Accept, poolVars, OnceOK
  <2>3. CASE Wait(t) \/ Drop(t) \/ Refuse(t)
    BY <1>1, <1>2, <2>3 DEF Wait, Drop, Refuse, queueVars, poolVars
  <2> QED
    BY <2>1, <2>2, <2>3 DEF Call
<1>4. CASE Owner
  BY <1>2, <1>4 DEF Owner, Start, Stop, Join, Destroy, DestroyPool, Destroyed, queueVars, poolVars
<1>5. CASE Main
  BY <1>2, <1>5 DEF Main, TestEmpty, TestClosed, Pull, PullClosed, Acquire, Submit, ClosePool,
                    JoinPool, callVars, queueVars, poolVars
<1>6. CASE \E w \in Workers : Pool(w)
  <2>1. PICK w \in Workers : Pool(w)
    BY <1>6
  <2>2. UNCHANGED <<order, caller>>
    BY <2>1 DEF Pool, Take, Execute, Release, Exit, callVars, queueVars
  <2>3. CASE Take(w)
    <3>1. Head(work) \in Elements(order) /\ Head(work) \notin Elements(taken) /\ Head(work) \in Tasks
      BY <2>3, BeginsHead, HeadNotBegun, HeadTailProperties DEF Take, PermitInv, TypeOK
    <3>2. Elements(taken') = Elements(taken) \cup {Head(work)}
      BY <2>3, <3>1, <1>1, AppendElements DEF Take
    <3>3. /\ job'[w] = Head(work) /\ UNCHANGED outcome
          /\ \A v \in Workers : v # w => job'[v] = job[v] /\ worker'[v] = worker[v]
      BY <2>3, <1>1 DEF Take
    <3>4. outcome[Head(work)] = "none"
      BY <3>1 DEF OnceOK
    <3> QED
      BY <2>2, <3>1, <3>2, <3>3, <3>4 DEF OnceOK
  <2>4. CASE Execute(w)
    <3>1. job[w] \in Tasks /\ job[w] \in Elements(taken)
      BY <2>4, <1>1 DEF Execute, JobOK, Busy, OnceOK
    <3>2. /\ \A u \in Tasks : u # job[w] => outcome'[u] = outcome[u]
          /\ UNCHANGED <<job, taken>>
          /\ worker'[w] # "execute"
          /\ \A v \in Workers : v # w => worker'[v] = worker[v]
      BY <2>4, <1>1 DEF Execute
    <3>3. \A v \in Workers : worker'[v] = "execute" => job[v] \in Tasks /\ job[v] # job[w]
      BY <3>1, <3>2, <1>1 DEF OnceOK, JobOK, Busy
    <3> QED
      BY <2>2, <3>1, <3>2, <3>3 DEF OnceOK
  <2>5. CASE Release(w) \/ Exit(w)
    <3>1. /\ UNCHANGED <<taken, outcome>>
          /\ \A v \in Workers : v # w => job'[v] = job[v] /\ worker'[v] = worker[v]
          /\ job'[w] = NoTask /\ worker'[w] # "execute"
      BY <2>5, <1>1 DEF Release, Exit, JobOK, Busy
    <3> QED
      BY <2>2, <3>1 DEF OnceOK
  <2> QED
    BY <2>1, <2>3, <2>4, <2>5 DEF Pool
<1>7. CASE Finished \/ UNCHANGED vars
  BY <1>2, <1>7 DEF Finished, vars, callVars, queueVars, poolVars
<1> QED
  BY <1>3, <1>4, <1>5, <1>6, <1>7 DEF Next

\* The state function that stands for TaskService's variable phase.
PhaseMap == [t \in Tasks |-> Phase(t)]

Over == pc = "exited" \/ owner = "destroyed"

LEMMA PhaseUnchanged ==
  ASSUME UNCHANGED <<outcome, worker, job>>,
         \A t \in Tasks : \A c \in {"accepted", "dropped", "refused"} :
            caller'[t] = c <=> caller[t] = c
  PROVE  UNCHANGED PhaseMap
  BY DEF PhaseMap, Phase, Executing

LEMMA PhaseChange ==
  ASSUME NEW t \in Tasks, NEW new, Phase(t)' = new,
         \A u \in Tasks : u # t => Phase(u)' = Phase(u)
  PROVE  PhaseMap' = [PhaseMap EXCEPT ![t] = new]
  BY DEF PhaseMap

\* No more tasks run than there are busy threads, and an idle thread is not busy.
LEMMA RunningBound ==
  ASSUME PermitInv, NEW w \in Workers, w \notin Busy
  PROVE  Cardinality({u \in Tasks : PhaseMap[u] = "executing"}) < Cardinality(Workers)
<1> DEFINE R == {u \in Tasks : PhaseMap[u] = "executing"}
           J == {job[v] : v \in Busy}
<1>1. R \subseteq J
  BY DEF PhaseMap, Phase, Executing, Busy, PermitInv, TypeOK, Outcomes
<1>2. IsFiniteSet(J) /\ Cardinality(J) <= Cardinality(Busy)
  BY JobsBound
<1>3. Busy \subseteq Workers \ {w}
  BY DEF Busy
<1>4. IsFiniteSet(Workers) /\ IsFiniteSet(Workers \ {w}) /\ Cardinality(Workers \ {w}) = Cardinality(Workers) - 1
  BY CoordinatorAssumption, FS_RemoveElement DEF CoordinatorAssumption
<1>5. Cardinality(Busy) <= Cardinality(Workers \ {w})
  BY <1>3, <1>4, FS_Subset
<1>6. IsFiniteSet(R) /\ Cardinality(R) <= Cardinality(J)
  BY <1>1, <1>2, FS_Subset
<1> HIDE DEF R, J
<1>7. /\ Cardinality(R) \in Nat /\ Cardinality(J) \in Nat /\ Cardinality(Busy) \in Nat
      /\ Cardinality(Workers) \in Nat
  BY <1>2, <1>4, <1>6, BusyFinite, FS_CardinalityType
<1>8. Cardinality(R) < Cardinality(Workers)
  BY <1>2, <1>4, <1>5, <1>6, <1>7
<1> QED
  BY <1>8 DEF R

LEMMA SameCardinality == \A S : Service!Cardinality(S) = Cardinality(S)
  BY DEF Service!Cardinality, Cardinality

LEMMA ServiceStep ==
  PermitInv /\ ChainOK /\ OnceOK /\ EndOK /\ WindowOK /\ [Next]_vars
    => [Service!ServiceNext]_(Service!serviceVars)
<1> SUFFICES ASSUME PermitInv, ChainOK, OnceOK, EndOK, WindowOK, [Next]_vars
             PROVE  \/ Service!ServiceNext
                    \/ UNCHANGED <<PhaseMap, Line, closed, Over>>
  BY DEF Service!serviceVars, PhaseMap, Over
<1>1. /\ caller \in [Tasks -> CallerStates] /\ outcome \in [Tasks -> Outcomes]
      /\ worker \in [Workers -> WorkerStates] /\ job \in [Workers -> Tasks \cup {NoTask}]
      /\ closed \in BOOLEAN /\ JobOK /\ NoTask \notin Tasks /\ Workers # {}
  BY CoordinatorAssumption DEF PermitInv, TypeOK, CoordinatorAssumption
<1>2. \A t \in Tasks : caller[t] # "accepted" => outcome[t] = "none" /\ ~Executing(t)
  BY <1>1, StartedInOrder DEF OnceOK, Executing, JobOK, Busy
<1>3. CASE \E t \in Tasks : Call(t)
  <2>1. PICK t \in Tasks : Call(t)
    BY <1>3
  <2>2. UNCHANGED <<outcome, worker, job, closed, pc, owner>>
    BY <2>1 DEF Call, Accept, Wait, Drop, Refuse, queueVars, mainVars, poolVars
  <2>3. \A u \in Tasks : Executing(u)' = Executing(u)
    BY <2>2 DEF Executing
  <2>4. UNCHANGED Over
    BY <2>2 DEF Over
  <2>5. CASE Accept(t)
    <3>1. caller[t] \notin {"accepted", "dropped", "refused"} /\ ~closed
      BY <2>5 DEF Accept
    <3>2. Phase(t) = "new" /\ Phase(t)' = "accepted"
      BY <2>2, <2>3, <2>5, <3>1, <1>1, <1>2 DEF Accept, Phase
    <3>3. \A u \in Tasks : u # t => Phase(u)' = Phase(u)
      BY <2>2, <2>3, <2>5, <1>1 DEF Accept, Phase
    <3>4. PhaseMap' = [PhaseMap EXCEPT ![t] = "accepted"] /\ PhaseMap[t] = "new"
      BY <3>2, <3>3, PhaseChange DEF PhaseMap
    <3>5. Line' = Append(Line, t)
      BY <2>5, AcceptsLast
    <3>6. Service!AcceptTask(t)
      BY <2>2, <2>4, <3>1, <3>4, <3>5 DEF Service!AcceptTask, Service!Become, PhaseMap, Over
    <3> QED
      BY <3>6 DEF Service!ServiceNext
  <2>6. CASE Wait(t)
    <3>1. UNCHANGED PhaseMap
      BY <2>2, <2>6, <1>1, PhaseUnchanged DEF Wait
    <3>2. UNCHANGED Line
      BY <2>6, LineKept DEF Wait, queueVars, poolVars
    <3> QED
      BY <2>2, <2>4, <3>1, <3>2
  <2>7. CASE Drop(t) \/ Refuse(t)
    <3>1. caller[t] \notin {"accepted", "dropped", "refused"} /\ closed
      BY <2>7 DEF Drop, Refuse
    <3>2. Phase(t) = "new" /\ Phase(t)' = "rejected"
      BY <2>2, <2>3, <2>7, <3>1, <1>1, <1>2 DEF Drop, Refuse, Phase
    <3>3. \A u \in Tasks : u # t => Phase(u)' = Phase(u)
      BY <2>2, <2>3, <2>7, <1>1 DEF Drop, Refuse, Phase
    <3>4. PhaseMap' = [PhaseMap EXCEPT ![t] = "rejected"] /\ PhaseMap[t] = "new"
      BY <3>2, <3>3, PhaseChange DEF PhaseMap
    <3>5. UNCHANGED Line
      BY <2>7, LineKept DEF Drop, Refuse, queueVars, poolVars
    <3>6. Service!RejectTask(t)
      BY <2>2, <2>4, <3>1, <3>4, <3>5 DEF Service!RejectTask, Service!Become, PhaseMap, Over
    <3> QED
      BY <3>6 DEF Service!ServiceNext
  <2> QED
    BY <2>1, <2>5, <2>6, <2>7 DEF Call
<1>4. CASE Owner
  <2>1. UNCHANGED <<PhaseMap, Line>>
    BY <1>4, PhaseUnchanged, LineKept
    DEF Owner, Start, Stop, Join, Destroy, DestroyPool, Destroyed, queueVars, poolVars
  <2>2. CASE Start \/ Join \/ DestroyPool
    BY <2>1, <2>2 DEF Start, Join, DestroyPool, queueVars, mainVars, Over, PermitInv, StartOK
  <2>3. CASE Stop \/ Destroy
    <3>1. closed' = TRUE /\ UNCHANGED Over
      BY <2>3 DEF Stop, Destroy, Alive, mainVars, Over
    <3>2. CASE closed
      BY <2>1, <3>1, <3>2
    <3>3. CASE ~closed
      <4>1. Service!StopService
        BY <2>1, <3>1, <3>3 DEF Service!StopService, PhaseMap, Over
      <4> QED
        BY <4>1 DEF Service!ServiceNext
    <3> QED
      BY <3>2, <3>3
  <2>4. CASE Destroyed
    <3>1. closed /\ UNCHANGED closed /\ Over'
      BY <2>4 DEF Destroyed, EndOK, queueVars, Over
    <3>2. {t \in Tasks : PhaseMap[t] = "executing"} = {}
      BY <2>4, <1>1 DEF Destroyed, PhaseMap, Phase, Executing, Outcomes
    <3>3. CASE Over
      BY <2>1, <3>1, <3>3
    <3>4. CASE ~Over
      <4>1. Service!JoinService
        BY <2>1, <3>1, <3>2, <3>4 DEF Service!JoinService, Service!Running, PhaseMap, Over
      <4> QED
        BY <4>1 DEF Service!ServiceNext
    <3> QED
      BY <3>3, <3>4
  <2> QED
    BY <1>4, <2>2, <2>3, <2>4 DEF Owner
<1>5. CASE Main
  <2>1. UNCHANGED <<PhaseMap, Line>>
    BY <1>5, PhaseUnchanged, LineKept
    DEF Main, TestEmpty, TestClosed, Pull, PullClosed, Acquire, Submit, ClosePool, JoinPool,
        callVars, queueVars, poolVars
  <2>2. CASE JoinPool
    <3>1. closed /\ UNCHANGED closed /\ Over'
      BY <2>2 DEF JoinPool, WindowOK, queueVars, Over
    <3>2. ~Over
      BY <2>2 DEF JoinPool, EndOK, Over
    <3>3. {t \in Tasks : PhaseMap[t] = "executing"} = {}
      BY <2>2, <1>1 DEF JoinPool, PhaseMap, Phase, Executing, Outcomes
    <3>4. Service!JoinService
      BY <2>1, <3>1, <3>2, <3>3 DEF Service!JoinService, Service!Running, PhaseMap, Over
    <3> QED
      BY <3>4 DEF Service!ServiceNext
  <2>3. CASE ~JoinPool
    <3>1. UNCHANGED <<closed, Over>>
      BY <1>5, <2>3 DEF Main, TestEmpty, TestClosed, Pull, PullClosed, Acquire, Submit, ClosePool,
                        callVars, queueVars, Over
    <3> QED
      BY <2>1, <3>1
  <2> QED
    BY <2>2, <2>3
<1>6. CASE \E w \in Workers : Pool(w)
  <2>1. PICK w \in Workers : Pool(w)
    BY <1>6
  <2>2. UNCHANGED <<caller, closed, pc, owner>> /\ UNCHANGED Over
    BY <2>1 DEF Pool, Take, Execute, Release, Exit, callVars, queueVars, mainVars, Over
  <2>3. CASE Take(w)
    <3>0. PICK t \in Tasks : t = Head(work)
      BY <2>3, HeadTailProperties DEF Take, PermitInv, TypeOK
    <3>1. t \in Elements(order) /\ t \notin Elements(taken)
      BY <2>3, <3>0, BeginsHead, HeadNotBegun
    <3>2. caller[t] = "accepted" /\ outcome[t] = "none" /\ ~Executing(t)
      BY <3>1, <1>1 DEF OnceOK, Executing
    <3>3. /\ job'[w] = t /\ worker'[w] = "execute" /\ UNCHANGED outcome /\ worker[w] # "execute"
          /\ \A v \in Workers : v # w => job'[v] = job[v] /\ worker'[v] = worker[v]
      BY <2>3, <3>0, <1>1 DEF Take
    <3>4. Phase(t) = "accepted" /\ Phase(t)' = "executing"
      BY <2>2, <3>2, <3>3 DEF Phase, Executing
    <3>5. \A u \in Tasks : u # t => Phase(u)' = Phase(u)
      BY <2>2, <3>3 DEF Phase, Executing
    <3>6. PhaseMap' = [PhaseMap EXCEPT ![t] = "executing"] /\ PhaseMap[t] = "accepted"
      BY <3>1, <3>4, <3>5, PhaseChange DEF PhaseMap
    <3>7. ~Over
      BY <2>3 DEF Take, EndOK, Over
    <3>8. Line # <<>> /\ t = Head(Line) /\ Line' = Tail(Line)
      BY <2>3, <3>0, BeginsHead
    <3>9. Cardinality({u \in Tasks : PhaseMap[u] = "executing"}) < Cardinality(Workers)
      BY <2>3, RunningBound DEF Take, Busy
    <3>10. Cardinality(Service!Running) < Cardinality(Workers)
      BY <3>9 DEF Service!Running, PhaseMap
    <3>11. Service!Become(t, "accepted", "executing")
      BY <3>6 DEF Service!Become, PhaseMap
    <3>12. UNCHANGED <<~closed, pc = "exited" \/ owner = "destroyed">>
      BY <2>2
    <3>13. Service!TakeTask(t)
      <4> HIDE DEF Line, PhaseMap
      <4> QED
        BY <3>7, <3>8, <3>10, <3>11, <3>12, SameCardinality DEF Service!TakeTask, Over
    <3> QED
      BY <3>13 DEF Service!ServiceNext
  <2>4. CASE Execute(w)
    <3>0. PICK t \in Tasks : t = job[w]
      BY <2>4, <1>1 DEF Execute, JobOK, Busy
    <3>1. outcome[t] = "none" /\ Executing(t)
      BY <2>4, <3>0 DEF Execute, OnceOK, Executing
    <3>2. PICK result \in {"returned", "threw"} : outcome' = [outcome EXCEPT ![t] = result]
      BY <2>4, <3>0 DEF Execute
    <3>3. /\ UNCHANGED job
          /\ \A v \in Workers : v # w => worker'[v] = worker[v]
          /\ worker'[w] # "execute"
      BY <2>4, <1>1 DEF Execute
    <3>4. Phase(t) = "executing" /\ Phase(t)' = result
      BY <3>1, <3>2, <1>1 DEF Phase
    <3>5. \A u \in Tasks : u # t => Phase(u)' = Phase(u)
      BY <2>2, <3>0, <3>2, <3>3, <1>1 DEF Phase, Executing
    <3>6. PhaseMap' = [PhaseMap EXCEPT ![t] = result] /\ PhaseMap[t] = "executing"
      BY <3>1, <3>4, <3>5, PhaseChange DEF PhaseMap
    <3>7. UNCHANGED Line
      BY <2>4, LineKept DEF Execute, queueVars
    <3>8. Service!EndTask(t, result)
      BY <2>2, <3>6, <3>7 DEF Service!EndTask, Service!Become, PhaseMap, Over
    <3> QED
      BY <3>2, <3>8 DEF Service!ServiceNext
  <2>5. CASE Release(w) \/ Exit(w)
    <3>1. /\ UNCHANGED outcome /\ worker[w] # "execute" /\ worker'[w] # "execute"
          /\ \A v \in Workers : v # w => job'[v] = job[v] /\ worker'[v] = worker[v]
      BY <2>5, <1>1 DEF Release, Exit
    <3>2. UNCHANGED PhaseMap
      BY <2>2, <3>1 DEF PhaseMap, Phase, Executing
    <3>3. UNCHANGED Line
      BY <2>5, LineKept DEF Release, Exit, queueVars
    <3> QED
      BY <2>2, <3>2, <3>3
  <2> QED
    BY <2>1, <2>3, <2>4, <2>5 DEF Pool
<1>7. CASE Finished \/ UNCHANGED vars
  <2>1. UNCHANGED <<outcome, worker, job, caller, closed, pc, owner>>
    BY <1>7 DEF Finished, vars, callVars, queueVars, mainVars, poolVars
  <2>2. UNCHANGED Line
    BY <1>7, LineKept DEF Finished, vars, queueVars, poolVars
  <2> QED
    BY <2>1, <2>2, PhaseUnchanged DEF Over
<1> QED
  BY <1>3, <1>4, <1>5, <1>6, <1>7 DEF Next

\* Every behaviour of the coordinator, with its queue, its semaphore and its
\* pool, is a behaviour of the abstract service.
THEOREM CoordinatorImplementsService == Spec => ServiceRefined
<1>1. Init => Service!ServiceInit
  <2> SUFFICES ASSUME Init PROVE Service!ServiceInit
    OBVIOUS
  <2>1. \A t \in Tasks : Phase(t) = "new"
    BY DEF Init, Phase, Executing
  <2>2. Line = <<>>
    BY EmptySeq, ConcatEmptySeq DEF Init, Line, Hand
  <2> QED
    BY <2>1, <2>2 DEF Init, Service!ServiceInit
<1>2. Init => OnceOK /\ EndOK /\ WindowOK
  BY CoordinatorAssumption
  DEF Init, OnceOK, EndOK, WindowOK, StrandedOnlyInWindow, Elements, CoordinatorAssumption
<1> QED
  BY PermitInvInit, PermitInvStep, ChainInit, ChainStep, OnceStep, EndStep, WindowStep,
     ServiceStep, <1>1, <1>2, PTL DEF Spec, ServiceRefined, Service!ServiceSpec
=============================================================================
