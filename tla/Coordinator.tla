---------------------------- MODULE Coordinator ----------------------------
(***************************************************************************)
(* util::coordinator<Task> (src/src/library/include/util/coordinator.hpp), *)
(* the thread-pool front end that the matcher, the comparator and every    *)
(* result exporter derive from.                                            *)
(*                                                                         *)
(* Callers hand tasks to a bounded queue and block while it is full.  One  *)
(* coordinator thread pulls them, takes a permit from a counting semaphore *)
(* and submits them to a pool of worker threads; a worker gives the permit *)
(* back when the task's execute() returned or threw.  The owner starts the *)
(* coordinator thread, later closes the queue with stop() and waits for    *)
(* the coordinator thread with join(); its destructor does both again.     *)
(*                                                                         *)
(* The grain of atomicity is one call on a shared object.  In particular   *)
(* the loop condition  not empty() or not closed()  is two separate reads. *)
(***************************************************************************)
EXTENDS Integers, Sequences, FiniteSets

CONSTANTS
    Tasks,           \* the tasks that callers hand over, each by a call of its own
    Workers,         \* the threads of the pool
    QueueSize,       \* capacity of the queue and initial count of the semaphore
    NoTask,          \* "no task", what an idle thread holds
    SequentialOwner  \* TRUE: the owner calls stop() only after every queue()
                     \* call returned, as the readers of match and compare do

ASSUME CoordinatorAssumption ==
    /\ IsFiniteSet(Tasks)
    /\ IsFiniteSet(Workers)
    /\ Workers # {}
    /\ QueueSize \in Nat \ {0}
    /\ NoTask \notin Tasks
    /\ SequentialOwner \in BOOLEAN

VARIABLES
    caller,      \* caller[t]: how far the call queue(t) has come
    owner,       \* the owner's progress through start(), stop(), join() and the destructor
    queue,       \* _queue, oldest task first
    closed,      \* _queue.closed()
    pc,          \* control point of the coordinator thread in _start()
    held,        \* the local variable task of _start()
    semaphore,   \* _semaphore
    work,        \* the work queue of _thread_pool
    poolClosed,  \* _thread_pool.closed()
    worker,      \* worker[w]: control point of pool thread w
    job,         \* job[w]: the task pool thread w executes
    outcome,     \* outcome[t]: how execute(t) ended
    order,       \* history: the tasks in the order in which the queue took them
    taken,       \* history: the tasks in the order in which the pool threads took them
    late         \* history: tasks the queue took between the two reads of the loop condition

callVars  == <<caller, owner>>
queueVars == <<queue, closed, order, late>>
mainVars  == <<pc, held>>
poolVars  == <<work, poolClosed, worker, job, outcome, taken>>
vars == <<callVars, queueVars, mainVars, semaphore, poolVars>>

CallerStates == {"idle", "waiting", "accepted", "dropped", "refused"}
OwnerStates  == {"constructed", "started", "stopped", "joined",
                 "destroying", "destroying_pool", "destroyed"}
MainStates   == {"unstarted", "test_empty", "test_closed", "pull", "acquire",
                 "submit", "close_pool", "join_pool", "exited"}
WorkerStates == {"idle", "execute", "release", "exited"}
Outcomes     == {"none", "returned", "threw"}

Elements(s) == {s[i] : i \in DOMAIN s}

Init ==
    /\ caller = [t \in Tasks |-> "idle"]
    /\ owner = "constructed"
    /\ queue = <<>>
    /\ closed = FALSE
    /\ pc = "unstarted"
    /\ held = NoTask
    /\ semaphore = QueueSize
    /\ work = <<>>
    /\ poolClosed = FALSE
    /\ worker = [w \in Workers |-> "idle"]
    /\ job = [w \in Workers |-> NoTask]
    /\ outcome = [t \in Tasks |-> "none"]
    /\ order = <<>>
    /\ taken = <<>>
    /\ late = {}

-----------------------------------------------------------------------------
(* Callers: queue(task), that is _queue.wait_push_back(task).              *)

Full == Len(queue) = QueueSize

\* Nobody calls a member of an object that is being destroyed.
Alive == owner \notin {"destroying", "destroying_pool", "destroyed"}

\* Mutant: the queue has no bound.
AcceptUnbounded(t) ==
    /\ caller[t] = "idle"
    /\ ~closed
    /\ caller' = [caller EXCEPT ![t] = "accepted"]
    /\ queue' = Append(queue, t)
    /\ order' = Append(order, t)
    /\ late' = IF pc = "test_closed" THEN late \cup {t} ELSE late
    /\ UNCHANGED <<owner, closed, mainVars, semaphore, poolVars>>

\* The queue takes the task: at once, or when a blocked call finds room.
Accept(t) ==
    /\ caller[t] \in {"idle", "waiting"}
    /\ ~closed
    /\ ~Full
    /\ caller' = [caller EXCEPT ![t] = "accepted"]
    /\ queue' = Append(queue, t)
    /\ order' = Append(order, t)
    /\ late' = IF pc = "test_closed" THEN late \cup {t} ELSE late
    /\ UNCHANGED <<owner, closed, mainVars, semaphore, poolVars>>

\* The call finds the queue full and blocks.
Wait(t) ==
    /\ caller[t] = "idle"
    /\ ~closed
    /\ Full
    /\ caller' = [caller EXCEPT ![t] = "waiting"]
    /\ UNCHANGED <<owner, queueVars, mainVars, semaphore, poolVars>>

\* wait_push_back on a closed queue returns queue_op_status::closed, which
\* queue() ignores: the task is dropped without a trace.
Drop(t) ==
    /\ caller[t] = "idle"
    /\ Alive
    /\ closed
    /\ caller' = [caller EXCEPT ![t] = "dropped"]
    /\ UNCHANGED <<owner, queueVars, mainVars, semaphore, poolVars>>

\* A call that was blocked when the queue was closed throws sync_queue_is_closed.
Refuse(t) ==
    /\ caller[t] = "waiting"
    /\ closed
    /\ caller' = [caller EXCEPT ![t] = "refused"]
    /\ UNCHANGED <<owner, queueVars, mainVars, semaphore, poolVars>>

-----------------------------------------------------------------------------
(* The owner.                                                              *)

Start ==
    /\ owner = "constructed"
    /\ owner' = "started"
    /\ pc' = "test_empty"
    /\ UNCHANGED <<caller, queueVars, held, semaphore, poolVars>>

Stop ==
    /\ owner = "started"
    /\ SequentialOwner => \A t \in Tasks : caller[t] = "accepted"
    /\ owner' = "stopped"
    /\ closed' = TRUE
    /\ UNCHANGED <<caller, queue, order, late, mainVars, semaphore, poolVars>>

Join ==
    /\ owner = "stopped"
    /\ pc = "exited"
    /\ owner' = "joined"
    /\ UNCHANGED <<caller, queueVars, mainVars, semaphore, poolVars>>

\* ~coordinator(): close the queue unless it is closed, ...
Destroy ==
    /\ Alive
    /\ \A t \in Tasks : caller[t] # "waiting"
    /\ owner' = "destroying"
    /\ closed' = TRUE
    /\ UNCHANGED <<caller, queue, order, late, mainVars, semaphore, poolVars>>

\* ... join the coordinator thread, if it was ever started; then the members
\* go, the pool first: close() and join() its threads.
DestroyPool ==
    /\ owner = "destroying"
    /\ pc \in {"unstarted", "exited"}
    /\ owner' = "destroying_pool"
    /\ poolClosed' = TRUE
    /\ UNCHANGED <<caller, queueVars, mainVars, semaphore, work, worker, job, outcome, taken>>

Destroyed ==
    /\ owner = "destroying_pool"
    /\ \A w \in Workers : worker[w] = "exited"
    /\ owner' = "destroyed"
    /\ UNCHANGED <<caller, queueVars, mainVars, semaphore, poolVars>>

-----------------------------------------------------------------------------
(* The coordinator thread: _start().                                       *)

\* Mutant: the loop runs  while not closed  and leaves the queue as it is.
TestClosedOnly ==
    /\ pc = "test_empty"
    /\ pc' = "test_closed"
    /\ late' = {}
    /\ UNCHANGED <<callVars, queue, closed, order, held, semaphore, poolVars>>

\* First half of the loop condition: not _queue.empty().
TestEmpty ==
    /\ pc = "test_empty"
    /\ pc' = IF queue # <<>> THEN "pull" ELSE "test_closed"
    /\ late' = {}
    /\ UNCHANGED <<callVars, queue, closed, order, held, semaphore, poolVars>>

\* Second half: not _queue.closed().
TestClosed ==
    /\ pc = "test_closed"
    /\ pc' = IF closed THEN "close_pool" ELSE "pull"
    /\ UNCHANGED <<callVars, queueVars, held, semaphore, poolVars>>

\* Mutant: the task is read but not removed.
PullCopy ==
    /\ pc = "pull"
    /\ queue # <<>>
    /\ held' = Head(queue)
    /\ pc' = "acquire"
    /\ UNCHANGED <<callVars, queueVars, semaphore, poolVars>>

\* wait_pull_front gets the oldest task, also from a closed queue.
Pull ==
    /\ pc = "pull"
    /\ queue # <<>>
    /\ held' = Head(queue)
    /\ queue' = Tail(queue)
    /\ pc' = "acquire"
    /\ UNCHANGED <<callVars, closed, order, late, semaphore, poolVars>>

\* Mutant: the pull is tried again without a look at the loop condition.
PullClosedAgain ==
    /\ pc = "pull"
    /\ queue = <<>>
    /\ closed
    /\ UNCHANGED vars

\* wait_pull_front returns closed: nothing left and nothing will come.
PullClosed ==
    /\ pc = "pull"
    /\ queue = <<>>
    /\ closed
    /\ pc' = "test_empty"
    /\ UNCHANGED <<callVars, queueVars, held, semaphore, poolVars>>

Acquire ==
    /\ pc = "acquire"
    /\ semaphore > 0
    /\ semaphore' = semaphore - 1
    /\ pc' = "submit"
    /\ UNCHANGED <<callVars, queueVars, held, poolVars>>

Submit ==
    /\ pc = "submit"
    /\ work' = Append(work, held)
    /\ held' = NoTask
    /\ pc' = "test_empty"
    /\ UNCHANGED <<callVars, queueVars, semaphore, poolClosed, worker, job, outcome, taken>>

ClosePool ==
    /\ pc = "close_pool"
    /\ poolClosed' = TRUE
    /\ pc' = "join_pool"
    /\ UNCHANGED <<callVars, queueVars, held, semaphore, work, worker, job, outcome, taken>>

\* Mutant: the pool is closed but not joined.
NoJoinPool ==
    /\ pc = "join_pool"
    /\ pc' = "exited"
    /\ UNCHANGED <<callVars, queueVars, held, semaphore, poolVars>>

JoinPool ==
    /\ pc = "join_pool"
    /\ \A w \in Workers : worker[w] = "exited"
    /\ pc' = "exited"
    /\ UNCHANGED <<callVars, queueVars, held, semaphore, poolVars>>

-----------------------------------------------------------------------------
(* The pool threads.                                                       *)

\* A pool thread takes the oldest submitted task.  It calls execute() next, which no other
\* thread can tell: two threads that took one task each may begin in either order.
Take(w) ==
    /\ worker[w] = "idle"
    /\ work # <<>>
    /\ job' = [job EXCEPT ![w] = Head(work)]
    /\ work' = Tail(work)
    /\ taken' = Append(taken, Head(work))
    /\ worker' = [worker EXCEPT ![w] = "execute"]
    /\ UNCHANGED <<callVars, queueVars, mainVars, semaphore, poolClosed, outcome>>

\* execute(task) returns, or throws into the catch (...) of the lambda.
Execute(w) ==
    /\ worker[w] = "execute"
    /\ \E result \in {"returned", "threw"} :
          outcome' = [outcome EXCEPT ![job[w]] = result]
    /\ worker' = [worker EXCEPT ![w] = "release"]
    /\ UNCHANGED <<callVars, queueVars, mainVars, semaphore, work, poolClosed, job, taken>>

\* Mutant: no release in the catch block.
ReleaseOnReturn(w) ==
    /\ worker[w] = "release"
    /\ semaphore' = IF outcome[job[w]] = "returned" THEN semaphore + 1 ELSE semaphore
    /\ job' = [job EXCEPT ![w] = NoTask]
    /\ worker' = [worker EXCEPT ![w] = "idle"]
    /\ UNCHANGED <<callVars, queueVars, mainVars, work, poolClosed, outcome, taken>>

\* _semaphore.release(), on both paths; what was thrown ends in a future
\* that nobody keeps.
Release(w) ==
    /\ worker[w] = "release"
    /\ semaphore' = semaphore + 1
    /\ job' = [job EXCEPT ![w] = NoTask]
    /\ worker' = [worker EXCEPT ![w] = "idle"]
    /\ UNCHANGED <<callVars, queueVars, mainVars, work, poolClosed, outcome, taken>>

Exit(w) ==
    /\ worker[w] = "idle"
    /\ work = <<>>
    /\ poolClosed
    /\ worker' = [worker EXCEPT ![w] = "exited"]
    /\ UNCHANGED <<callVars, queueVars, mainVars, semaphore, work, poolClosed, job, outcome, taken>>

-----------------------------------------------------------------------------
Call(t) == Accept(t) \/ Wait(t) \/ Drop(t) \/ Refuse(t)
Owner   == Start \/ Stop \/ Join \/ Destroy \/ DestroyPool \/ Destroyed
Main    == \/ TestEmpty \/ TestClosed \/ Pull \/ PullClosed
           \/ Acquire \/ Submit \/ ClosePool \/ JoinPool
Pool(w) == Take(w) \/ Execute(w) \/ Release(w) \/ Exit(w)

\* The object is gone and the program goes on: an end, not a deadlock.
Finished ==
    /\ owner = "destroyed"
    /\ UNCHANGED vars

Next ==
    \/ \E t \in Tasks : Call(t)
    \/ Owner
    \/ Main
    \/ \E w \in Workers : Pool(w)
    \/ Finished

Spec == Init /\ [][Next]_vars

\* Every thread that can run does run, and execute() ends.  Whether a caller
\* ever calls, and whether the owner ever starts, stops or destroys, is theirs
\* to decide; the members of the destructor follow each other.  Of the calls
\* that block on a full queue the condition variable wakes some one, not each.
Fairness ==
    /\ WF_vars(Main)
    /\ WF_vars(Join)
    /\ WF_vars(DestroyPool)
    /\ WF_vars(Destroyed)
    /\ \A w \in Workers : WF_vars(Pool(w))
    /\ WF_vars(\E t \in Tasks : caller[t] = "waiting" /\ Call(t))

FairSpec == Spec /\ Fairness

-----------------------------------------------------------------------------
(* Properties.                                                             *)

\* Every variable has its type; the queue never holds more than its capacity
\* and the semaphore never counts past its initial value.
TypeOK ==
    /\ caller \in [Tasks -> CallerStates]
    /\ owner \in OwnerStates
    /\ queue \in Seq(Tasks)
    /\ Len(queue) <= QueueSize
    /\ closed \in BOOLEAN
    /\ pc \in MainStates
    /\ held \in Tasks \cup {NoTask}
    /\ semaphore \in 0..QueueSize
    /\ work \in Seq(Tasks)
    /\ poolClosed \in BOOLEAN
    /\ worker \in [Workers -> WorkerStates]
    /\ job \in [Workers -> Tasks \cup {NoTask}]
    /\ outcome \in [Tasks -> Outcomes]
    /\ order \in Seq(Tasks)
    /\ taken \in Seq(Tasks)
    /\ late \subseteq Tasks

Busy == {w \in Workers : worker[w] \in {"execute", "release"}}

Permits == (IF pc = "submit" THEN 1 ELSE 0) + Len(work) + Cardinality(Busy)

\* Every permit taken from the semaphore belongs to exactly one task on its
\* way from acquire() to the end of its execute(), also when execute() throws:
\* none is lost, none is given back twice.
PermitConservation == semaphore + Permits = QueueSize

Unfinished == {t \in Tasks : caller[t] = "accepted" /\ outcome[t] = "none"}

\* The reader runs ahead of the workers by a bounded amount, whatever their
\* number: a full queue, a full pool and the task in the coordinator's hand.
BoundedBacklog == Cardinality(Unfinished) <= 2 * QueueSize + 1

\* join() is a barrier.  Once it returned, and once the object is destroyed,
\* no thread executes anything or ever will, and every accepted task was
\* executed unless it is still in the queue.
DrainedAtJoin ==
    owner \in {"joined", "destroyed"} =>
        /\ work = <<>>
        /\ held = NoTask
        /\ \A w \in Workers : worker[w] = "exited"
        /\ Unfinished \subseteq Elements(queue)

\* A task can only stay behind in the queue when it was taken between the two
\* reads of one evaluation of the loop condition, the queue having been empty
\* at the first and closed at the second.
StrandedOnlyInWindow ==
    pc \in {"close_pool", "join_pool", "exited"} => Elements(queue) \subseteq late

\* The pool threads take the tasks in the order in which queue() accepted them, with any
\* number of workers.  Nothing is said of the order in which two threads begin or end the
\* execute() of the tasks that they took.
FifoTake == taken = SubSeq(order, 1, Len(taken))

\* What a reader would expect of stop() and join(), and the callers in match
\* and compare rely on: all that was queued has been executed.
JoinMeansDrained ==
    owner = "joined" => \A t \in Tasks : caller[t] = "accepted" => outcome[t] # "none"

Executing(t) == \E w \in Workers : worker[w] = "execute" /\ job[w] = t

Phase(t) ==
    IF outcome[t] # "none" THEN outcome[t]
    ELSE IF Executing(t) THEN "executing"
    ELSE IF caller[t] = "accepted" THEN "accepted"
    ELSE IF caller[t] \in {"dropped", "refused"} THEN "rejected"
    ELSE "new"

Hand == IF held = NoTask THEN <<>> ELSE <<held>>

Line == work \o (Hand \o queue)

Service == INSTANCE TaskService WITH
    Threads <- Cardinality(Workers),
    phase <- [t \in Tasks |-> Phase(t)],
    line <- Line,
    open <- ~closed,
    over <- pc = "exited" \/ owner = "destroyed"

\* The coordinator implements the service: each accepted task is executed at
\* most once, taken in the order of acceptance, by as many threads as the pool
\* has, and never after the coordinator thread has ended.
ServiceRefined == Service!ServiceSpec

\* stop() followed by join(), and the destructor, come to an end.
OwnerReturns ==
    /\ owner = "stopped" ~> owner \in {"joined", "destroying", "destroyed"}
    /\ owner = "destroying" ~> owner = "destroyed"

\* Once the coordinator runs, an accepted task is executed or left behind in
\* the window that StrandedOnlyInWindow describes.
AcceptedIsExecuted ==
    \A t \in Tasks :
        (caller[t] = "accepted" /\ pc # "unstarted")
            ~> (outcome[t] # "none" \/ (pc = "exited" /\ t \in Elements(queue)))

\* Nobody waits forever: who stops or destroys a coordinator goes on, and what it
\* accepted is executed but for the window (coordinator.hpp, stop, join, queue).
WorkGetsDone == OwnerReturns /\ AcceptedIsExecuted
=============================================================================
