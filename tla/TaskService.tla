---------------------------- MODULE TaskService ----------------------------
(***************************************************************************)
(* What the owner of a util::coordinator may rely on, without its queue,   *)
(* its semaphore and its pool.  A task handed over while the service is    *)
(* open takes its place in a line; a task handed over later is turned      *)
(* away.  Threads take the tasks in the order of the line, each once, at   *)
(* most Threads at a time; a taken task counts as executing until it ends. *)
(* Joining is a barrier: when it returns nothing is executing and nothing  *)
(* will; what is still in the line is never taken.                         *)
(***************************************************************************)
EXTENDS Integers, Sequences, FiniteSets

CONSTANTS Tasks, Threads

VARIABLES
    phase,   \* phase[t]: where the life of task t has come to
    line,    \* the accepted tasks that nobody took, in the order of acceptance
    open,    \* FALSE once stop() was called
    over     \* TRUE once join() returned

serviceVars == <<phase, line, open, over>>

ServiceInit ==
    /\ phase = [t \in Tasks |-> "new"]
    /\ line = <<>>
    /\ open = TRUE
    /\ over = FALSE

Running == {t \in Tasks : phase[t] = "executing"}

Become(t, old, new) ==
    /\ phase[t] = old
    /\ phase' = [phase EXCEPT ![t] = new]

AcceptTask(t) ==
    /\ open
    /\ Become(t, "new", "accepted")
    /\ line' = Append(line, t)
    /\ UNCHANGED <<open, over>>

RejectTask(t) ==
    /\ ~open
    /\ Become(t, "new", "rejected")
    /\ UNCHANGED <<line, open, over>>

TakeTask(t) ==
    /\ ~over
    /\ line # <<>>
    /\ t = Head(line)
    /\ Cardinality(Running) < Threads
    /\ Become(t, "accepted", "executing")
    /\ line' = Tail(line)
    /\ UNCHANGED <<open, over>>

EndTask(t, result) ==
    /\ Become(t, "executing", result)
    /\ UNCHANGED <<line, open, over>>

StopService ==
    /\ open
    /\ open' = FALSE
    /\ UNCHANGED <<phase, line, over>>

JoinService ==
    /\ ~open
    /\ ~over
    /\ Running = {}
    /\ over' = TRUE
    /\ UNCHANGED <<phase, line, open>>

ServiceNext ==
    \/ \E t \in Tasks :
          \/ AcceptTask(t)
          \/ RejectTask(t)
          \/ TakeTask(t)
          \/ \E result \in {"returned", "threw"} : EndTask(t, result)
    \/ StopService
    \/ JoinService

ServiceSpec == ServiceInit /\ [][ServiceNext]_serviceVars
=============================================================================
