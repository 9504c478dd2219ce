--------------------------- MODULE MCCoordinator ---------------------------
(***************************************************************************)
(* Instances of Coordinator for TLC, and of the match task that its        *)
(* threads execute: a behaviour hands tasks to the pool, each one step, or *)
(* is one task, step by step.                                              *)
(***************************************************************************)
EXTENDS Coordinator

CONSTANTS Cases, MaxEpisodes

VARIABLES
    taskPc,   \* pc of MatchTask
    case, line, track, candidates, cache, states, visited, table, value, sweep, choice, layers,
    policy, state, results, expired

matchVars == <<taskPc, case, line, track, candidates, cache, states, visited, table, value, sweep,
               choice, layers, policy, state, results, expired>>

Matching == INSTANCE MatchTask WITH pc <- taskPc

Tried == INSTANCE MCMatchCases
MCCases == Tried!MCCases

\* No task is looked at: what happens in behaviours about the coordinator.
NoMatch ==
    /\ line = 0 /\ taskPc = "done" /\ case = [lines |-> <<>>]
    /\ track = <<>> /\ candidates = <<>> /\ cache = <<>>
    /\ states = <<>> /\ visited = 0 /\ table = <<>> /\ value = <<>> /\ sweep = <<>>
    /\ choice = <<>> /\ layers = <<>> /\ policy = <<>> /\ state = <<>>
    /\ results = <<>> /\ expired = FALSE

MatchingInit == Init /\ (NoMatch \/ Matching!Init)

\* A task that is done stays so.
MatchingNext ==
    \/ NoMatch /\ Next /\ UNCHANGED matchVars
    \/ ~NoMatch /\ (Matching!Next \/ (taskPc = "done" /\ UNCHANGED matchVars)) /\ UNCHANGED vars

\* The threads of the coordinator are scheduled, and so is the one that executes the task.
MatchingSpec ==
    /\ MatchingInit /\ [][MatchingNext]_<<vars, matchVars>>
    /\ Fairness /\ Matching!Fairness

-----------------------------------------------------------------------------
\* The shared cache holds shortest paths of the network (router.hpp).
CacheHoldsPaths == Matching!CacheHoldsPaths

\* The policy covers the track and is the best one its model allows (environment.hpp and
\* the learners).
PolicyOptimal == Matching!PolicyOptimal

\* A match has gaps only where the policy skips or there is no route (route.hpp).
NoUnexplainedGap == Matching!NoUnexplainedGap

\* What is matched lies on the network (candidate_search.hpp, match_task.hpp).
MatchFollowsNetwork == Matching!MatchFollowsNetwork

\* Every task ends: exploration, sweeps, episodes and layers all run out (match_task.hpp).
TaskEnds == Matching!TaskEnds
=============================================================================
