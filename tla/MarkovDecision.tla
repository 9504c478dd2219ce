--------------------------- MODULE MarkovDecision ---------------------------
(***************************************************************************)
(* The two environments in which a match task is decided.                  *)
(*                                                                         *)
(* The environment of the learners (environment::single).  A state is the  *)
(* sequence of the code: a position of the track, or a position, the edge  *)
(* chosen there and the next position, or two such steps with a state size *)
(* of three points.  An action is the number of an edge of the candidate   *)
(* at the last position, NoAction where it has none, Skip where the        *)
(* environment refused the edge.  The weights of a reward are whole tenths;*)
(* its angles are left out, which no property tells apart.                 *)
(***************************************************************************)
EXTENDS CandidateSearch


NoAction == -1
Skip == -2
Reset == << 1 >>
NextPosition(state) == state[Len(state)]

Actions(candidates, state) ==
  LET p == NextPosition(state)
  IN  IF p <= Len(candidates) /\ candidates[p].edges # << >>
        THEN DOMAIN candidates[p].edges
        ELSE {NoAction}

Done(candidates, state) == NextPosition(state) > Len(candidates)

\* state-size counts points; their actions are between them.
StateLength(opt) == opt.stateSize + (opt.stateSize - 1)
NewState(state, action, opt) ==
  (IF Len(state) >= StateLength(opt) THEN SubSeq(state, 3, Len(state)) ELSE state)
    \o << action, NextPosition(state) + 1 >>
SkipState(state) ==
  IF Len(state) >= 3 THEN SubSeq(state, 3, Len(state)) ELSE << state[1] + 1 >>
DoneState(candidates, state) == [state EXCEPT ![Len(state)] = Len(candidates) + 1]

\* _fail_error: more than any way along the track is bad.
FailError(track) == 40 * Length(track.points) + 40

-----------------------------------------------------------------------------
(***************************************************************************)
(* _reward adds up to an outcome: the reward, the state the step leads to, *)
(* the action it was, and the route cache.                                 *)
(***************************************************************************)
Outcome(reward, state, action, cache) ==
  [reward |-> reward, state |-> state, action |-> action, cache |-> cache]

\* The first position, and the position after a skip.
StartReward(position, edge) ==
  IF position = 1 THEN -30 * edge.distance ELSE -edge.distance

NextDistance(current, next) == PointDistance(current.point, next.point)
TooLong(length, distance, opt) ==
  /\ opt.skipErrors /\ opt.factor > 0
  /\ length > 0 /\ distance > 0
  /\ length > 2 * opt.factor * distance

RouteReward(candidates, current, next, a, b, route) ==
  LET stays    == current.point = next.point /\ ~RouteHasLength(route)
      distance == NextDistance(current, next)
      length   == RouteLength(route)
      last     == next.index >= Len(candidates)
  IN  IF stays THEN 0
      ELSE -10 * (a.distance + b.distance)
             - (IF last THEN 20 * b.distance ELSE 0)
             - 10 * Abs(distance - length)

\* With three points, the two routes have to attach, and a way along and back
\* is bad; before is the route of the step before, with the cache after it.
TurnOutcome(track, candidates, state, outcome, route, before) ==
  IF before.route.invalid THEN [outcome EXCEPT !.cache = before.cache]
  ELSE IF ~RoutesAttach(before.route, route)
    THEN Outcome(outcome.reward - FailError(track), DoneState(candidates, state),
                 outcome.action, before.cache)
  ELSE [outcome EXCEPT
          !.cache = before.cache,
          !.reward = @ - (IF RouteHasLength(before.route) /\ RouteHasLength(route)
                            THEN 20 * ReturnLength(before.route, route) ELSE 0)]

\* A step without a route fails and may be skipped, and so may one with a route
\* that is far too long.
RouteOutcome(track, candidates, state, action, current, next, found, opt) ==
  LET n      == Len(state)
      reward == RouteReward(candidates, current, next, current.edges[state[n - 1]],
                            next.edges[action], found.route)
      stays  == current.point = next.point /\ ~RouteHasLength(found.route)
      long   == /\ ~stays
                /\ TooLong(RouteLength(found.route), NextDistance(current, next), opt)
      skips  == IF found.route.invalid THEN opt.skipErrors ELSE long
  IN  Outcome(IF found.route.invalid THEN -FailError(track) ELSE reward,
              IF skips THEN SkipState(state) ELSE NewState(state, action, opt),
              IF skips THEN Skip ELSE action, found.cache)

\* The routes of a step are asked for in the order of the code.
RoutedOutcome(net, track, candidates, state, from, outcome, found, opt) ==
  IF found.route.invalid \/ Len(state) < 5 \/ state[2] < 0 THEN outcome
  ELSE TurnOutcome(track, candidates, state, outcome, found.route,
         CandidateRoute(net, candidates, found.cache, << state[1], state[2] >>, from,
                        opt.withinEdgeTurns, opt.aStar, opt.factor))

RouteStepped(net, track, candidates, state, action, from, found, opt) ==
  RoutedOutcome(net, track, candidates, state, from,
    RouteOutcome(track, candidates, state, action, candidates[from[1]],
                 candidates[NextPosition(state)], found, opt), found, opt)

\* step: what the environment answers to an action that it has not seen.
Step(net, track, candidates, cache, state, action, opt) ==
  LET n == Len(state)
      p == state[n]
  IN  IF action < 0 \/ (n >= 3 /\ state[n - 1] < 0)
        THEN Outcome(0, NewState(state, action, opt), action, cache)
      ELSE IF n < 3
        THEN Outcome(StartReward(p, candidates[p].edges[action]),
                     NewState(state, action, opt), action, cache)
      ELSE RouteStepped(net, track, candidates, state, action, << state[n - 2], state[n - 1] >>,
             CandidateRoute(net, candidates, cache, << state[n - 2], state[n - 1] >>,
                            << p, action >>, opt.withinEdgeTurns, opt.aStar, opt.factor), opt)

\* The steps of all the actions of a state, in their order, and the cache.
AddStep(answers, candidates, action, step) ==
  [cache |-> step.cache,
   steps |-> [b \in DOMAIN answers.steps \cup {action} |->
                IF b = action THEN [state |-> step.state, action |-> step.action,
                                    reward |-> step.reward,
                                    done |-> Done(candidates, step.state)]
                              ELSE answers.steps[b]]]

RECURSIVE StepAll(_, _, _, _, _, _)
StepAll(net, track, candidates, state, answers, opt) ==
  LET left == Actions(candidates, state) \ DOMAIN answers.steps
  IN  IF left = {} THEN answers
      ELSE StepAll(net, track, candidates, state,
             AddStep(answers, candidates, Least(left),
               Step(net, track, candidates, answers.cache, state, Least(left), opt)), opt)
Steps(net, track, candidates, cache, state, opt) ==
  StepAll(net, track, candidates, state, [cache |-> cache, steps |-> << >>], opt)

Extend(policy, state, action) ==
  IF action >= 0 THEN Append(policy, << NextPosition(state), action >>)
  ELSE IF policy # << >> THEN Append(policy, LastOf(policy))
  ELSE policy

-----------------------------------------------------------------------------
(***************************************************************************)
(* The hidden Markov model of a track (environment::hmm) and the algorithm *)
(* of Viterbi that decides it.  Logarithms of probabilities are integers   *)
(* of the same order (distances and differences of lengths, negated),      *)
(* Never is the logarithm of zero.                                         *)
(***************************************************************************)
Never == -1000000
Plus(a, b) == IF a = Never \/ b = Never THEN Never ELSE a + b

\* The observation of each edge of a candidate; first and last weigh more.
Observation(candidates, t) ==
  LET weight == IF t = 1 \/ t = Len(candidates) THEN 3 ELSE 1
  IN  [g \in DOMAIN candidates[t].edges |-> -weight * candidates[t].edges[g].distance]

Transition(current, next, route) ==
  IF route.invalid THEN Never
  ELSE IF current.nextEqual /\ ~RouteHasLength(route) THEN 0
  ELSE -Abs(NextDistance(current, next) - RouteLength(route))

\* The transitions into one candidate from the one before, target by target
\* and source by source, as the routes are asked for.
AddTransition(answers, pair, current, next, found) ==
  [cache |-> found.cache,
   log   |-> [q \in DOMAIN answers.log \cup {pair} |->
                IF q = pair THEN Transition(current, next, found.route)
                            ELSE answers.log[q]]]

NextPair(pairs) ==
  CHOOSE p \in pairs : \A q \in pairs : p[1] < q[1] \/ (p[1] = q[1] /\ p[2] <= q[2])

RECURSIVE TransitionsFrom(_, _, _, _, _)
TransitionsFrom(net, candidates, t, answers, opt) ==
  LET left == (DOMAIN candidates[t].edges) \X (DOMAIN candidates[t - 1].edges)
                \ DOMAIN answers.log
      p    == NextPair(left)
  IN  IF left = {} THEN answers
      ELSE TransitionsFrom(net, candidates, t,
             AddTransition(answers, p, candidates[t - 1], candidates[t],
               CandidateRoute(net, candidates, answers.cache, << t - 1, p[2] >>,
                 << t, p[1] >>, opt.withinEdgeTurns, opt.aStar, opt.factor)), opt)

TransitionsInto(net, candidates, cache, t, opt) ==
  IF t = 1 THEN [cache |-> cache, log |-> << >>]
  ELSE TransitionsFrom(net, candidates, t, [cache |-> cache, log |-> << >>], opt)

-----------------------------------------------------------------------------
(***************************************************************************)
(* One layer of the algorithm: the probability T of the best path to each  *)
(* edge and its predecessor K, NoAction where there is no path.            *)
(***************************************************************************)
FirstLayer(observation) ==
  [T |-> observation, K |-> [g \in DOMAIN observation |-> NoAction],
   transitions |-> << >>,
   initialized |-> observation # << >>]

Through(before, log, observation, g, s) ==
  Plus(before.T[s], Plus(log[<< g, s >>], observation[g]))

MostLikelyBefore(before, log, observation, g) ==
  LET sources == { s \in DOMAIN before.T : Through(before, log, observation, g, s) # Never }
  IN  IF sources = {} THEN NoAction
      ELSE CHOOSE s \in sources : \A r \in sources : before.T[s] >= before.T[r]
BestSource(before, log, observation, g) ==
  LET sources == { s \in DOMAIN before.T : Through(before, log, observation, g, s) # Never }
      best(s) == \A r \in DOMAIN before.T :
                   Through(before, log, observation, g, s)
                     >= Through(before, log, observation, g, r)
  IN  IF sources = {} THEN NoAction ELSE Least({ s \in sources : best(s) })

\* Where nothing could start yet, a layer without a path starts anew.
NextLayer(before, log, observation) ==
  LET K == [g \in DOMAIN observation |-> BestSource(before, log, observation, g)]
  IN  [T |-> [g \in DOMAIN observation |->
                IF K[g] # NoAction THEN Through(before, log, observation, g, K[g])
                ELSE IF before.initialized THEN Never ELSE observation[g]],
       K |-> K,
       transitions |-> log,
       initialized |-> \/ before.initialized
                       \/ \E g \in DOMAIN observation : K[g] = NoAction]

BestEnd(layer) ==
  LET ends == { g \in DOMAIN layer.T : layer.T[g] # Never }
  IN  IF ends = {} THEN NoAction
      ELSE Least({ g \in ends : \A h \in DOMAIN layer.T : layer.T[g] >= layer.T[h] })

\* The selections, backwards from the best end.
Selections(layers) ==
  LET n == Len(layers)
      back[i \in 0..n - 1] ==
        IF i = 0 THEN BestEnd(layers[n])
        ELSE LET next == back[i - 1]
             IN  IF next = NoAction THEN NoAction ELSE layers[n - i + 1].K[next]
  IN  [t \in 1..n |-> back[n - t]]

\* The policy has a pair for each selection that is an edge.
SelectionPolicy(selections) ==
  LET upTo[t \in 0..Len(selections)] ==
        IF t = 0 THEN << >>
        ELSE IF selections[t] = NoAction THEN upTo[t - 1]
        ELSE Append(upTo[t - 1], << t, selections[t] >>)
  IN  upTo[Len(selections)]
=============================================================================
