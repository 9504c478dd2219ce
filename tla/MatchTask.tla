------------------------------ MODULE MatchTask ------------------------------
(***************************************************************************)
(* One task of the matcher, _match_impl: the lines of a track are matched  *)
(* one after the other with one router, whose cache they share, and one    *)
(* clock.  Each line is prepared, its candidates are searched, a learner   *)
(* decides for a policy, and the router makes a route of it.               *)
(*                                                                         *)
(* A case of Cases is a network, the lines of a track and the settings.    *)
(* Where the settings have a maximum time, every look at the clock may     *)
(* find it reached; after that it stays reached.  Q-learning visits the    *)
(* states of its episodes at random and then takes, in each state, any of  *)
(* the actions it has tried there.                                         *)
(***************************************************************************)
EXTENDS MarkovDecision

CONSTANTS Cases, MaxEpisodes

VARIABLES
  case,        \* the network, the lines and the settings of the task
  line,        \* the line that is being matched
  pc,          \* what the task does next
  track,       \* the prepared line
  candidates,  \* its candidates
  cache,       \* the route cache of the router
  states,      \* the states found, in order; visited of them are expanded
  visited,
  table,       \* the answers of the environment, by state and action
  value,       \* V, and what the last two sweeps added up to
  sweep,
  choice,      \* the actions that policy iteration holds
  layers,      \* the layers of the Viterbi algorithm
  policy,      \* the policy so far, and the state its extraction is in
  state,
  results,     \* of each line: its candidates, its policy and its route
  expired      \* the clock has been found beyond the maximum time

vars == << case, line, pc, track, candidates, cache, states, visited, table, value,
           sweep, choice, layers, policy, state, results, expired >>
learning == << states, visited, table, value, sweep, choice, layers, policy, state >>

net == case.net
opt == case.opt
Lines == case.lines

\* The clock at one of its checks: has_reached is sticky.
Checks(now) ==
  /\ now \in BOOLEAN
  /\ expired => now
  /\ now => expired \/ opt.maxTime
  /\ expired' = now

Init ==
  /\ case \in Cases
  /\ line = 1
  /\ pc = "set"
  /\ track = [points |-> << >>, times |-> << >>]
  /\ candidates = << >>
  /\ cache = EmptyCache
  /\ states = << >> /\ visited = 0 /\ table = << >>
  /\ value = << >> /\ sweep = << >> /\ choice = << >> /\ layers = << >>
  /\ policy = << >> /\ state = Reset
  /\ results = << >>
  /\ expired = FALSE

\* set: remove the defects, look at the clock, simplify, look at the clock
\* again.  A task that is out of time goes on with what it has.
SetTrack ==
  LET cleaned == RemoveDefects(Lines[line], opt)
      whole   == SimplifyTrack(cleaned, opt)
  IN  /\ pc = "set"
      /\ \E now \in BOOLEAN :
           /\ Checks(now)
           /\ track' \in IF now /\ opt.filterDuplicates THEN {cleaned, whole} ELSE {whole}
           /\ pc' = IF now THEN "result" ELSE "search"
      /\ candidates' = << >>
      /\ states' = << >> /\ visited' = 0 /\ table' = << >>
      /\ value' = << >> /\ sweep' = << >> /\ choice' = << >> /\ layers' = << >>
      /\ policy' = << >> /\ state' = Reset
      /\ UNCHANGED << case, line, cache, results >>

FirstPhase(found) ==
  CASE opt.model = "viterbi" -> IF found = << >> THEN "backtrack" ELSE "layer"
    [] opt.model = "q" -> "episode"
    [] OTHER -> "explore"

\* candidate_search, which returns nothing when it runs out of time.
Search ==
  /\ pc = "search"
  /\ \E now \in BOOLEAN :
       /\ Checks(now)
       /\ candidates' = IF now THEN << >> ELSE Candidates(net, track, opt)
       /\ pc' = IF now THEN "result" ELSE FirstPhase(candidates')
  /\ states' = << Reset >>
  /\ UNCHANGED << case, line, track, cache, visited, table, value, sweep, choice,
                  layers, policy, state, results >>

-----------------------------------------------------------------------------
\* generate_states takes the next state and tries all of its actions; states
\* that are new, and not done, queue up.
InOrder(steps) ==
  IF NoAction \in DOMAIN steps THEN << steps[NoAction] >>
  ELSE [a \in 1..Cardinality(DOMAIN steps) |-> steps[a]]
NewStates(steps) ==
  LET ordered == InOrder(steps)
      upTo[k \in 0..Len(ordered)] ==
        IF k = 0 THEN states
        ELSE LET known == upTo[k - 1]
             IN  IF ordered[k].done \/ \E i \in DOMAIN known : known[i] = ordered[k].state
                   THEN known
                   ELSE Append(known, ordered[k].state)
  IN  upTo[Len(ordered)]

Explored(s, new) ==
  /\ cache' = new.cache
  /\ table' = [t \in DOMAIN table \cup {s} |-> IF t = s THEN new.steps ELSE table[t]]
  /\ \E now \in BOOLEAN :
       /\ Checks(now)
       /\ IF now THEN pc' = "result" /\ UNCHANGED << states, visited >>
          ELSE /\ states' = NewStates(new.steps)
               /\ visited' = visited + 1
               /\ pc' = IF visited + 1 < Len(states') THEN "explore" ELSE "learn"

GenerateStates ==
  LET s == states[visited + 1]
  IN  /\ pc = "explore"
      /\ Explored(s, Steps(net, track, candidates, cache, s, opt))
      /\ value' = [t \in DOMAIN table \cup {s} |-> 0]
      /\ choice' = [t \in DOMAIN table \cup {s} |-> Least(Actions(candidates, t))]
      /\ sweep' = << >>
      /\ UNCHANGED << case, line, track, candidates, layers, policy, state, results >>

\* The value of an action, with a discount of one.
Return(V, s, a) == table[s][a].reward + IF table[s][a].done THEN 0 ELSE V[table[s][a].state]
BestValue(V, s) == Greatest({ Return(V, s, a) : a \in DOMAIN table[s] })
BestAction(V, s) == Least({ a \in DOMAIN table[s] : Return(V, s, a) = BestValue(V, s) })

\* Value iteration takes the best action, policy evaluation the chosen one.
NewValue(V, s) == IF opt.model = "value" THEN BestValue(V, s) ELSE Return(V, s, choice[s])

\* A sweep updates the states in reverse order, each with the values so far.
Swept ==
  LET n == Len(states)
      upTo[i \in 0..n] ==
        IF i = 0 THEN value
        ELSE LET V == upTo[i - 1]
             IN  [V EXCEPT ![states[n + 1 - i]] = NewValue(V, states[n + 1 - i])]
  IN  upTo[n]
Total(V) ==
  LET upTo[i \in 0..Len(states)] == IF i = 0 THEN 0 ELSE upTo[i - 1] + V[states[i]]
  IN  upTo[Len(states)]

\* Sweeps go on until one changes the sum of the values by nothing.
Swept1(V, next) ==
  LET before == IF sweep = << >> THEN 0 ELSE sweep[1]
  IN  /\ value' = V
      /\ \E now \in BOOLEAN :
           /\ Checks(now)
           /\ IF now THEN pc' = "result" /\ sweep' = << >>
              ELSE IF Total(V) = before THEN pc' = next /\ sweep' = << >>
              ELSE pc' = "learn" /\ sweep' = << Total(V) >>
      /\ UNCHANGED << case, line, track, candidates, cache, states, visited, table,
                      choice, layers, policy, state, results >>

ValueIteration ==
  /\ pc = "learn" /\ opt.model = "value"
  /\ Swept1(Swept, "extract")

PolicyEvaluation ==
  /\ pc = "learn" /\ opt.model = "policy"
  /\ Swept1(Swept, "improve")

\* Mutant: an unstable improvement is not told from a stable one, and learning starts again.
ImproveForever ==
  LET better == [s \in DOMAIN table |-> BestAction(value, s)]
  IN  /\ pc = "improve" /\ choice' = better /\ pc' = "learn"
      /\ UNCHANGED << case, line, track, candidates, cache, states, visited, table, value,
                      sweep, layers, policy, state, results, expired >>

\* The improvement is stable when no state changes its action.
PolicyImprovement ==
  LET better == [s \in DOMAIN table |-> BestAction(value, s)]
  IN  /\ pc = "improve"
      /\ choice' = better
      /\ \E now \in BOOLEAN :
           /\ Checks(now)
           /\ pc' = IF now THEN "result" ELSE IF better = choice THEN "extract" ELSE "learn"
      /\ UNCHANGED << case, line, track, candidates, cache, states, visited, table, value,
                      sweep, layers, policy, state, results >>

\* The policy is read off by following the actions from the start.
Extract ==
  LET a    == IF opt.model = "policy" THEN choice[state] ELSE BestAction(value, state)
      step == table[state][a]
  IN  /\ pc = "extract"
      /\ policy' = Extend(policy, state, step.action)
      /\ state' = IF step.done THEN state ELSE step.state
      /\ pc' = IF step.done THEN "result" ELSE "extract"
      /\ UNCHANGED << case, line, track, candidates, cache, states, visited, table, value,
                      sweep, choice, layers, results, expired >>

-----------------------------------------------------------------------------
(***************************************************************************)
(* Q-learning.  visited counts the episodes.  The table has the answers to *)
(* the actions that were tried, each asked for once.                       *)
(***************************************************************************)
Tried(s, a) == s \in DOMAIN table /\ a \in DOMAIN table[s]
TryAction(s, a, step) ==
  LET old == IF s \in DOMAIN table THEN table[s] ELSE << >>
      new == [state |-> step.state, action |-> step.action, reward |-> step.reward,
              done |-> Done(candidates, step.state)]
  IN  IF Tried(s, a) THEN table
      ELSE [t \in DOMAIN table \cup {s} |->
              IF t = s THEN [b \in DOMAIN old \cup {a} |-> IF b = a THEN new ELSE old[b]]
                       ELSE table[t]]

AfterEpisode(n) == IF n < MaxEpisodes THEN "episode" ELSE "result"

Answered(a, step) ==
  /\ table' = TryAction(state, a, step)
  /\ cache' = IF Tried(state, a) THEN cache ELSE step.cache
  /\ LET over == table'[state][a].done
     IN  /\ state' = IF over THEN Reset ELSE table'[state][a].state
         /\ visited' = IF over THEN visited + 1 ELSE visited
         /\ IF over
              THEN \E now \in BOOLEAN :
                     /\ Checks(now)
                     /\ pc' \in IF now THEN {"greedy"}
                                ELSE {"greedy", AfterEpisode(visited + 1)}
              ELSE UNCHANGED << pc, expired >>

Episode ==
  /\ pc = "episode"
  /\ \E a \in Actions(candidates, state) :
       Answered(a, Step(net, track, candidates, cache, state, a, opt))
  /\ policy' = IF pc' = "greedy" THEN << >> ELSE policy
  /\ UNCHANGED << case, line, track, candidates, states, value, sweep, choice, layers,
                  results >>

\* The extraction takes the best action tried in each state, here any of them
\* (a state that is not done has been acted in, the code ends at others).  More
\* episodes follow when the policy is an improvement.
Greedy ==
  /\ pc = "greedy"
  /\ \E a \in DOMAIN table[state] :
       /\ policy' = Extend(policy, state, table[state][a].action)
       /\ state' = IF table[state][a].done THEN Reset ELSE table[state][a].state
       /\ pc' = IF table[state][a].done THEN "judge" ELSE "greedy"
  /\ UNCHANGED << case, line, track, candidates, cache, states, visited, table, value,
                  sweep, choice, layers, results, expired >>

Judge ==
  /\ pc = "judge"
  /\ state' = Reset
  /\ pc' \in {AfterEpisode(visited), "result"}
  /\ UNCHANGED << case, line, track, candidates, cache, states, visited, table, value,
                  sweep, choice, layers, policy, results, expired >>

-----------------------------------------------------------------------------
\* The transitions into the next layer, and its best paths.  (The code asks
\* for all transitions first; the clock is looked at for every layer.)
Layered(t, new) ==
  LET obs == Observation(candidates, t)
  IN  /\ cache' = new.cache
      /\ \E now \in BOOLEAN :
           /\ Checks(now)
           /\ IF now THEN pc' = "result" /\ layers' = << >>
              ELSE /\ layers' = Append(layers, IF t = 1 THEN FirstLayer(obs)
                                    ELSE NextLayer(layers[t - 1], new.log, obs))
                   /\ pc' = IF t < Len(candidates) THEN "layer" ELSE "backtrack"

Layer ==
  LET t == Len(layers) + 1
  IN  /\ pc = "layer"
      /\ Layered(t, TransitionsInto(net, candidates, cache, t, opt))
      /\ UNCHANGED << case, line, track, candidates, states, visited, table, value, sweep,
                      choice, policy, state, results >>

Backtrack ==
  /\ pc = "backtrack"
  /\ policy' = SelectionPolicy(Selections(layers))
  /\ pc' = "result"
  /\ UNCHANGED << case, line, track, candidates, cache, states, visited, table, value,
                  sweep, choice, layers, state, results, expired >>

-----------------------------------------------------------------------------
\* The route of the policy, with the cache emptied first when the limit of the
\* export is another one; the edges instead of the route where they override
\* it; and the end of the task when the time is over.
ExportCache == IF opt.exportFactor # opt.factor THEN EmptyCache ELSE cache

Exported(found) ==
  /\ cache' = found.cache
  /\ results' = Append(results, [track |-> track, candidates |-> candidates,
                                 policy |-> policy, routes |-> found.routes,
                                 route |-> IF opt.overrideEdges
                                             THEN ExportEdgesRoute(net, EdgesList(net, found.route))
                                             ELSE found.route])

Result ==
  /\ pc = "result"
  /\ Exported(CandidatesRoute(net, candidates, policy, ExportCache, opt))
  /\ pc' = IF expired \/ line = Len(Lines) THEN "done" ELSE "set"
  /\ line' = IF expired \/ line = Len(Lines) THEN line ELSE line + 1
  /\ UNCHANGED << case, track, candidates, expired >>
  /\ UNCHANGED learning

\* The match of the task: the routes of its lines.
Match == Merge([i \in DOMAIN results |-> results[i].route])

Next ==
  \/ SetTrack \/ Search
  \/ GenerateStates \/ ValueIteration \/ PolicyEvaluation \/ PolicyImprovement \/ Extract
  \/ Episode \/ Greedy \/ Judge
  \/ Layer \/ Backtrack
  \/ Result

\* A task runs until it is done: weak fairness of Next, which is enabled until
\* then, written out so that TLC need not search for a step to see that.
Fairness == []<>(pc = "done") \/ []<><<TRUE>>_vars
Spec == Init /\ [][Next]_vars /\ Fairness

-----------------------------------------------------------------------------
(* What a match task has to get right, against definitions that know       *)
(* nothing of the queues, caches and sweeps it works with: distances over  *)
(* all the ways, the best return over everything the table allows, the     *)
(* best sequence of edges over all sequences.                              *)

Infinite == 1000000

\* The length of the shortest way from v to w over the given vertices.
RECURSIVE DistanceOver(_, _, _)
DistanceOver(v, w, over) ==
  IF v = w THEN 0
  ELSE Least({Infinite} \cup { Weight(net, e) + DistanceOver(Target(net, e), w, over \ {v}) :
                               e \in { f \in OutEdges(net, v) : Target(net, f) \in over \ {v} } })
Distance(v, w) == Lesser(Infinite, DistanceOver(v, w, Vertices(net)))

IsPath(route, v, w) ==
  /\ \A i \in DOMAIN route.lines : \E e \in Edges(net) : route.lines[i] = Line(net, e)
  /\ \A i \in 1..Len(route.lines) - 1 : Attaches(route.lines[i], route.lines[i + 1])
  /\ IF route.lines = << >> THEN v = w
     ELSE /\ First(FirstLine(route)) = net.points[v]
          /\ LastOf(LastLine(route)) = net.points[w]

\* The routes that the tasks of a track share through the cache are paths of
\* the network between the vertices of their key; without a limit they are the
\* shortest ones, and there is none exactly where there is no path.  (A* reads
\* a path off the map of predecessors even if it did not reach the goal.)
CacheHoldsPaths ==
  \A key \in DOMAIN cache :
    LET route    == cache[key]
        distance == Distance(key[1], key[2])
        noLimit  == opt.factor < 0 /\ opt.exportFactor < 0
    IN  /\ distance < Infinite \/ ~opt.aStar =>
             (~route.invalid => IsPath(route, key[1], key[2]))
        /\ noLimit /\ distance < Infinite => ~route.invalid /\ RouteLength(route) = distance
        /\ noLimit /\ ~opt.aStar /\ distance = Infinite => route.invalid

-----------------------------------------------------------------------------
\* The best return from a state, by going through everything the table allows.
RECURSIVE Optimal(_)
Optimal(s) ==
  Greatest({ table[s][a].reward + IF table[s][a].done THEN 0 ELSE Optimal(table[s][a].state) :
             a \in DOMAIN table[s] })

\* When value or policy iteration reads off the policy, the values are the best
\* returns and the action of each state attains them.
PlanOptimal ==
  pc = "extract" =>
    \A s \in DOMAIN table :
      /\ value[s] = Optimal(s)
      /\ Return(value, s, IF opt.model = "policy" THEN choice[s] ELSE BestAction(value, s))
           = Optimal(s)

\* The logarithm of the probability of a sequence of edges, one per candidate.
Likelihood(sequence) ==
  LET upTo[t \in 1..Len(sequence)] ==
        IF t = 1 THEN Observation(candidates, 1)[sequence[1]]
        ELSE Plus(upTo[t - 1], Plus(layers[t].transitions[<< sequence[t], sequence[t - 1] >>],
                                    Observation(candidates, t)[sequence[t]]))
  IN  upTo[Len(sequence)]
Sequences1 ==
  { s \in [DOMAIN candidates -> UNION { DOMAIN candidates[t].edges : t \in DOMAIN candidates }] :
      \A t \in DOMAIN candidates : s[t] \in DOMAIN candidates[t].edges }

\* If the model allows any sequence at all, the policy that is traced back is a
\* sequence of the greatest probability.
MostLikely(sequence, all) ==
  \E s \in all : s[1] = sequence /\ \A r \in all : r[2] <= s[2]
ViterbiOptimal ==
  pc = "result" /\ opt.model = "viterbi" /\ ~expired /\ candidates # << >> =>
    LET all == { << s, Likelihood(s) >> : s \in Sequences1 }
    IN  (\E s \in all : s[2] # Never) =>
          /\ \A t \in DOMAIN policy : policy[t][1] = t
          /\ MostLikely([t \in DOMAIN policy |-> policy[t][2]], all)

-----------------------------------------------------------------------------
\* The result that was added last, where the candidates and the cache still
\* are those of its line.
Ended == pc \in {"set", "done"} /\ results # << >>
Newest == results[Len(results)]

\* A learner decides every position that has edges, in the order of the track;
\* a pair is repeated only where the environment skipped or had no edge.
PolicyComplete ==
  Ended /\ ~expired /\ opt.model \in {"value", "policy"} =>
    LET p == Newest.policy
    IN  /\ { p[i][1] : i \in DOMAIN p }
             = { t \in DOMAIN Newest.candidates : Newest.candidates[t].edges # << >> }
        /\ \A i \in 1..Len(p) - 1 : p[i][1] < p[i + 1][1] \/ p[i] = p[i + 1]

\* The policy covers the track and is the best one its model allows.
PolicyOptimal == PlanOptimal /\ ViterbiOptimal /\ PolicyComplete

\* The route between two pairs of the policy as the export asks for it.
RouteBetween(i) ==
  CandidateRoute(net, Newest.candidates, cache, Newest.policy[i], Newest.policy[i + 1],
                 opt.withinEdgeTurns, opt.aStar \/ opt.exportFactor < 0,
                 opt.exportFactor).route
Projected1(pair) == CandidateEdge(Newest.candidates, pair).projection

\* A match has gaps only where the policy skips or there is no route: if it
\* does neither, the route runs from the first projection to the last one
\* without a gap, joins and trimmed turns included.
NoUnexplainedGap ==
  Ended /\ ~opt.overrideEdges =>
    LET p     == Newest.policy
        route == Newest.route
    IN  (\A i \in 1..Len(p) - 1 : p[i][1] # p[i + 1][1] /\ ~RouteBetween(i).invalid) =>
          /\ Gaps(route) = {}
          /\ RouteHasLength(route) =>
               /\ First(FirstLine(route)) = Projected1(First(p))
               /\ LastOf(LastLine(route)) = Projected1(LastOf(p))

\* Every segment of a match lies on a segment of the network.
OnNetwork(a, b) ==
  \E e \in Edges(net) : \E i \in 1..Len(Line(net, e)) - 1 :
    Covers(Line(net, e), i, a) /\ Covers(Line(net, e), i, b)
MatchOnNetwork ==
  Ended => \A i \in DOMAIN Newest.route.lines :
             LET l == Newest.route.lines[i]
             IN  \A j \in 1..Len(l) - 1 : OnNetwork(l[j], l[j + 1])

\* The candidates of a point are ordered by distance and split their edge at
\* the projection; a point also has the own candidates of its neighbours.
Splits(c) ==
  /\ OneLine(RouteOf(<< c.from, c.to >>)) \in
       { Line(net, c.edge) } \cup { SubSeq(Line(net, c.edge), 1, k) \o << c.projection >>
           \o SubSeq(Line(net, c.edge), k + 1, Len(Line(net, c.edge))) :
           k \in 1..Len(Line(net, c.edge)) - 1 }
  /\ Length(c.from) + Length(c.to) = Weight(net, c.edge)
Adopts(edgeSet, c) ==
  \E i \in DOMAIN edgeSet : edgeSet[i].edge = c.edge /\ edgeSet[i].projection = c.projection
CandidatesFit ==
  \A t \in DOMAIN candidates :
    LET own == candidates[t].edges
    IN  /\ \A i \in DOMAIN own : Splits(own[i]) /\
             own[i].distance = PointDistance(candidates[t].point, own[i].projection)
        /\ \A i \in 1..Len(own) - 1 : own[i].distance <= own[i + 1].distance
        /\ opt.adoptSiblings =>
             \A u \in {t - 1, t + 1} \cap DOMAIN candidates :
               \A i \in DOMAIN candidates[u].edges :
                 ~candidates[u].edges[i].adopted => Adopts(own, candidates[u].edges[i])

-----------------------------------------------------------------------------
\* Every task ends: exploration, sweeps, episodes and layers all run out.
TaskEnds == <>(pc = "done")

\* What is matched and the candidates it is chosen from lie on the network
\* (candidate_search.hpp, match_task.hpp).
MatchFollowsNetwork == CandidatesFit /\ MatchOnNetwork
=============================================================================
