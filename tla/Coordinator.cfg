\* A task is matched with each of the cases; an episode is drawn once.
SPECIFICATION MatchingSpec
CONSTANTS
    t1 = t1
    t2 = t2
    t3 = t3
    w1 = w1
    w2 = w2
    Tasks = {t1, t2, t3}
    Workers = {w1, w2}
    QueueSize = 2
    NoTask = NoTask
    SequentialOwner = FALSE
    Cases <- MCCases
    MaxEpisodes = 1
INVARIANTS
    TypeOK
    PermitConservation
    DrainedAtJoin
    StrandedOnlyInWindow
    CacheHoldsPaths
    PolicyOptimal
    NoUnexplainedGap
    MatchFollowsNetwork
PROPERTIES
    ServiceRefined
    WorkGetsDone
    TaskEnds
