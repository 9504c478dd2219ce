SPECIFICATION Spec
CONSTANTS
    t1 = t1
    t2 = t2
    w1 = w1
    w2 = w2
    Tasks = {t1, t2}
    Workers = {w1, w2}
    QueueSize = 2
    NoTask = NoTask
    SequentialOwner = TRUE
INVARIANTS
    JoinMeansDrained
