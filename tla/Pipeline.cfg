SPECIFICATION PipelineSpec
CONSTANTS
    t1 = t1
    t2 = t2
    Tasks = {t1, t2}
    Threads = 2
    Room = 1
    MaxRows = 2
    FailingDisk = TRUE
    ReaderMayThrow = TRUE
SYMMETRY Symmetry
INVARIANTS
    ResultsReachSinks
    OutputIsWhole
