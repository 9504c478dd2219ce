SPECIFICATION Spec
CONSTANTS
    Vertices = {1, 2, 3, 4}
    Edges = {1, 2, 3, 4}
    NoVertex = 0
    Directions = {"bidirectional"}
    NodeTags <- SomeNodeTags
    WayTags <- SomeWayTags
    Retries = 1
    Nothing = Nothing
    Ways = {}
    MaxWaysRead = 0
    w1 = w1
    w2 = w2
    Calls <- DeadEnds
    AllocFails = FALSE
    End = End
INVARIANTS
    NoStaleIterator
