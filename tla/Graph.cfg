SPECIFICATION GraphSpec
CONSTANTS
    v1 = v1
    v2 = v2
    v3 = v3
    e1 = e1
    e2 = e2
    e3 = e3
    Vertices = {v1, v2, v3}
    Edges = {e1, e2, e3}
    NoVertex = NoVertex
    Directions = {"undirected", "directional", "bidirectional"}
SYMMETRY Symmetry
INVARIANTS
    Linked
PROPERTIES
    FailedAddChangesNothing
