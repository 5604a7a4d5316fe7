CONSTANTS
    g1 = g1
    g2 = g2
    Graphs = {g1, g2}
    Points <- MCPoints
    IdSpace = 3
    MaxMade = 4
    MaxEdges = 2
SYMMETRY Symmetry
SPECIFICATION Spec
INVARIANTS TypeOK AnswersWhenOwn NearestFound NeighbourFound
CHECK_DEADLOCK FALSE
