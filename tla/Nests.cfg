CONSTANTS
    Pokemon = {p1, p2}
    Worker = {w1, w2}
    Place <- Places
    MaxStarts = 6
SPECIFICATION Spec
SYMMETRY Symmetry
CHECK_DEADLOCK FALSE
INVARIANTS
    NestingIsAnnounced
    ActiveRowsAreNotDiscarded
PROPERTIES
    RowFollowsNesting
    RefreshedRowIsRight
