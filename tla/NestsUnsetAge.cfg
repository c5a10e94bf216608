CONSTANTS
    Pokemon = {p1, p2}
    Worker = {w1}
    Place <- Places
    MaxStarts = 5
SPECIFICATION Spec
CHECK_DEADLOCK FALSE
PROPERTY UnsetOnlyWhenOld
