SPECIFICATION Spec
CONSTANTS
    a1 = a1
    a2 = a2
    s1 = s1
    s2 = s2
    Adder <- OneAdder
    Snapshotter <- OneSnapshotter
    InitialCap = 2
    MaxPeriods = 4
    MaxSightings = 2
INVARIANT
    BatchHasLatestEntry
CHECK_DEADLOCK FALSE
