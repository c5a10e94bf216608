SPECIFICATION FairSpec
CONSTANTS
    a1 = a1
    a2 = a2
    s1 = s1
    s2 = s2
    Adder <- TwoAdders
    Snapshotter <- OneSnapshotter
    InitialCap = 2
    MaxPeriods = 4
    MaxSightings = 2
INVARIANTS
    TotalsCoverPeriods
    TotalsAreExactWithoutOverlap
    AddersMeetOpenPeriods
    LiveListIsWellFormed
PROPERTIES
    WriterGetsLock
CHECK_DEADLOCK FALSE
