SPECIFICATION FairSpec
CONSTANTS
    p1 = p1
    p2 = p2
    n1 = n1
    PokemonKey <- MCPokemon
    Nest <- MCNest
    Global = Global
    Total = Total
    TicksPerMinute = 2
    MaxHistories = {2}
    SkipPcts = {0, 60}
    KeepDurations = {0}
    PurgeDurations = {2, 4}
    MaxTime = 4
    MaxPeriods = 3
    MaxSightings = 2
INVARIANTS
    TypeOK
    TotalsAreSums
    OneOpenPeriod
    PeriodsAreOrdered
    DurationIsCovered
    NilMapMeansEmpty
PROPERTIES
    KeepRecentIsExact
    ClosedPeriodsAreImmutable
    LockIsReleased
CHECK_DEADLOCK FALSE
