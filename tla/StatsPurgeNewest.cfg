SPECIFICATION Spec
CONSTANTS
    p1 = p1
    p2 = p2
    n1 = n1
    PokemonKey <- MCPokemon
    Nest <- MCNest
    Global = Global
    Total = Total
    TicksPerMinute = 2
    MaxHistories = {2}
    SkipPcts = {0, 60}
    KeepDurations = {0}
    PurgeDurations = {2, 4}
    MaxTime = 6
    MaxPeriods = 3
    MaxSightings = 2
INVARIANT
    PurgeNewestStaysWithin
CHECK_DEADLOCK FALSE
