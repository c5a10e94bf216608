CONSTANTS
    PokemonKey = {p1, p2, p3}
    Counts = {0, 1, 2, 3}
    Elsewhere = {0, 1, 5}
    Configs <- SomeConfigs
    Durations = {0, 1}
    MaxRank = 2
SPECIFICATION DecisionSpec
INVARIANT DecisionIsBest
CHECK_DEADLOCK FALSE
