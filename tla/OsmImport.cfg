CONSTANTS
    AreaList <- Areas
    Element <- Elements
    DefaultName = FALSE
    MaxTries = 2
    MaxRuns = 3
SPECIFICATION FairOsmSpec
PROPERTIES
    ImporterEnds
    SuccessIsComplete
CHECK_DEADLOCK FALSE
