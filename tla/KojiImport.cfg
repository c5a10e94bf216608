CONSTANTS
    Word <- Words
    Batches <- Imports
    Foreign <- Areas
    MaxRuns = 3
SPECIFICATION Spec
PROPERTIES
    OthersAreNotOverwritten
    NoSecondGeofence
CHECK_DEADLOCK FALSE
