CONSTANTS
    NestId <- Rows
    Worker = {w1, w2}
    Client = {"refresh", "export"}
    BatchSize = 2
    ChanCap = 1
SPECIFICATION FairSpec
INVARIANT NoRowIsPassedOver
PROPERTIES
    IteratesEveryRowOnce
    IterationReturns
CHECK_DEADLOCK FALSE
