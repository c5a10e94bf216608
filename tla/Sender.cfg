SPECIFICATION FairSpec
CONSTANTS
    dest = dest
    f1 = f1
    f2 = f2
    f3 = f3
    Final = Final
    Destination <- OneDestination
    AreaOf <- NestAreas
    Areas <- WebhookAreas
    Flusher <- ThreeFlushers
    MaxMessages = 3
INVARIANTS
    SenderTypeOK
    QueueIsPending
    UnracedFlushIsExact
    ShutdownTakesTheQueue
PROPERTIES
    QueueIsTaken
CHECK_DEADLOCK FALSE
