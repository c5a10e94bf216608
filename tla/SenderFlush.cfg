SPECIFICATION Spec
CONSTANTS
    dest = dest
    f1 = f1
    f2 = f2
    f3 = f3
    Final = Final
    Destination <- OneDestination
    AreaOf <- NestAreas
    Areas <- WebhookAreas
    Flusher <- TwoFlushers
    MaxMessages = 3
INVARIANT
    FlushSendsWhatItCollected
CHECK_DEADLOCK FALSE
