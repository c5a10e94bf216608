SPECIFICATION FairProcessSpec
CONSTANT Request = {r1, r2}
INVARIANT RequestsAreFinished
PROPERTIES
    OnlyFailuresAreFatal
    ShutdownEnds
CHECK_DEADLOCK FALSE
