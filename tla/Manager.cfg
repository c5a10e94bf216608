SPECIFICATION FairSpec
CONSTANTS
    sighup = sighup
    http = http
    Reloader <- MCReloader
    Config <- MCConfig
    Interval <- MCInterval
    Long <- MCLong
INVARIANTS
    RunIsUpToDate
    ConfigsAgree
    TimerIsOnTime
PROPERTIES
    RotationIsNotEarly
    RotationsGoOn
    RunEnds
