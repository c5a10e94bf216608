SPECIFICATION Spec
CONSTANTS
    sighup = sighup
    http = http
    Reloader <- MCReloader
    Config <- MCConfig
    Interval <- MCInterval
    Long <- MCLong
INVARIANT
    NoReloadIsLost
