SPECIFICATION NodeSpec
CONSTANTS
    Stale = 2
    Offline = 3
    Margin = 1
    UptimeWrap = 1024
    MaxDelay = 1
    BootTime = 2
    MaxUptime = 3
    Burst = 2
    FlightMax = 2
INVARIANTS
    UsedIsFresh
PROPERTIES
    NeverBackwards
    RestartIsReal
