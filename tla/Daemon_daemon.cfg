\* Two boots, one of which may crash anywhere; a heartbeat table of two rows.
CONSTANTS
    Keep = 2
    Tables = 2
    MaxWork = 1
    MaxLeft = 1
    MaxBeats = 3
    MaxClock = 4
    MaxBoots = 2
    MaxCrashes = 1
SPECIFICATION LiveSpec
INVARIANTS
    TypeOK
    TrafficReady
    HealthyProven
    LatestIsLast
    ClosedLast
PROPERTIES
    StartSettles
    StopEnds
    ImplementsLifecycle
CHECK_DEADLOCK FALSE
