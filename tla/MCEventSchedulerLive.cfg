\* Liveness: one tick per nanosecond, as in omnetpp.ini.
SPECIFICATION FairSpec
CONSTANTS
    StartTime = 1
    SubNs = 1
    MaxTime = 3
    MaxEvents = 3
PROPERTIES
    GrantAnswered
    EventuallyHandled
    ShutDownStops
