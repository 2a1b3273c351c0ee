\* Two ids, of which one can be used again; four commands at two times.
SPECIFICATION FederateSpec
CONSTANTS
    MaxId = 1
    MaxModules = 2
    MaxPackets = 1
    MaxPending = 2
    StartTime = 1
    MaxTime = 2
    MaxCommands = 4
    OriginIsNil = TRUE
INVARIANTS
    FedInv
    NoError
    ScenarioAsOrdered
    ConfiguredAsOrdered
    DeliveredAtOnce
    TimelyMessages
PROPERTY
    FederateImplementsTimeAdvance
\* After MosaicFinishCmd the simulation is over.
CHECK_DEADLOCK FALSE
