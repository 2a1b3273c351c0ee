\* Three ids; an id can be removed and added again; one broadcast.
SPECIFICATION Spec
CONSTANTS
    MaxId = 2
    MaxModules = 3
    MaxPackets = 1
    MaxPending = 2
INVARIANTS
    TypeOK
    GatesFollowNodes
    NoMisdelivery
    ReportsNameReceiver
PROPERTY
    ErrorsOnlyOnMisuse
\* After an error or MosaicFinishCmd the simulation is over.
CHECK_DEADLOCK FALSE
