\* An ambassador that may die, or send commands the federate does not know.
SPECIFICATION FairFaultySpec
CONSTANTS
    StartTime = 1
    SubNs = 1
    MaxTime = 2
    MaxEvents = 2
    MaxAdrift = 0
INVARIANT
    FaultyInv
PROPERTIES
    AlwaysReplied
    OrphanStops
