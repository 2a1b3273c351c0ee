\* What an unknown command does to a federate that holds no grant.
SPECIFICATION FaultySpec
CONSTANTS
    StartTime = 1
    SubNs = 1
    MaxTime = 2
    MaxEvents = 2
    MaxAdrift = 0
INVARIANTS
    UnknownCommandEnds
