\* Messages of three lengths for every reader; three in a row.
SPECIFICATION FairSpec
CONSTANTS
    Base = 2
    MaxPrefix = 4
    Lengths = {1, 2, 8}
    MaxMessages = 3
INVARIANTS
    ChannelInv
    InStep
PROPERTIES
    ImplementsPipe
    EveryMessageRead
    EndNoticed
