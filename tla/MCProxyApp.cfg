\* Two channels and an undefined one, two packets in their delay.
SPECIFICATION Spec
CONSTANTS
    Channels = {CCH, SCH1}
    DefaultChannel = CCH
    Undef = Undef
    Unused = Unused
    Uninitialized = Uninitialized
    MaxPackets = 2
INVARIANTS
    TypeOK
    RadiosMatchCount
    NotedChannelIsTuned
PROPERTY
    AcceptedForTunedRadio
