\* What a configuration with two channels on a radio leaves behind.
SPECIFICATION Spec
CONSTANTS
    Channels = {CCH, SCH1}
    DefaultChannel = CCH
    Undef = Undef
    Unused = Unused
    Uninitialized = Uninitialized
    MaxPackets = 2
INVARIANT
    FullyConfigured
