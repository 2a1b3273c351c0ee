\* What becomes of a packet whose radios are switched off in its delay.
SPECIFICATION Spec
CONSTANTS
    Channels = {CCH, SCH1}
    DefaultChannel = CCH
    Undef = Undef
    Unused = Unused
    Uninitialized = Uninitialized
    MaxPackets = 2
PROPERTY
    NoRadioNoSending
