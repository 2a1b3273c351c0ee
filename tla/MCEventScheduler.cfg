\* Safety: a start after time 0, two ticks per nanosecond, four events.
SPECIFICATION Spec
CONSTANTS
    StartTime = 1
    SubNs = 2
    MaxTime = 3
    MaxEvents = 4
INVARIANTS
    IInv
    WireInv
    WithinGrant
    OneGrant
    GrantExhausted
    ReceptionsInOrder
    NoLostWakeup
    NoReplyMissing
PROPERTY
    ImplementsTimeAdvance
