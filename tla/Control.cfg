SPECIFICATION ControlSpec
CONSTANTS
    v1 = v1
    v2 = v2
    Indexes = {1, 2}
    Choices <- MCChoices
    Configurations = {0, 1}
    Authored <- MCAuthored
    Capacity = 1
    Absent = Absent
    Bare = Bare
    GridWidth = 3
    GridHeight = 2
    Controllers = {a, b}
    NoController = NoController
    Kinds = {"selector", "clock", "control", "mixer", "format", "rate", "streaming", "name", "deferred"}
    MaxRegs = 1
    MaxPending = 2
    IdentifyIndex = 1
    Handshake = TRUE
    KeMaxDraws = 2
    KeMaxEntries = 1
    AefOctetValues = 2
    AefNonceOctets = 2
    AefMaxPackets = 3
SYMMETRY EitherController
CHECK_DEADLOCK FALSE
INVARIANTS
    
    MatrixReadsBack
    KeysHeld
PROPERTIES
    OwnerAloneChanges
