SPECIFICATION MCSpec
CONSTANTS
    Nodes = {a, b}
    None = None
    Windows = 3
    MaxSessions = 3
    MaxRetransmits = 1
    Poll = 1
    Refresh = 2
    Expiry = 5
    Faults = 2
    Window = 4
    Grace = 4
    Stall = 2
    Res = 2
    Batch = 2
    Fpp = 3
    Depth = 1
    Wcl = 9
    Slots = 6
    Transit = 0
    Steps <- SomeSteps
    Noise <- SomeNoise
    MaxTicks = 20
    MaxFaults = 2
    AudioWin = 2
    PlayWin = 5
    Escalate = 3
    Silence = Silence
CHECK_DEADLOCK FALSE
INVARIANTS
    TunnelAgrees
PROPERTIES
    TunnelConverges
    NoTear
