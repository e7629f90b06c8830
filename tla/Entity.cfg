SPECIFICATION EntitySpec
CONSTANTS
    TalkerStreams = {s1}
    Masters = {m1, m2}
    NoMaster = NoMaster
    Unset = Unset
    MaxChanges = 4
    MaxAcquired = 2
    s1 = s1
    cls = cls
    v1 = v1
    NoValue = NoValue
    Streams <- OneStream
    Classes <- OneClass
    Payload <- OnePayload
    MaxRecords <- Roomy
    MaxPdu = 1500
    RedeclareRegisteredListeners = FALSE
    SuppressLeaveAll = FALSE
    Roles = {"listener", "talker"}
    PeerDecl = {"AskingFailed", "Ready"}
    PeerEvent = {"JoinIn", "Mt", "Lv"}
    Grace = 2
CHECK_DEADLOCK FALSE
INVARIANTS
    HostAgrees
    
PROPERTIES
    InitResolves
    FollowsRegistrations
