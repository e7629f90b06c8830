SPECIFICATION Spec
CONSTANTS
    s1 = s1
    c1 = c1
    v1 = v1
    NoValue = NoValue
    Streams <- OneStream
    Classes <- OneClass
    Payload <- OnePayload
    MaxRecords <- Roomy
    MaxPdu = 1500
    RedeclareRegisteredListeners = FALSE
    SuppressLeaveAll = FALSE
    OwnAttr <- TalkerOwn
    PeerAttr <- TalkerPeer
    Decl = {"AskingFailed", "Ready"}
    Batch = 1
INVARIANTS
    PortAgrees
    LeaveAllAnswered
    LeaveAllRedeclares
PROPERTIES
    OnlyPeerRetires
