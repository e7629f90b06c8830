SPECIFICATION MCSpec
CONSTANTS
    s1 = s1
    s2 = s2
    c1 = c1
    v1 = v1
    v2 = v2
    v3 = v3
    NoValue = NoValue
    Streams <- TwoStreams
    Classes <- OneClass
    Payload <- TwoPayloads
    MaxRecords <- Roomy
    MaxPdu = 1500
    RedeclareRegisteredListeners = TRUE
    SuppressLeaveAll = FALSE
    OwnAttr <- SharedAttr
    PeerAttr <- SharedAttr
    Decl = {"Ready"}
    Batch = 1
    LastVid = 2
    MaxVlans = 2
    MaxSlots = 2
    MaxVector = 1
SYMMETRY EitherPayload
INVARIANTS
    TablesAgree
PROPERTIES
    OwnValueKept
