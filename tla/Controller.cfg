SPECIFICATION CtlSpec
CONSTANTS
    Talkers = {t1, t2}
    Sinks = {s1, s2}
    Indices = {s1, s2, s3}
    Controllers = {c1}
    Self = self
    NoTalker = NoTalker
    MaxListeners = 2
    MaxInflight = 1
    SeqSpace = 2
    MaxCommands = 2
    MaxFaults = 1
    Watched = p
    Advertised = {p, q}
    IndexMod = 2
    MaxAdpdus = 1
    MaxEntities = 1
    MaxAemInflight = 2
    DescriptorCounts <- MCCounts
    Answering = {"Entity", "Configuration", "Stream", "Locale", "Strings"}
    MaxIndex = 1
    MaxEvents = 2
    Posters = {w1, w2}
    PipeCapacity = 2
    SinkSize = 1
    MaxTasks = 2
INVARIANTS
    ControllerAgrees
    
PROPERTIES
    TakenUpIsAnswered
    FastConnectHeals
    
