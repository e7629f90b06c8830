SPECIFICATION ClocksSpec
CONSTANTS
    Errors <- MixedErrors
    NoError = NoError
    SyncStep = 2
    JumpThreshold = 1
    JumpSamples = 3
    Masters = {m1, m2}
    NoMaster = NoMaster
    SeqMod = 2
    LostThreshold = 2
    Delays <- NoDelay
    DelayThreshold = 1
    Ratios = {r1}
    UnitRatio = r1
    PdelayActive = FALSE
    CapInitial = TRUE
    Verify = TRUE
    Timelines = {1, 2}
    WindowSize = 4
    MinSamples = 3
    Environments <- SomeEnvironments
    MaxEvents = 2
CHECK_DEADLOCK FALSE
INVARIANTS
    OneMasterPerSample
    EpochsAgree
PROPERTIES
    ServoDisciplines
    EpochGuardsTimeline
    TimerLives
