SPECIFICATION Spec
CONSTANTS
    Errors = {0}
    NoError = NoError
    SyncStep = 4
    JumpThreshold = 1
    JumpSamples = 2
    Masters = {m1}
    NoMaster = NoMaster
    SeqMod = 2
    LostThreshold = 2
    Delays = {0, 2}
    DelayThreshold = 1
    Ratios = {r1}
    UnitRatio = r1
    PdelayActive = TRUE
    CapInitial = FALSE
    Verify = TRUE
INVARIANTS
    UsablePortReceives
