SPECIFICATION Spec
CONSTANTS
    Talkers = {t1, t2}
    Sinks = {s1, s2}
    Indices = {s1, s2, s3}
    Controllers = {c1}
    Self = self
    NoTalker = NoTalker
    MaxListeners = 2
    MaxInflight = 1
    SeqSpace = 2
    MaxCommands = 2
    MaxFaults = 1
INVARIANTS
    ReservationReleased
