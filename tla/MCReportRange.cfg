SPECIFICATION Spec
CONSTANTS
    w1 = w1
    w2 = w2
    up = up
    a = a
    Workers <- OneWorker
    States <- TwoStates
    Released = up
    Unknown = Unknown
    Emits <- OneMouse
    Deltas <- FarLeft
    DeltaMin <- I8
    DeltaMax = 127
    REPORT_CAP = 1
INVARIANTS
    WithinLogicalRange
