SPECIFICATION Spec
CONSTANTS
    w1 = w1
    w2 = w2
    up = up
    a = a
    Workers <- OneWorker
    States <- TwoStates
    Released = up
    Unknown = Unknown
    Emits <- Everything
    Deltas <- Still
    DeltaMin <- Small
    DeltaMax = 2
    REPORT_CAP = 2
INVARIANTS
    KeysNeverStick
