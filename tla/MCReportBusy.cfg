SPECIFICATION FairSpec
CONSTANTS
    w1 = w1
    w2 = w2
    up = up
    a = a
    Workers <- OneWorker
    States <- TwoStates
    Released = up
    Unknown = Unknown
    Emits <- KeyboardAndMouse
    Deltas <- OneStep
    DeltaMin = 0
    DeltaMax = 2
    REPORT_CAP = 1
INVARIANTS
    NoLostWakeup
    TravelIsPreserved
PROPERTIES
    EndpointsTakeTurns
    RestingStateArrives
