SPECIFICATION LinkSpec
CONSTANTS
    Peripheral <- Devices
    Payload <- Payloads
    MAX_REPORTS = 3
    w1 = w1
    w2 = w2
    num = num
    caps = caps
    unused = unused
    Workers <- TwoWorkers
    Bits <- AllBits
    DEFINED <- TwoLeds
    NotSet = NotSet
INVARIANTS
    MouseReportsGetThrough
