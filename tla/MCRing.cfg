SPECIFICATION RingSpec
CONSTANTS
    a1 = a1
    a2 = a2
    a3 = a3
    a4 = a4
    a5 = a5
    a6 = a6
    a7 = a7
    a8 = a8
    NoAddress = NoAddress
    NoName = NoName
    NoCommand = NoCommand
    Address <- EightAddresses
    SlotErrorTag <- OneError
    Irk <- NoIrk
    MaxPresses = 6
    MaxRows = 8
    MAX_CONNECTIONS = 2
    BLE_MAX_DISCOVERED = 8
    BLE_CMD_CAP = 4
    BLE_EVENT_CAP = 8
    SLOT_CMD_CAP = 2
    SLOT_EVENT_CAP = 8
CHECK_DEADLOCK FALSE
INVARIANT NobodyWaitsOnEachOther
