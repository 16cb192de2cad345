SPECIFICATION MCFairSpec
CONSTANTS
    a1 = a1
    a2 = a2
    NoAddress = NoAddress
    NoName = NoName
    NoCommand = NoCommand
    Address <- TwoAddresses
    SlotErrorTag <- OneError
    Irk <- NoIrk
    MaxPresses = 4
    MaxRows = 1
    MAX_CONNECTIONS = 2
    BLE_MAX_DISCOVERED = 1
    BLE_CMD_CAP = 4
    BLE_EVENT_CAP = 2
    SLOT_CMD_CAP = 2
    SLOT_EVENT_CAP = 8
PROPERTIES
    ScanningEnds
CHECK_DEADLOCK FALSE
