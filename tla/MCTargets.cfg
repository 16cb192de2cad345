SPECIFICATION TargetSpec
CONSTANTS
    a1 = a1
    a2 = a2
    NoAddress = NoAddress
    NoName = NoName
    NoCommand = NoCommand
    Address <- TwoAddresses
    SlotErrorTag <- OneError
    Irk <- NoIrk
    MaxPresses = 3
    MaxRows = 2
    MAX_CONNECTIONS = 2
    BLE_MAX_DISCOVERED = 2
    BLE_CMD_CAP = 4
    BLE_EVENT_CAP = 2
    SLOT_CMD_CAP = 2
    SLOT_EVENT_CAP = 8
    Keyboard = keyboard
    Mouse = mouse
    TICK = 2
    PERIOD = 3
    BUTTON_CAP = 4
    MaxPushes = 4
SYMMETRY Symmetry2
CHECK_DEADLOCK FALSE
INVARIANTS
    StatusIsTruthful
    ScreenIsTruthful
    ListIsCurrent
    ScanningIsExplained
    ScriptRunsAsWritten
