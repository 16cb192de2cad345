SPECIFICATION Spec
CONSTANTS
    a1 = a1
    a2 = a2
    a3 = a3
    NoAddress = NoAddress
    Address <- ThreeAddresses
    SlotErrorTag <- OneError
    Irk <- Rotating
    MAX_CONNECTIONS = 2
    BLE_MAX_DISCOVERED = 1
    BLE_CMD_CAP = 1
    BLE_EVENT_CAP = 1
    SLOT_CMD_CAP = 1
    SLOT_EVENT_CAP = 8
SYMMETRY PairSymmetry
INVARIANTS
    TypeOK
    OneOwner
    TableFollowsLinks
    NoDuplicateLink
    ConnectNeverSupersedes
    SlotEventsFit
    IInv
PROPERTIES
    LifecycleSpec
