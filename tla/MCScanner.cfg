SPECIFICATION InputSpec
CONSTANTS
    p1 = p1
    p2 = p2
    p3 = p3
    Address <- ThreePeripherals
    Profiles <- AllProfiles
    NAME_CAP = 2
    BLE_MAX_DISCOVERED = 2
    BLE_SCAN_DURATION_SECS = 1
    BACKSTOP_SECS = 1
    BLE_EVENT_CAP = 1
    Button = {up, select}
    DEBOUNCE = 3
    BOUNCE = 2
    BUTTON_CAP = 1
INVARIANTS
    FoundIsHeard
PROPERTIES
    ListensForTheWindow
    DiscoverySpec
    OneEventPerPress
    HeldPressIsHeard
