SPECIFICATION StorageSpec
CONSTANTS
    kb = kb
    mouse = mouse
    pad = pad
    NoBond = NoBond
    Device <- ThreeDevices
    Rotating <- Keyboard
    MAX_PAIRED_DEVICES = 3
    MAX_CONNECTIONS = 2
    FLASH_WRITE_ATTEMPTS = 2
    MaxRotations = 1
    MaxPairings = 3
    MAX_RECORD_SIZE = 28
    STORE_CAP = 3
    NAME_CAP = 2
    ADDR_BYTES = 1
    KEY_BYTES = 1
    IRK_BYTES = 1
    Caches <- SmallCaches
SYMMETRY OthersAlike
INVARIANTS
    CleanMeansSaved
    RecordsAreConsistent
    SteadyDevicesComeBack
    LoadsWhatWasSaved
    OlderRecordsComeBack
PROPERTIES
    PersistedBondIsCurrent
