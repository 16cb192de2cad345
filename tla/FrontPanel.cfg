SPECIFICATION FrontFairSpec
CONSTANTS
    SECOND = 2
    IDLE_TIMEOUT_SECS = 1
    SCREEN_AUTO_OFF_TIMEOUT_SECS = 2
    SCREEN_AUTO_OFF_ENABLED = TRUE
    Name = {n1}
    NoName = NoName
    NoCommand = NoCommand
    MaxRows = 2
    ROWS_SHOWN = 1
INVARIANTS
    LowPowerIsDeserved
    PictureIsCurrent
PROPERTIES
    DarkensOnlyUnused
    TypingLights
    SuspendDarkens
    UnusedDarkens
