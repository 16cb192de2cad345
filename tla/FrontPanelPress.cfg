SPECIFICATION FrontSpec
CONSTANTS
    SECOND = 1
    IDLE_TIMEOUT_SECS = 1
    SCREEN_AUTO_OFF_TIMEOUT_SECS = 2
    SCREEN_AUTO_OFF_ENABLED = TRUE
    Name = {n1, n2}
    NoName = NoName
    NoCommand = NoCommand
    MaxRows = 3
    ROWS_SHOWN = 2
PROPERTY NoBlindPress
