SPECIFICATION SimFairSpec
CONSTANTS
    Keyboard = keyboard
    Mouse = mouse
    Address = {keyboard, mouse}
    NoAddress = NoAddress
    NoName = NoName
    NoCommand = NoCommand
    MAX_CONNECTIONS = 2
    MaxRows = 8
    TICK = 2
    PERIOD = 3
    BUTTON_CAP = 4
    MaxPushes = 0
PROPERTY StimuliNavigate
