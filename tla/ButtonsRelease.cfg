SPECIFICATION ButtonsSpec
CONSTANTS
    Button = {select}
    DEBOUNCE = 3
    BOUNCE = 2
    BUTTON_CAP = 1
INVARIANT WaitsForOwnRelease
