SPECIFICATION FairSpec
PROPERTIES UnplugDropsRail
CONSTANTS
    Debounce = 2
    Ids = 2
    Asks = {1, 4}
    MaxCommands = 0
    MaxPartners = 1
    MaxMessages = 2
    MaxFaults = 0
    MaxGlitches = 0
CHECK_DEADLOCK FALSE
