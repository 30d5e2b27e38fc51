SPECIFICATION MCSpec
INVARIANTS OutputSound AlarmsSound BusSound
PROPERTIES OutputReturns ChargesAgain
CONSTANTS
    Debounce = 2
    Ids = 2
    Asks = {1, 4}
    MaxCommands = 2
    MaxPartners = 2
    MaxMessages = 3
    MaxFaults = 1
    MaxGlitches = 1
    FaultHold = 1
    MaxWedges = 1
    EventTrips = 2
CHECK_DEADLOCK FALSE
