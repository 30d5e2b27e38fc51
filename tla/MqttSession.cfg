SPECIFICATION Spec
CONSTANTS
    LastId = 4
    Budget = 3
    EarlyAcks = 1
    MaxCounter = 9
    MaxSequence = 9
    Interval = 1
    Deadline = 1
    BootstrapSteps = 2
    RefreshInterval = 1
    RejectsMax = 2
    MaxSkips = 1
    MaxPackets = 5
    MaxConnects = 2
    MaxTime = 2
INVARIANT ProofSound
CHECK_DEADLOCK FALSE
