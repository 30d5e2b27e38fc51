SPECIFICATION FairSpec
CONSTANTS
    Capacity = 3
    CriticalReserve = 1
    CriticalBurst = 1
    ReceiptSlots = 1
    Keys = {1}
    ItemTTL = 2
    SnapshotTTL = 1
    RetryDelay = 1
    MaxToken = 4
    MaxTime = 3
INVARIANT QueueSound
PROPERTY ReceiptsSettle
