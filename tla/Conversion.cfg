\* Six segments of 12 clusters, the last one a cluster short, and a last sector that
\* is not whole.
SPECIFICATION ConvSpec
CONSTANTS
    ByteBits = 1
    WordBytes = 1
    ClusterSize = 1
    StripeLen = 2
    Reserved = 4
    DataChunkSize = 12
    SystemChunkSize = 6
    TreeSize = 2
    DeviceSize = 71
    SuperAddrs = {2, 6, 18}
    OrigSize = 72
    BitmapBytes = 80
    MaxRun = 4
    MaxBlocks = 2
    DataLengths = {3, 10}
    Bitmaps <- MCBitmaps
    Layouts <- MCLayouts
INVARIANTS
    RunsOrdered
    FilesFaithful
    ExtentsReferenced
    UsedAccounted
    ChecksumsHold
PROPERTIES
    SwitchesOver
    Finishes
\* The converter ends.
CHECK_DEADLOCK FALSE
