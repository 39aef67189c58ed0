\* Six segments of 6 clusters of 2 units; the device ends inside a cluster.
SPECIFICATION RollbackSpec
CONSTANTS
    ByteBits = 1
    WordBytes = 1
    ClusterSize = 2
    StripeLen = 2
    Reserved = 4
    DataChunkSize = 12
    SystemChunkSize = 6
    TreeSize = 2
    DeviceSize = 71
    SuperAddrs = {2, 8, 18, 26}
    OrigSize = 71
    BitmapBytes = 36
    MaxRun = 4
    MaxBlocks = 2
    DataLengths = {2, 4}
    Bitmaps <- MCRollbackBitmaps
    Layouts <- MCRollbackLayouts
    Trailing = {0, 1}
INVARIANTS
    Restored
    Accepted
    ImageFaithful
    ExtentsReferenced
    DataAligned
PROPERTY
    NeverUndone
\* Both programs end.
CHECK_DEADLOCK FALSE
