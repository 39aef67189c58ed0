\* Six segments of 6 clusters of 2 units; the device ends inside a cluster,
\* and the copy of the boot sector follows it.
SPECIFICATION RollbackSpec
CONSTANTS
    ByteBits = 1
    WordBytes = 1
    ClusterSize = 2
    StripeLen = 2
    Reserved = 4
    DataChunkSize = 12
    SystemChunkSize = 6
    TreeSize = 2
    DeviceSize = 71
    SuperAddrs = {2, 8, 18, 26}
    OrigSize = 71
    BitmapBytes = 36
    MaxRun = 4
    MaxBlocks = 2
    DataLengths = {2, 4}
    Bitmaps <- MCBootBitmaps
    Layouts <- MCBootLayouts
    Trailing = {1}
INVARIANT
    BackupBootKept
\* Both programs end.
CHECK_DEADLOCK FALSE
