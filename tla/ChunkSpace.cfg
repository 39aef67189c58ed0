\* Three whole segments.
SPECIFICATION Spec
CONSTANTS
    ByteBits = 2
    WordBytes = 2
    ClusterSize = 1
    StripeLen = 2
    Reserved = 4
    DataChunkSize = 12
    SystemChunkSize = 6
    TreeSize = 2
    DeviceSize = 36
    SuperAddrs = {2, 6, 18}
    Bitmaps <- MCWholeBitmaps
    DataLengths = {3, 12}
INVARIANTS
    TypeOK
    NoOverwrite
    AllocationsDisjoint
    AvoidsSuperblocks
    InsideChunk
    DataChunksAtSegments
    UsedMatches
    NothingLost
\* The converter calls the allocators a finite number of times.
CHECK_DEADLOCK FALSE
