\* Twenty-five segments of 12 units, up to sixteen of them with clusters in use; a leaf takes
\* items of 4 together and a node 3 pointers.
SPECIFICATION TreeSpec
CONSTANTS
    ByteBits = 2
    WordBytes = 2
    ClusterSize = 1
    StripeLen = 2
    Reserved = 4
    DataChunkSize = 12
    SystemChunkSize = 6
    TreeSize = 2
    DeviceSize = 300
    SuperAddrs = {2, 6, 18}
    DataLengths = {3}
    LeafSpace = 4
    NodePtrs = 3
    MaxSysChunks = 2
    Bitmaps <- MCBitmaps
    Contents <- MCContents
INVARIANTS
    MetadataItemsExact
    ItemsFound
    Bootable
    UsedByTrees
PROPERTY
    Settles
\* The trees are laid out once.
CHECK_DEADLOCK FALSE
