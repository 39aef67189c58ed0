\* A last segment that stops short of a word, a byte and a stripe.
SPECIFICATION Spec
CONSTANTS
    ByteBits = 2
    WordBytes = 4
    ClusterSize = 1
    StripeLen = 4
    Reserved = 8
    DataChunkSize = 16
    SystemChunkSize = 12
    TreeSize = 4
    DeviceSize = 47
    SuperAddrs = {4, 8, 20}
    Bitmaps <- MCRaggedBitmaps
    DataLengths = {3}
INVARIANT
    NoOverwriteAtAll
\* The converter calls the allocators a finite number of times.
CHECK_DEADLOCK FALSE
