\* One file: a cluster, and a hole of more clusters than are reserved, in which its valid
\* data ends.
SPECIFICATION InodesSpec
CONSTANTS
    ClusterSize = 2
    SectorSize = 2
    MaxInline = 2
    MaxExtent = 6
    MaxCompExtent = 4
    MaxItem = 6
    MaxName = 5
    Reserved = 2
    Clusters = 30
    Compression = TRUE
    Crc <- MCCrc
    Width <- MCWidth
    Volumes <- MCEndsInHole
INVARIANT
    NtfsIntact
\* The inodes are made once.
CHECK_DEADLOCK FALSE
