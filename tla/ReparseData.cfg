\* One file: a reparse point that is not a symlink, with sparse data.
SPECIFICATION InodesSpec
CONSTANTS
    ClusterSize = 2
    SectorSize = 2
    MaxInline = 2
    MaxExtent = 6
    MaxCompExtent = 4
    MaxItem = 6
    MaxName = 5
    Reserved = 2
    Clusters = 30
    Compression = TRUE
    Crc <- MCCrc
    Width <- MCWidth
    Volumes <- MCDeduplicated
INVARIANT
    ReparseDataKept
\* The inodes are made once.
CHECK_DEADLOCK FALSE
