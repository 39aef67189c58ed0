\* Clusters of two sectors; one file, whose valid data ends in the first of them.
SPECIFICATION InodesSpec
CONSTANTS
    ClusterSize = 4
    SectorSize = 2
    MaxInline = 2
    MaxExtent = 6
    MaxCompExtent = 4
    MaxItem = 6
    MaxName = 5
    Reserved = 2
    Clusters = 30
    Compression = TRUE
    Crc <- MCCrc
    Width <- MCWidth
    Volumes <- MCEndsInCluster
INVARIANT
    FilesReadAsBefore
\* The inodes are made once.
CHECK_DEADLOCK FALSE
