\* Clusters of one sector.  Extents hold three clusters, and two if they are compressed.
SPECIFICATION InodesSpec
CONSTANTS
    ClusterSize = 2
    SectorSize = 2
    MaxInline = 2
    MaxExtent = 6
    MaxCompExtent = 4
    MaxItem = 6
    MaxName = 5
    Reserved = 2
    Clusters = 30
    Compression = TRUE
    Crc <- MCCrc
    Width <- MCWidth
    Volumes <- MCVolumes
INVARIANTS
    FilesReadAsBefore
    NtfsIntact
    LinksConsistent
    TreeConnected
    NamesKept
    XattrsKept
    KindsAgree
PROPERTY
    Completes
\* The inodes are made once.
CHECK_DEADLOCK FALSE
