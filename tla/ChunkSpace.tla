----------------------------- MODULE ChunkSpace -----------------------------
(***************************************************************************)
(* Where the converter may write.  create_data_chunks turns the NTFS       *)
(* bitmap into Btrfs data chunks whose free space is what NTFS does not    *)
(* use; allocate_data and allocate_metadata take space from the chunks and *)
(* make new ones from the rest of the device.  The superblock mirrors and  *)
(* the first megabyte are kept out of all of them.                         *)
(*                                                                         *)
(* Addresses and lengths count units of the device.  A virtual address is  *)
(* the disk address plus chunk_virt_offset everywhere in this program, so  *)
(* only the disk address is kept.  chunks_changed, which the allocators    *)
(* set, is the growth of the sequence chunks.                              *)
(***************************************************************************)
EXTENDS Bitmap, Space, Sequences

CONSTANTS
    ClusterSize,        \* of the NTFS volume
    StripeLen,          \* stripe_length: what a superblock keeps for itself
    Reserved,           \* reserved_area: the first megabyte
    DataChunkSize,      \* data_chunk_size, and the size of a metadata chunk
    SystemChunkSize,    \* the size of a system chunk
    TreeSize,           \* tree_size
    DeviceSize,         \* device_size, whole sectors
    SuperAddrs,         \* btrfs_superblock_addrs
    Bitmaps,            \* the contents of $Bitmap to be considered, each the
                        \* set of addresses of the clusters in use
    DataLengths         \* the lengths that rewritten files ask for

ASSUME ChunkSpaceAssumption ==
    /\ ClusterSize \in Nat \ {0} /\ StripeLen \in Nat \ {0}
    /\ Reserved \in Nat /\ DeviceSize \in Nat /\ TreeSize \in Nat \ {0}
    /\ DataChunkSize \in Nat /\ SystemChunkSize \in Nat
    /\ Reserved <= DeviceSize       \* "Device too small for conversion."
    /\ Reserved + StripeLen <= SystemChunkSize
    /\ SystemChunkSize <= DataChunkSize
    /\ DataChunkSize % StripeLen = 0
    /\ Reserved % StripeLen = 0
    /\ SuperAddrs \subseteq Nat
    /\ Bitmaps \subseteq SUBSET Nat
    /\ DataLengths \subseteq Nat \ {0}

VARIABLES
    in_use,     \* the addresses of the clusters $Bitmap says are in use
    phase,      \* how far convert has come
    seg,        \* the number of the segment create_data_chunks is at
    space_list, \* the space outside all chunks
    chunks,     \* the chunks, in order of creation
    allocated   \* history: what the two allocators have returned

vars == <<in_use, phase, seg, space_list, chunks, allocated>>

Lesser(a, b) == IF a < b THEN a ELSE b
Greater(a, b) == IF a < b THEN b ELSE a

-----------------------------------------------------------------------------
(* The segments of the volume that become data chunks. *)

Base(s) == s * DataChunkSize
SegLength(s) == Lesser(DeviceSize - Base(s), DataChunkSize)
ChunkLength(s) == SegLength(s) - (SegLength(s) % StripeLen)

\* No segment is shorter than a stripe: of such a segment create_data_chunks
\* would make a chunk of length 0.
ASSUME LastSegmentAssumption ==
    \A s \in 0 .. DeviceSize : Base(s) < DeviceSize => SegLength(s) >= StripeLen

\* csv: the bytes that stand wholly for clusters of the segment.
Examined(s) == (SegLength(s) \div ClusterSize) \div ByteBits

ClusterAddr(s, k) == Base(s) + k * ClusterSize

\* The set bits among them.
Bits(s) == {k \in 0 .. ByteBits * Examined(s) - 1 : ClusterAddr(s, k) \in in_use}

UsedClusters(s) == ScannedUsed(Bits(s), Examined(s))

\* Variant: the last cluster of a run is left out of it.
UsedSpaceShort(s) ==
    UNION {Extent(ClusterAddr(s, k), ClusterSize) :
              k \in {k \in UsedClusters(s) : k + 1 \in UsedClusters(s)}}

UsedSpace(s) == UNION {Extent(ClusterAddr(s, k), ClusterSize) : k \in UsedClusters(s)}

\* The gaps between the used runs, and what follows the last run up to the end
\* of the chunk.  A gap is not cut at the end of the chunk.
Unused(s) ==
    LET used == UsedClusters(s)
        used_space == UsedSpace(s)
    IN  {u \in Base(s) .. DeviceSize - 1 :
            /\ u \notin used_space
            /\ \/ u < Base(s) + ChunkLength(s)
               \/ \E k \in used : u < ClusterAddr(s, k)}

\* remove_superblocks: the stripes of the superblocks that lie in the chunk.
SuperSpace(start, length) ==
    UNION {Extent(sb, StripeLen) \cap Extent(start, length) : sb \in SuperAddrs}

\* Variant: remove_superblocks is not called.
ChunkOverSuperblocks(start, length, type, free) ==
    [start |-> start, length |-> length, type |-> type, used |-> 0, free |-> free]

\* Variant: only the superblocks themselves are taken out.
ChunkAroundSuperblocks(start, length, type, free) ==
    [start |-> start, length |-> length, type |-> type, used |-> 0,
     free |-> free \ SuperAddrs]

Chunk(start, length, type, free) ==
    [start |-> start, length |-> length, type |-> type, used |-> 0,
     free |-> free \ SuperSpace(start, length)]

\* The chunk of a segment starts after the reserved area.
Shift(s) == IF Base(s) > Reserved THEN 0 ELSE Reserved - Base(s)

SegmentChunk(s) ==
    Chunk(Base(s) + Shift(s), ChunkLength(s) - Shift(s), "data",
          SpaceListRemove(Unused(s), Base(s), Shift(s)))

-----------------------------------------------------------------------------
\* space_list.emplace_back(reserved_area, device_size): the second argument is
\* a length, so the list ends Reserved beyond the device.
Init ==
    /\ in_use \in Bitmaps
    /\ phase = "scan"
    /\ seg = 0
    /\ space_list = Extent(Reserved, DeviceSize)
    /\ chunks = <<>>
    /\ allocated = {}

\* One way round the loop of create_data_chunks.  A segment without a used
\* cluster stays in the space list.
ScanSegment ==
    /\ phase = "scan"
    /\ Base(seg) < DeviceSize
    /\ seg' = seg + 1
    /\ \/ /\ UsedClusters(seg) = {}
          /\ UNCHANGED <<space_list, chunks>>
       \/ /\ UsedClusters(seg) # {}
          /\ space_list' = SpaceListRemove(space_list, Base(seg), ChunkLength(seg))
          /\ chunks' = Append(chunks, SegmentChunk(seg))
    /\ UNCHANGED <<in_use, phase, allocated>>

\* convert goes on: clusters are relocated, then files are rewritten, then the
\* trees are laid out.
NextPhase ==
    /\ \/ phase = "scan" /\ Base(seg) >= DeviceSize /\ phase' = "protect"
       \/ phase = "protect" /\ phase' = "rewrite"
       \/ phase = "rewrite" /\ phase' = "trees"
    /\ UNCHANGED <<in_use, seg, space_list, chunks, allocated>>

-----------------------------------------------------------------------------
(* The two allocators, which differ in the chunks they look at. *)

\* Variant: chunks of any type are looked at.
ChunksOfAnyType(type, length) ==
    {i \in DOMAIN chunks : Fits(chunks[i].free, length) # {}}

ChunksWithRoom(type, length) ==
    {i \in DOMAIN chunks : chunks[i].type = type /\ Fits(chunks[i].free, length) # {}}

FirstWithRoom(type, length) ==
    CHOOSE i \in ChunksWithRoom(type, length) :
        \A j \in ChunksWithRoom(type, length) : i <= j

Allocation(addr, length, type, counted) ==
    [addr |-> addr, length |-> length, type |-> type, counted |-> counted]

\* Variants: the last unit stays in the free list; more than the space is taken
\* out of it; the space is always counted; it is counted down.
TakeLess(c, addr, length, counted) ==
    [c EXCEPT !.free = SpaceListRemove(@, addr, length - 1),
              !.used = IF counted THEN @ + length ELSE @]
TakeMore(c, addr, length, counted) ==
    [c EXCEPT !.free = SpaceListRemove(@, addr, length + 1),
              !.used = IF counted THEN @ + length ELSE @]
TakeCounting(c, addr, length, counted) ==
    [c EXCEPT !.free = SpaceListRemove(@, addr, length), !.used = @ + length]
TakeDown(c, addr, length, counted) ==
    [c EXCEPT !.free = SpaceListRemove(@, addr, length),
              !.used = IF counted THEN @ - length ELSE @]

\* The chunk after an allocation from it.  Only an allocation that is counted
\* adds to used; the others are counted with the runs later.
Take(c, addr, length, counted) ==
    [c EXCEPT !.free = SpaceListRemove(@, addr, length),
              !.used = IF counted THEN @ + length ELSE @]

\* The first entry that is long enough of the first chunk that has one.
FromChunk(type, length, counted) ==
    /\ ChunksWithRoom(type, length) # {}
    /\ LET i == FirstWithRoom(type, length)
           addr == FirstFit(chunks[i].free, length)
       IN  /\ chunks' = [chunks EXCEPT ![i] = Take(@, addr, length, counted)]
           /\ allocated' = allocated \cup {Allocation(addr, length, type, counted)}
    /\ UNCHANGED <<in_use, phase, seg, space_list>>

\* Otherwise a new chunk is made of the first entry of the space list that is
\* long enough.  If the superblocks leave no room in it the program gives up.
NewChunk(type, size, length, counted) ==
    /\ ChunksWithRoom(type, length) = {}
    /\ Fits(space_list, size) # {}
    /\ LET start == FirstFit(space_list, size)
           c == Chunk(start, size, type, Extent(start, size))
           addr == FirstFit(c.free, length)
       IN  /\ space_list' = SpaceListRemove(space_list, start, size)
           /\ \/ /\ Fits(c.free, length) # {}
                 /\ chunks' = Append(chunks, Take(c, addr, length, counted))
                 /\ allocated' = allocated \cup {Allocation(addr, length, type, counted)}
                 /\ UNCHANGED phase
              \/ /\ Fits(c.free, length) = {}
                 /\ chunks' = Append(chunks, c)
                 /\ phase' = "failed"
                 /\ UNCHANGED allocated
    /\ UNCHANGED <<in_use, seg>>

\* chunk_error_message
NoSpace(type, size, length) ==
    /\ ChunksWithRoom(type, length) = {}
    /\ Fits(space_list, size) = {}
    /\ phase' = "failed"
    /\ UNCHANGED <<in_use, seg, space_list, chunks, allocated>>

Allocate(type, size, length, counted) ==
    \/ FromChunk(type, length, counted)
    \/ NewChunk(type, size, length, counted)
    \/ NoSpace(type, size, length)

\* Variant: the new chunk has the size of a system chunk.
AllocateDataSmall(length, change_used) ==
    Allocate("data", SystemChunkSize, length, change_used)

\* allocate_data(length, change_used)
AllocateData(length, change_used) ==
    Allocate("data", DataChunkSize, length, change_used)

\* allocate_metadata: the blocks of the chunk tree go to system chunks, all
\* others to metadata chunks.
AllocateMetadata(system_chunk) ==
    IF system_chunk
    THEN Allocate("system", SystemChunkSize, TreeSize, TRUE)
    ELSE Allocate("metadata", DataChunkSize, TreeSize, TRUE)

Next ==
    \/ ScanSegment
    \/ NextPhase
    \/ phase = "protect" /\ AllocateData(ClusterSize, FALSE)
    \/ phase = "rewrite" /\ \E length \in DataLengths : AllocateData(length, TRUE)
    \/ phase = "trees" /\ \E system_chunk \in BOOLEAN : AllocateMetadata(system_chunk)

Spec == Init /\ [][Next]_vars

-----------------------------------------------------------------------------
Types == {"data", "metadata", "system"}
Chunks == [start : Nat, length : Nat, type : Types, used : Nat, free : SUBSET Nat]

\* Type invariant.
TypeOK ==
    /\ in_use \in Bitmaps
    /\ phase \in {"scan", "protect", "rewrite", "trees", "failed"}
    /\ seg \in Nat
    /\ space_list \subseteq Nat
    /\ chunks \in Seq(Chunks)
    /\ allocated \subseteq [addr : Nat, length : Nat \ {0}, type : Types,
                            counted : BOOLEAN]

\* The clusters in use whose bits are read as part of a word: the scan puts
\* these where they are.
LocatedIn(s) ==
    {ClusterAddr(s, k) : k \in WordClusters(Examined(s))} \cap in_use

Located == UNION {LocatedIn(s) : s \in {t \in 0 .. DeviceSize : Base(t) < DeviceSize}}

ClusterSpace(addrs) == UNION {Extent(c, ClusterSize) : c \in addrs}

Granted == UNION {Extent(a.addr, a.length) : a \in allocated}

\* What was allocated for files and trees; space for relocated clusters is counted
\* with their runs.
Counted == UNION {Extent(a.addr, a.length) : a \in {b \in allocated : b.counted}}

\* No allocation touches a cluster NTFS uses, for every cluster of every volume
\* that the bitmap scan puts in the right place: the old file system stays whole
\* while the new one is written into its gaps.
NoOverwrite == Granted \cap ClusterSpace(Located) = {}

\* The same for every cluster in use, whatever the size of the volume.
NoOverwriteAtAll ==
    Granted \cap ClusterSpace({c \in in_use : c + ClusterSize <= DeviceSize}) = {}

\* No unit is handed out twice, by either allocator, from any two chunks.
AllocationsDisjoint ==
    \A a, b \in allocated :
        a # b => Extent(a.addr, a.length) \cap Extent(b.addr, b.length) = {}

\* No allocation touches the reserved area or a superblock: write_superblocks
\* and clear_first_cluster overwrite these after everything else is written.
AvoidsSuperblocks ==
    Granted \cap (Extent(0, Reserved) \cup SuperSpace(0, DeviceSize)) = {}

\* Every allocation lies within one chunk of its type, so that its virtual
\* address means something to Btrfs.
InsideChunk ==
    \A a \in allocated : \E i \in DOMAIN chunks :
        /\ chunks[i].type = a.type
        /\ Extent(a.addr, a.length) \subseteq Extent(chunks[i].start, chunks[i].length)

\* The runs of relocated and rewritten data are filed under the segment they lie
\* in, and calc_used_space and calc_checksums look for the chunk that starts where
\* that segment does: a data chunk made later must start there too.
DataChunksAtSegments ==
    \A i \in DOMAIN chunks :
        chunks[i].type = "data" =>
            chunks[i].start = Reserved \/ chunks[i].start % DataChunkSize = 0

\* Data starts on a cluster: relocations and the runs of rewritten files keep the
\* number of the cluster, the address divided by the size of a cluster.
DataAligned == \A a \in allocated : a.type = "data" => a.addr % ClusterSize = 0

\* What a chunk counts as used is what was allocated from it and counted.
UsedMatches ==
    \A i \in DOMAIN chunks :
        chunks[i].used =
            Cardinality(Counted \cap Extent(chunks[i].start, chunks[i].length))

\* Nothing is lost or promised twice: once the segments are scanned a unit of the
\* device after the reserved area is free outside the chunks, or free in one chunk, or
\* allocated, or in use by NTFS, or a superblock's.
NothingLost ==
    phase # "scan" =>
        \A u \in Reserved .. DeviceSize - 1 :
            LET InChunk == {i \in DOMAIN chunks :
                              u \in Extent(chunks[i].start, chunks[i].length)}
                Free == {i \in DOMAIN chunks : u \in chunks[i].free}
                Taken == u \in Granted \cup ClusterSpace(in_use) \cup SuperSpace(0, DeviceSize)
            IN  IF u \in space_list
                THEN InChunk = {} /\ u \notin Granted
                ELSE /\ Cardinality(InChunk) = 1
                     /\ Free = IF Taken THEN {} ELSE InChunk

-----------------------------------------------------------------------------
(* The inductive invariant behind NoOverwrite and AllocationsDisjoint.     *)

\* The part of the space list a chunk can be made of.  What create_data_chunks
\* leaves at the end of the device, where the list also goes on past the device,
\* may be in use; it is always shorter than a chunk.
Usable(free) == UNION {Extent(a, SystemChunkSize) : a \in Fits(free, SystemChunkSize)}

SegmentsDone == {s \in 0 .. DeviceSize : s < seg /\ Base(s) < DeviceSize}

NtfsKept ==
    \A s \in SegmentsDone :
        /\ Usable(space_list) \cap ClusterSpace(LocatedIn(s)) = {}
        /\ \A i \in DOMAIN chunks : chunks[i].free \cap ClusterSpace(LocatedIn(s)) = {}
        /\ Granted \cap ClusterSpace(LocatedIn(s)) = {}

\* While the segments are scanned the chunks lie below the segment that is next.
ScanProgress ==
    /\ space_list \subseteq Extent(Reserved, DeviceSize)
    /\ phase = "scan" =>
         /\ allocated = {}
         /\ \A i \in DOMAIN chunks : \A u \in chunks[i].free : u < Base(seg)
    /\ phase # "scan" => Base(seg) >= DeviceSize

FreeApart ==
    /\ \A i \in DOMAIN chunks : chunks[i].free \cap Usable(space_list) = {}
    /\ \A i \in DOMAIN chunks : chunks[i].free \cap Granted = {}
    /\ Usable(space_list) \cap Granted = {}
    /\ \A i, j \in DOMAIN chunks : i # j => chunks[i].free \cap chunks[j].free = {}

IInv == TypeOK /\ ScanProgress /\ NtfsKept /\ FreeApart /\ AllocationsDisjoint

=============================================================================
