----------------------------- MODULE Conversion -----------------------------
(***************************************************************************)
(* convert, from the reading of the bitmap to the last write: which bytes  *)
(* of the device change when, and what the Btrfs metadata says of them.    *)
(*                                                                         *)
(* The device is kept unit by unit, each unit holding what was read or     *)
(* written there: the NTFS data it started with, the data of a rewritten   *)
(* file, a tree block, a superblock or zeroes.  Space comes from           *)
(* ChunkSpace, whose steps the actions here take along with their own.     *)
(* No action writes to the device more than once, so that a crash between  *)
(* any two writes of the program is a state of the model.                  *)
(***************************************************************************)
EXTENDS ChunkSpace, Runs, SequencesExt, FiniteSetsExt

CONSTANTS
    OrigSize,       \* orig_device_size: one more than DeviceSize if there is a
                    \* sector that is not whole, which is a unit here
    BitmapBytes,    \* the length of $Bitmap
    Layouts,        \* the files of the volumes to be considered, see File
    MaxRun,         \* max_run: the units that one EXTENT_CSUM item may cover
    MaxBlocks       \* bound: how many tree blocks are allocated in system chunks,
                    \* and how many in metadata chunks

ASSUME ConversionAssumption ==
    /\ OrigSize \in {DeviceSize, DeviceSize + 1}
    /\ BitmapBytes \in Nat /\ MaxBlocks \in Nat
    /\ MaxRun \in Nat /\ MaxRun >= ClusterSize
    /\ DataChunkSize % ClusterSize = 0

\* The files of a volume, see Mapped and Rewritten below.
Files == [inode : Nat \ {0}, mappings : SUBSET [vcn : Nat, lcn : Nat, length : Nat \ {0}],
          pos : Nat, length : Nat]

ASSUME LayoutsAssumption ==
    /\ Layouts \subseteq Seq(Files)
    /\ \A layout \in Layouts : \A i \in DOMAIN layout :
          layout[i].mappings = {} => layout[i].length \in DataLengths

VARIABLES
    step,           \* what convert is doing
    todo,           \* what is left of the loop it is in
    disk,           \* what each unit of the device holds
    runs,           \* the entries of each segment
    relocs,         \* the relocations, each of one cluster
    run_used,       \* the part of the "used" of each chunk that comes from runs
    filed,          \* the pieces of the file at hand that have entries of their own
    files,          \* the files of the volume, in order of inode
    fs_extents,     \* the EXTENT_DATA items of the files
    img_extents,    \* the EXTENT_DATA items of ntfs.img
    extent_items,   \* the EXTENT_ITEMs of data
    runs2,          \* the runs that are to be summed, as calc_checksums joins them
    csums           \* the EXTENT_CSUM items, each with what was on the device when
                    \* it was made

memory == <<runs, relocs, run_used, filed, fs_extents, img_extents, extent_items, runs2, csums>>
cvars == <<step, todo, disk, files, memory>>

(***************************************************************************)
(* A file is a record with its inode and its mappings, the records         *)
(* [vcn, lcn, length] of its data runs in clusters; or, for data that has  *)
(* to be rewritten (compressed or resident), one extent of it: its inode,  *)
(* no mappings, and the position and length of the extent in units.        *)
(***************************************************************************)
Mapped(inode, mappings) ==
    [inode |-> inode, mappings |-> mappings, pos |-> 0, length |-> 0]
Rewritten(inode, pos, length) ==
    [inode |-> inode, mappings |-> {}, pos |-> pos, length |-> length]

ClustersPerChunk == DataChunkSize \div ClusterSize
SegmentOf(k) == k \div ClustersPerChunk
Segments == 0 .. (DeviceSize + Reserved) \div DataChunkSize

Ntfs(u) == <<"ntfs", u>>
Data(inode, pos) == <<"data", inode, pos>>
Tree == <<"tree">>
Super == <<"super">>
Zero == <<"zero">>

\* dev.write, with the units of content from addr on.  What follows the end of the
\* device is not written.
Written(addr, content) ==
    [u \in DOMAIN disk |-> IF u - addr \in DOMAIN content THEN content[u - addr] ELSE disk[u]]

\* The address the allocator has just returned.
Returned == (CHOOSE a \in allocated' \ allocated : TRUE).addr

-----------------------------------------------------------------------------
ConvInit ==
    /\ Init
    /\ files \in Layouts
    /\ step = "scan"
    /\ todo = <<>>
    /\ disk = [u \in 0 .. OrigSize - 1 |-> Ntfs(u)]
    /\ runs = [s \in Segments |-> <<>>]
    /\ relocs = <<>>
    /\ run_used = [i \in 1 .. DeviceSize \div SystemChunkSize |-> 0]
    /\ filed = {}
    /\ fs_extents = {} /\ img_extents = {} /\ extent_items = {}
    /\ runs2 = <<>>
    /\ csums = {}

Scan == step = "scan" /\ ScanSegment /\ UNCHANGED cvars

-----------------------------------------------------------------------------
(* parse_data_bitmap, protect_superblocks and calc_used_space. *)

\* The clusters the bitmap says are in use, as far as the device goes.
ClustersInUse ==
    {k \in ScannedUsed({j \in 0 .. ByteBits * BitmapBytes - 1 : j * ClusterSize \in in_use},
                       BitmapBytes) : k * ClusterSize < OrigSize}

\* Variant: only the stripes of the superblocks are protected.
ToProtectMirrors ==
    Ascending({k \in 0 .. DeviceSize \div ClusterSize :
                 Extent(k * ClusterSize, ClusterSize) \cap SuperSpace(0, DeviceSize) # {}})

\* The clusters that protect_superblocks moves, in its order: those of the mirrors,
\* those of the reserved area, that of a sector which is not whole, and those after
\* the last chunk.
ToProtect ==
    LET Aligned(sb) == sb - (sb % StripeLen)
        First == CHOOSE sb \in SuperAddrs : \A other \in SuperAddrs : sb <= other
        Mirrors == {sb \in SuperAddrs \ {First} : sb < DeviceSize}
        Clusters(from, to) == (from \div ClusterSize) .. ((to - 1) \div ClusterSize)
        last == chunks[Len(chunks)]
        last_chunk_end == last.start + last.length
        beyond == IF OrigSize = DeviceSize THEN 0 ELSE 1
    IN  Ascending(UNION {Clusters(Aligned(sb), Aligned(sb) + StripeLen) : sb \in Mirrors})
          \o Ascending(0 .. (Reserved \div ClusterSize) - 1)
          \o (IF beyond = 1 THEN <<DeviceSize \div ClusterSize>> ELSE <<>>)
          \o (IF last_chunk_end < DeviceSize
              THEN Ascending((last_chunk_end \div ClusterSize)
                             .. (DeviceSize \div ClusterSize) - beyond)
              ELSE <<>>)

ParseDataBitmap ==
    /\ step = "scan" /\ phase = "scan" /\ NextPhase
    /\ step' = "protect"
    /\ \E used \in {ClustersInUse} :
         runs' = [s \in Segments |-> RunList({k \in used : SegmentOf(k) = s})]
    /\ todo' = ToProtect
    /\ UNCHANGED <<disk, relocs, run_used, filed, files, fs_extents, img_extents,
                   extent_items, runs2, csums>>

ChunkAt(addr) ==
    {i \in DOMAIN chunks' : addr \in Extent(chunks'[i].start, chunks'[i].length)}

\* Variant: the cluster goes on being counted where it was.
UncountNothing(used, k) == used

\* A cluster that has been moved is not counted where it was: this is taken from
\* "used" before calc_used_space puts it there.
Uncount(used, k) ==
    [i \in DOMAIN used |->
        IF i \in ChunkAt(k * ClusterSize) THEN used[i] - ClusterSize ELSE used[i]]

\* protect_cluster, for a cluster that is in use: it is copied and its entries say so.
Relocate(k) ==
    LET addr == Returned
        n == addr \div ClusterSize
        cut == [runs EXCEPT ![SegmentOf(k)] = Cut(@, k, 1, dummy_inode, 0)]
        Read == {i \in 0 .. ClusterSize - 1 : k * ClusterSize + i < OrigSize}
    IN  /\ disk' = Written(addr, [i \in Read |-> disk[k * ClusterSize + i]])
        /\ relocs' = Append(relocs, [old_start |-> k, new_start |-> n])
        /\ run_used' = Uncount(run_used, k)
        /\ runs' = [cut EXCEPT ![SegmentOf(n)] =
                       Insert(@, DataAlloc(n, 1, 0, 0, TRUE, FALSE))]

Stays == UNCHANGED <<disk, memory>>

ProtectCluster ==
    /\ step = "protect" /\ phase # "failed" /\ todo # <<>>
    /\ LET k == Head(todo) IN
         \/ /\ Met(runs[SegmentOf(k)], k, 1) = {}
            /\ Stays /\ UNCHANGED vars
         \/ /\ Met(runs[SegmentOf(k)], k, 1) # {}
            /\ AllocateData(ClusterSize, FALSE)
            /\ IF phase' = "failed"
               THEN Stays
               ELSE /\ Relocate(k)
                    /\ UNCHANGED <<filed, fs_extents, img_extents, extent_items, runs2, csums>>
    /\ todo' = Tail(todo)
    /\ UNCHANGED <<step, files>>

\* The entries of a segment count in the chunk that starts where the segment does.
UsedByRuns(s, c) ==
    IF c.start # Base(s) + (IF s = 0 THEN Reserved ELSE 0) THEN 0
    ELSE MapThenSumSet(
            LAMBDA i : runs[s][i].length * ClusterSize,
            {i \in DOMAIN runs[s] : runs[s][i].offset * ClusterSize
                                      \in Extent(c.start, c.length)})

UsedByAllRuns(c) == MapThenSumSet(LAMBDA s : UsedByRuns(s, c), Segments)

CalcUsedSpace ==
    /\ step = "protect" /\ todo = <<>> /\ NextPhase
    /\ run_used' =
         [i \in DOMAIN run_used |->
             run_used[i] + IF i \in DOMAIN chunks THEN UsedByAllRuns(chunks[i]) ELSE 0]
    /\ step' = "files" /\ todo' = files
    /\ UNCHANGED <<disk, runs, relocs, filed, files, fs_extents, img_extents, extent_items,
                   runs2, csums>>

-----------------------------------------------------------------------------
(* create_inodes, as far as the data of the files goes. *)

\* Variant: relocations are not looked at.
RedirectedNowhere(k) == k

\* Where process_mappings sends a cluster: each relocation in turn may send it on.
SentOn(k) ==
    LET at[i \in 0 .. Len(relocs)] ==
            IF i = 0 THEN k
            ELSE IF relocs[i].old_start = at[i - 1] THEN relocs[i].new_start ELSE at[i - 1]
    IN  at

Redirected(k) == SentOn(k)[Len(relocs)]

\* A mapping is broken at the end of a segment and around a relocated cluster.
Broken(k) ==
    \/ SegmentOf(k) # SegmentOf(k - 1)
    \/ Redirected(k) # k \/ Redirected(k - 1) # k - 1

\* The pieces of a mapping.  A hole has none.
Pieces(m) ==
    LET end == m.lcn + m.length
        Starts == {k \in m.lcn .. end - 1 : k = m.lcn \/ Broken(k)}
        Following(k) == CHOOSE e \in Starts \cup {end} :
                      e > k /\ \A d \in Starts : d > k => e <= d
    IN  IF m.lcn = 0 THEN {}
        ELSE {[vcn |-> m.vcn + k - m.lcn, lcn |-> Redirected(k), length |-> Following(k) - k] :
                 k \in Starts}

Extents(owner, pos, addr, length) ==
    [owner |-> owner, pos |-> pos, addr |-> addr, length |-> length]

\* The pieces of the file at hand.
FilePieces == UNION {Pieces(m) : m \in Head(todo).mappings}

\* process_mappings ends with a call of split_runs for each piece, which gives it an
\* entry of its own or throws.
SplitRuns ==
    /\ step = "files" /\ phase # "failed" /\ todo # <<>> /\ Head(todo).mappings # {}
    /\ \E p \in FilePieces \ filed :
         /\ \A q \in FilePieces \ filed : p.vcn <= q.vcn
         /\ LET list == runs[SegmentOf(p.lcn)] IN
              IF Torn(list, p.lcn, p.length)
              THEN phase' = "failed" /\ UNCHANGED runs
              ELSE /\ runs' = [runs EXCEPT ![SegmentOf(p.lcn)] =
                                  Cut(list, p.lcn, p.length, Head(todo).inode, p.vcn)]
                   /\ UNCHANGED phase
         /\ filed' = filed \cup {p}
    /\ UNCHANGED <<step, todo, in_use, seg, space_list, chunks, allocated, disk, relocs, run_used,
                   files, fs_extents, img_extents, extent_items, runs2, csums>>

\* The EXTENT_DATA items for what process_mappings has made of the mappings.
MapFile ==
    /\ step = "files" /\ phase # "failed" /\ todo # <<>> /\ Head(todo).mappings # {}
    /\ filed = FilePieces
    /\ fs_extents' = fs_extents \cup
          {Extents(Head(todo).inode, p.vcn * ClusterSize, p.lcn * ClusterSize,
                   p.length * ClusterSize) : p \in filed}
    /\ todo' = Tail(todo)
    /\ filed' = {}
    /\ UNCHANGED <<vars, step, disk, runs, relocs, run_used, files, img_extents, extent_items,
                   runs2, csums>>

\* An extent of data that is rewritten.  Its length need not be a number of clusters.
WriteData ==
    /\ step = "files" /\ phase # "failed" /\ todo # <<>> /\ Head(todo).mappings = {}
    /\ LET f == Head(todo) IN
         /\ AllocateData(f.length, TRUE)
         /\ IF phase' = "failed"
            THEN Stays
            ELSE LET addr == Returned IN
                 /\ disk' = Written(addr, [i \in 0 .. f.length - 1 |-> Data(f.inode, f.pos + i)])
                 /\ fs_extents' = fs_extents \cup {Extents(f.inode, f.pos, addr, f.length)}
                 /\ runs' = [runs EXCEPT ![addr \div DataChunkSize] =
                                Insert(@, DataAlloc(addr \div ClusterSize,
                                                    f.length \div ClusterSize, f.inode,
                                                    f.pos \div ClusterSize, FALSE, TRUE))]
                 /\ UNCHANGED <<relocs, run_used, filed, img_extents, extent_items, runs2, csums>>
    /\ todo' = Tail(todo)
    /\ UNCHANGED <<step, files>>

-----------------------------------------------------------------------------
(* create_image, create_data_extent_items and calc_checksums. *)

AllRuns == UNION {{runs[s][i] : i \in DOMAIN runs[s]} : s \in Segments}

FirstReloc(Among) == relocs[CHOOSE i \in Among : \A j \in Among : i <= j]
MovedTo(k) == FirstReloc({i \in DOMAIN relocs : relocs[i].old_start = k}).new_start
MovedFrom(k) == FirstReloc({i \in DOMAIN relocs : relocs[i].new_start = k}).old_start

\* The owner of the extents of ntfs.img, whose positions are NTFS addresses.
Image == 0

\* Variant: the extent stays where NTFS had it.
ImageExtentInPlace(r) ==
    Extents(Image, r.offset * ClusterSize, r.offset * ClusterSize, r.length * ClusterSize)

ImageExtent(r) ==
    Extents(Image, r.offset * ClusterSize,
            (IF r.inode = dummy_inode THEN MovedTo(r.offset) ELSE r.offset) * ClusterSize,
            r.length * ClusterSize)

CreateImage ==
    /\ step = "files" /\ phase # "failed" /\ todo = <<>>
    /\ img_extents' = {ImageExtent(r) : r \in {q \in AllRuns : ~q.relocated /\ ~q.not_in_img}}
    /\ step' = "extents"
    /\ UNCHANGED <<vars, todo, disk, runs, relocs, run_used, filed, files, fs_extents,
                   extent_items, runs2, csums>>

\* Who refers to the data: the image, unless the data is not part of it, and the
\* file, if there is one.
References(r) ==
    LET img_addr == IF r.relocated THEN MovedFrom(r.offset) ELSE r.offset
        from_image == [owner |-> Image, pos |-> img_addr * ClusterSize]
        from_file == [owner |-> r.inode, pos |-> r.file_offset * ClusterSize]
    IN  CASE r.inode = 0 -> {from_image}
          [] r.inode # 0 /\ r.not_in_img -> {from_file}
          [] r.inode # 0 /\ ~r.not_in_img -> {from_image, from_file}

CreateDataExtentItems ==
    /\ step = "extents"
    /\ extent_items' =
         {[addr |-> r.offset * ClusterSize, length |-> r.length * ClusterSize,
           refs |-> References(r)] : r \in {q \in AllRuns : q.inode # dummy_inode}}
    /\ step' = "csums"
    /\ todo' = [i \in 1 .. Cardinality(Segments) |-> runs[i - 1]]
    /\ UNCHANGED <<vars, disk, runs, relocs, run_used, filed, files, fs_extents,
                   img_extents, runs2, csums>>

MaxRunClusters == MaxRun \div ClusterSize

\* The runs with those of one more entry.  Its data goes on with the last run as far as
\* that may grow, if that is of the same segment and there is nothing between the two;
\* what is left is split into runs as long as they may be.
Joined(joined, r) ==
    LET last == joined[Len(joined)]
        first == joined = <<>> \/ SegmentOf(last.offset) # SegmentOf(r.offset)
        more == IF first \/ last.offset + last.length < r.offset THEN 0
                ELSE Lesser(MaxRunClusters - last.length, r.length)
        left == r.length - more
        Split == [i \in 1 .. (left + MaxRunClusters - 1) \div MaxRunClusters |->
                    [offset |-> r.offset + more + (i - 1) * MaxRunClusters,
                     length |-> Lesser(MaxRunClusters, left - (i - 1) * MaxRunClusters)]]
    IN  (IF more = 0 THEN joined ELSE [joined EXCEPT ![Len(joined)].length = @ + more]) \o Split

\* calc_checksums first splits and merges the entries, segment by segment.  Here it comes
\* to the next entry, which it leaves out if the data is elsewhere, or the next segment.
JoinRun ==
    /\ step = "csums" /\ todo # <<>>
    /\ LET rs == Head(todo) IN
         IF rs = <<>>
         THEN todo' = Tail(todo) /\ UNCHANGED runs2
         ELSE /\ todo' = [todo EXCEPT ![1] = Tail(rs)]
              /\ runs2' = IF Head(rs).inode = dummy_inode THEN runs2
                          ELSE Joined(runs2, Head(rs))
    /\ UNCHANGED <<vars, step, disk, runs, relocs, run_used, filed, files, fs_extents,
                   img_extents, extent_items, csums>>

\* The data of the runs is read, as far as the device goes.
CalcChecksums ==
    /\ step = "csums" /\ todo = <<>> /\ NextPhase
    /\ csums' = {[addr |-> r.offset * ClusterSize,
                  sums |-> [u \in Extent(r.offset * ClusterSize, r.length * ClusterSize)
                                    \cap DOMAIN disk |-> disk[u]]] :
                    r \in {q \in Range(runs2) : q.offset * ClusterSize < OrigSize}}
    /\ step' = "trees"
    /\ UNCHANGED <<todo, disk, runs, relocs, run_used, filed, files, fs_extents, img_extents,
                   extent_items, runs2>>

-----------------------------------------------------------------------------
(* The trees are laid out in memory, then everything is written. *)

Blocks == {a \in allocated : a.type \in {"metadata", "system"}}

LayOutBlock ==
    /\ step = "trees" /\ phase # "failed"
    /\ \E system_chunk \in BOOLEAN :
         /\ Cardinality({a \in Blocks : (a.type = "system") = system_chunk}) < MaxBlocks
         /\ AllocateMetadata(system_chunk)
    /\ UNCHANGED cvars

\* There is at least one block of the chunk tree and one of another.
LayoutDone ==
    /\ step = "trees" /\ phase # "failed"
    /\ {"metadata", "system"} = {a.type : a \in Blocks}
    /\ step' = "blocks"
    /\ todo' = Ascending({a.addr : a \in Blocks})
    /\ UNCHANGED <<vars, disk, files, memory>>

WriteTrees ==
    /\ step = "blocks" /\ todo # <<>>
    /\ disk' = Written(Head(todo), [i \in 0 .. TreeSize - 1 |-> Tree])
    /\ todo' = Tail(todo)
    /\ UNCHANGED <<vars, step, files, memory>>

\* Variant: the superblocks are written before the trees.
TreesUnwritten ==
    /\ step = "blocks"
    /\ step' = "supers"
    /\ todo' = Ascending({sb \in SuperAddrs : sb < DeviceSize})
    /\ UNCHANGED <<vars, disk, files, memory>>

TreesWritten ==
    /\ step = "blocks" /\ todo = <<>>
    /\ step' = "supers"
    /\ todo' = Ascending({sb \in SuperAddrs : sb < DeviceSize})
    /\ UNCHANGED <<vars, disk, files, memory>>

\* Variant: the loop does not move on.
WriteSuperblockAgain ==
    /\ step = "supers" /\ todo # <<>>
    /\ disk' = Written(Head(todo), [i \in {0} |-> Super])
    /\ UNCHANGED <<vars, step, todo, files, memory>>

\* A superblock takes one unit.
WriteSuperblock ==
    /\ step = "supers" /\ todo # <<>>
    /\ disk' = Written(Head(todo), [i \in {0} |-> Super])
    /\ todo' = Tail(todo)
    /\ UNCHANGED <<vars, step, files, memory>>

ClearFirstCluster ==
    /\ step = "supers" /\ todo = <<>>
    /\ disk' = Written(0, [i \in 0 .. ClusterSize - 1 |-> Zero])
    /\ step' = "done"
    /\ UNCHANGED <<vars, todo, files, memory>>

ConvNext ==
    \/ Scan
    \/ ParseDataBitmap
    \/ ProtectCluster
    \/ CalcUsedSpace
    \/ SplitRuns
    \/ MapFile
    \/ WriteData
    \/ CreateImage
    \/ CreateDataExtentItems
    \/ JoinRun
    \/ CalcChecksums
    \/ LayOutBlock
    \/ LayoutDone
    \/ WriteTrees
    \/ TreesWritten
    \/ WriteSuperblock
    \/ ClearFirstCluster

ConvSpec == ConvInit /\ [][ConvNext]_<<vars, cvars>> /\ WF_<<vars, cvars>>(ConvNext)

-----------------------------------------------------------------------------
\* The entries of every segment are in order and share no cluster, whatever has been
\* cut out of them and inserted between them: split_runs stops at the first entry
\* past the clusters it looks for, and calc_checksums joins neighbours.
RunsOrdered ==
    \A s \in Segments : \A i, j \in DOMAIN runs[s] :
        i < j => runs[s][i].offset + runs[s][i].length <= runs[s][j].offset

ImageDone == step \in {"extents", "csums", "trees", "blocks", "supers", "done"}
RefsDone == ImageDone /\ step # "extents"

NtfsUnits == ClusterSpace(in_use) \cap DOMAIN disk

\* The unit at pos of what the owner has is in one place of the device, and what is
\* there is right.
Reads(extents, owner, pos, content) ==
    LET Places == {e.addr + pos - e.pos :
                     e \in {x \in extents : x.owner = owner /\ pos \in Extent(x.pos, x.length)}}
    IN  /\ Cardinality(Places) = 1
        /\ \A v \in Places : v \in DOMAIN disk /\ disk[v] = content

\* ntfs.img holds every cluster that NTFS used, once, at its place, and goes on
\* holding it while the trees, the superblocks and the cleared first cluster are
\* written: it is what a rollback restores.
ImageFaithful ==
    ImageDone => \A u \in NtfsUnits : Reads(img_extents, Image, u, Ntfs(u))

\* Every unit of a file reads as it did, through relocations and boundaries of
\* segments, and that of a rewritten file as it was written, to the end.
FileFaithful(f) ==
    /\ \A m \in f.mappings : m.lcn # 0 =>
        \A i \in 0 .. m.length * ClusterSize - 1 :
            Reads(fs_extents, f.inode, m.vcn * ClusterSize + i, Ntfs(m.lcn * ClusterSize + i))
    /\ \A pos \in Extent(f.pos, f.length) :
            Reads(fs_extents, f.inode, pos, Data(f.inode, pos))

FilesFaithful ==
    phase # "failed" /\ (ImageDone \/ step = "files") =>
        \A i \in DOMAIN files :
            i <= Len(files) - (IF step = "files" THEN Len(todo) ELSE 0) => FileFaithful(files[i])

\* Each EXTENT_ITEM of data has an EXTENT_DATA item for every reference it counts, and
\* no EXTENT_DATA item refers to data without its EXTENT_ITEM: the files and the
\* image, which are made at different times from entries that are cut and moved,
\* agree on where every extent starts and ends.
ExtentsReferenced ==
    RefsDone =>
        LET all == fs_extents \cup img_extents
        IN  extent_items =
              {[addr |-> e.addr, length |-> e.length,
                refs |-> {[owner |-> x.owner, pos |-> x.pos] :
                            x \in {y \in all : y.addr = e.addr /\ y.length = e.length}}] :
                 e \in all}

\* The "used" of a chunk, which is counted down for a moved cluster before anything
\* is counted up, comes to the length of the extents in it.
UsedAccounted ==
    step = "csums" /\ phase # "failed" =>
        \A i \in DOMAIN chunks :
            LET c == chunks[i]
                Inside == {e \in extent_items : e.addr \in Extent(c.start, c.length)}
            IN  c.used + run_used[i] = MapThenSumSet(LAMBDA e : e.length, Inside)

\* All data that an extent refers to has a checksum, in one item, which is not too long
\* for a leaf; and it is not written to after its checksum has been calculated.
ChecksumsHold ==
    step \in {"trees", "blocks", "supers", "done"} =>
        /\ \A e \in fs_extents \cup img_extents :
            \A u \in Extent(e.addr, e.length) \cap DOMAIN disk :
              Cardinality({c \in csums : u \in DOMAIN c.sums}) = 1
        /\ \A c \in csums :
              /\ Cardinality(DOMAIN c.sums) <= MaxRun
              /\ \A u \in DOMAIN c.sums : disk[u] = c.sums[u]

\* What makes each of the two file systems whole.
NtfsWhole == \A u \in NtfsUnits : disk[u] = Ntfs(u)

PrimarySuper == CHOOSE sb \in SuperAddrs : \A other \in SuperAddrs : sb <= other

BtrfsWhole ==
    /\ disk[PrimarySuper] = Super
    /\ \A a \in Blocks : \A u \in Extent(a.addr, a.length) : disk[u] = Tree
    /\ ImageFaithful /\ FilesFaithful /\ ChecksumsHold

Volume ==
    IF BtrfsWhole THEN "btrfs" ELSE IF NtfsWhole THEN "ntfs" ELSE "lost"

\* At every moment one of the two file systems is whole, and the first superblock is
\* the one write that puts the second in the place of the first.
Abstract == INSTANCE SwitchOver WITH volume <- Volume, gave_up <- (phase = "failed")

SwitchesOver == Abstract!Spec

\* The conversion ends, done or given up.
Finishes == <>(step = "done" \/ phase = "failed")

=============================================================================
