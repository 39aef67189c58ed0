# A TLA+ model of ntfs2btrfs

ntfs2btrfs turns an NTFS volume into a Btrfs one in place. File data stays where it is;
Btrfs metadata is written into the space NTFS does not use; the old file system remains
readable as a file, `image/ntfs.img`, from which `rollback` restores it. The program is
sequential. What makes it hard is that it writes to the only copy of somebody's data, that
three views of that data (the files, the image, the extent tree) are made at different
times from lists that are edited in between, and that space is accounted for in bytes,
sectors, clusters, stripes and chunks, on volumes whose size is a multiple of few of them.

Line numbers below are those of `src/src/ntfs2btrfs.cpp` unless another file is named.

## 1. Inventory

| Component | State | Operations | What makes it correct |
|---|---|---|---|
| Free-space lists and allocators (196-611) | `space_list`, `chunks` with their `space_list`, `used`; `last_chunk_end` | `space_list_remove`, `remove_superblocks`, `create_data_chunks`, `allocate_data`, `allocate_metadata` | what is handed out is not in use by NTFS, not handed out already, not a superblock, inside a chunk on the device; nothing leaks |
| Bitmap reading (254-354, 1386-1602) | position, open run, list of runs | `create_data_chunks`, `parse_bitmap`, `parse_data_bitmap` | each used cluster is reported where it is |
| Relocation and runs (1676-1916, 3518-3632) | `runs`, `relocs`, `used` | `parse_data_bitmap`, `split_runs`, `process_mappings`, `protect_superblocks`, `protect_cluster`, `calc_used_space` | lists stay sorted; a moved cluster is found by all who ask for it; `used` comes out right |
| Conversion driver (3690-3877) | what has been written so far | `convert` | until the primary superblock is written NTFS is whole, from then on Btrfs is |
| File data (2600-3095) | `EXTENT_DATA` items | `add_inode`: mapped, rewritten, compressed, inline data; the tail after the valid data length | every file reads as before |
| Image and extent items (1274-1383, 3229-3311) | items of `ntfs.img`, `EXTENT_ITEM`s | `create_image`, `create_data_extent_items` | every cluster of NTFS is in the image, every extent has the references it counts |
| Checksums (3313-3516) | `EXTENT_CSUM` items | `calc_checksums` | all data is summed, and not changed after |
| Superblocks (853-1012) | none | `write_superblocks`, `clear_first_cluster` | written last, over nothing else |
| Tree building (390-454, 613-851, 1014-1139, 3821-3874) | `root.items`, `trees`, `addresses`, `old_addresses`, `extents_changed` | `create_trees`, `write_trees`, `add_chunk`, `update_*_root` | the extent tree describes the blocks of all trees, its own included; every item is found from the superblock; the loop ends |
| Inodes (1141-1272, 1617-1674, 1918-3216, 3679) | items of the FS tree, what `add_inode` has gathered of a file, the skip list | `add_inode`, `create_inodes`, `link_inode`, `set_xattr`, `add_inode_ref`, `update_dir_sizes`, `populate_skip_list` | files read as before; names, links, sizes and counts agree; what is left out leaves nothing without a parent |
| Rollback (`rollback.cpp`) | chunks, map of relocated ranges | `read_superblock`, `find_chunk`, `rollback` | the device is again as NTFS left it, even if rollback was killed and repeated |
| NTFS reader (`ntfs.cpp`, `ntfs2.cpp`) | the MFT, security descriptors | fixups, attribute lists, data runs, two walks of an index | what is read is what the volume says |
| Device I/O (`ntfs2.cpp` 765-858) | file position, bounce buffer | `ntfs::read`, `ntfs::write` | all of the range, nothing else |
| Decompression, compression, UTF-16, hashes | none | pure functions | equal to their references |

**How they interact.** `convert` is one thread of calls. `create_data_chunks` makes a chunk
of every 128 MB segment with a used cluster, and gives it the gaps between used clusters.
`parse_data_bitmap` reads the same bitmap again into `runs`, one list per segment. Both
readings have to agree with each other and with the allocators. `protect_superblocks` copies
clusters away from where superblocks will be; the copies are entries of `runs` of their own
and pairs in `relocs`. `add_inode` cuts the entries of files out of the runs, and adds those
of rewritten data. `create_image`, `create_data_extent_items` and `calc_checksums` read the
result. Then trees are laid out until no layout allocates anything, everything is written,
and superblocks go last.

**What is hard here.** Not concurrency: there is none. It is the order of writes to a live
file system (a crash, or an exception from an allocator, may come between any two); data
structures that are read at one time and edited at another; long sequences of legal
allocations; and arithmetic at boundaries: a segment that does not end on a word, byte,
stripe or cluster. The list with lines is in `PROJECT.json` under `hazards`.

## 2. Modules

| Module | Models |
|---|---|
| `Space` | extents, removal and first fit on a *set* of free units |
| `FreeSpace` | abstract: a free-space list is a set |
| `SpaceList` | the `std::list<space>`: `space_list_remove`, one action per way round the loop, and the first-fit search; implements `FreeSpace` |
| `Bitmap` | what `create_data_chunks` makes of the bytes of a segment, in closed form, misplacement included |
| `BitmapScan` | that loop, one action per way round it; computes what `Bitmap` says |
| `ChunkSpace` | chunks and allocators: `create_data_chunks`, `remove_superblocks`, `allocate_data`, `allocate_metadata` |
| `SpaceTheorems` | lemmas about extents, gaps, first fit and least numbers |
| `SpaceListProofs` | the list implements `FreeSpace`, for lists of any length |
| `BitmapScanProofs` | the loop computes what `Bitmap` says, for every bitmap |
| `ChunkSpaceProofs` | no allocation overlaps another, or what NTFS uses; chunks, superblocks, what lies in a chunk and what it counts; no unit is lost; bitmaps of whole words; where data chunks, and data, start |
| `ConversionProofs` | what `RunList`, `Cut`, `Insert` and `Ascending` make of a list; what a crash at any point of a conversion leaves; the entries stay in order |
| `ImageProofs` | once made, `ntfs.img` holds every cluster NTFS used, to the end; files read back through their extents |
| `NewVolumeProofs` | all data is summed once and stays as it was summed; the conversion implements `SwitchOver`; of which volumes no copy is moved again; extent items and file extents agree; rollback restores, never undoes, and does not refuse a finished conversion |
| `TreeBuildProofs` | no two blocks share space; every lasting item is written; what is on the device can always be booted |
| `Runs` | lists of `data_alloc` entries: `split_runs` and insertion in order |
| `Conversion` | `convert` with the contents of the device; extends `ChunkSpace` and `Runs` |
| `SwitchOver` | abstract: at any moment one of the file systems is whole; implemented by `Conversion` |
| `TreeBuild` | `create_trees` and the rounds in which the trees come to describe themselves; extends `ChunkSpace` |
| `NtfsFile` | reading NTFS: attributes over several records, data runs, index walks; operators only |
| `FsTree` | the tree of files: directory entries, INODE_REFs, xattrs, the subvolume of the image; operators only |
| `Inodes` | `create_inodes` and `add_inode`, an attribute or a step to an action; extends `NtfsFile` and `FsTree` |
| `Rollback` | `rollback.cpp`: a conversion, however far it came, undone; extends `Conversion` |
| `MCChunkSpace`, `MCConversion`, `MCTreeBuild`, `MCInodes`, `MCRollback` | the volumes that TLC is given |

`Conversion` and `Inodes` meet at `process_mappings`: which run a cluster is filed in, and
where a relocated one has gone, is in the former; which clusters, bytes and items a file comes
to have is in the latter, where the clusters below `Reserved` stand for those that have been
moved. `Conversion` and `TreeBuild` meet at `allocate_metadata`: the former takes any number
of blocks and cares when they are written, the latter says how many and what is in them.

### ChunkSpace

The unit of the device is a sector (4 KB). A free-space list is kept as the set of units it
covers; `SpaceList` justifies that. `seg` is `addr / data_chunk_size` in the loop of
`create_data_chunks`, `chunks` the list of chunks in order of creation, `allocated` a history
variable with all that the allocators returned. Virtual addresses are disk addresses plus a
constant in this program and are not kept apart. `phase` says where `convert` is: segments
are scanned, clusters are relocated (`AllocateData` of one cluster, not counted), files are
rewritten (`AllocateData`, counted), trees are laid out (`AllocateMetadata`), or an allocator
has thrown (`failed`). What the callers ask for is nondeterministic; `Conversion` has the
callers.

### Conversion

`ConvNext` takes the steps of `ChunkSpace` together with what the caller does with the
address. `disk` has the contents of each unit: original NTFS data (tagged with its address),
data of rewritten files, tree blocks, superblocks, zeroes. Each action writes to the device
at most once, so each point between two writes of the program is a state, and an invariant of
`disk` is a statement about what a crash there leaves. `Conversion` assumes that writes reach
the device in order.

A relocation is always of one cluster, as in `protect_cluster`. A hole is a mapping with
`lcn = 0`, as in the code. `Redirected` composes the relocations in the order of the list,
one after the other (`SentOn`), which is what the four cases of `process_mappings` (1758-1907) do to a mapping when
relocations have length 1. `RunList` and `ClustersInUse` give the *result* of the loops of
`parse_data_bitmap` and of the trimming at 3767-3785. `Pieces` gives the result of cutting a
mapping at segments and relocations; each `SplitRuns` is then one call of `split_runs`, which
cuts the piece out of the list as the earlier calls have left it, or throws. `filed` is the
set of pieces that have been through it. The fixpoint of the trees is reduced to
any number of block allocations up to `MaxBlocks` of each kind. `calc_checksums` joins and
splits one entry to an action and then reads: `JoinRun` takes the next entry of the segment at
hand, leaves dummies out, or goes on to the next segment. A checksum is kept as what was read.

### TreeBuild

`items` are the `items` of each `root`, as keys: of an item's bytes only the size counts, and
`ItemSize` has it. `trees` and `addresses` are the vectors of the same names, `old_addresses`
what `create_trees` takes back from the round before, `at` where its iterator stands. One
action ends one leaf (`EndLeaf`) or one node (`EndNode`); `AddBlock` in both either takes an
old address, rewriting its METADATA_ITEM if the level has changed (`Relevel`), or a new one
from `ChunkSpace!AllocateMetadata`, which adds an item to the extent tree and, if it made a
chunk, to the chunk, device and extent trees (`add_chunk`). Items that come to be behind `at`
wait for the next round; `Rebuild` is the test and the start of another round at 3857.
`UpdateTrees` is `update_root_root`, `update_extent_root` and `update_chunk_root`, which put
addresses, levels and sizes into the finished blocks, and `WriteSuper` the part of
`write_superblocks` that says where the trees are. `TooLarge` is an item that fits in no leaf.
If `Relevel` erases the very item that the loop over the extent tree stands at (663), the
program goes on with freed memory; `ReuseAddress` has both that it finds the new item there
and that this is its end (`failed`).

### Inodes

`todo` is the list of records, `stage` what is being done with the first of them, `atts` the
attributes `loop_through_atts` has yet to hand out, `f` the local variables of `add_inode`,
`t` the tree of files, `disk` every byte of the volume. `Visit...` are the cases of the
lambda at 2052. When the attributes are done, `Unpack` goes through 2632-2870 in its order:
compressed data, the shared descriptor, WOF, reparse points. `MapFile` is 2891-2935: holes
are dropped (`WithoutHoles`), one is appended, and the list is cut at the valid data length.
`ZeroTail` is the write at 2947, `WritePlain`, `WriteCompressed`, `WriteIncompressible` and
`WriteInline` the loop of rewritten data, an extent to an action; `AddInode` makes the inode's
items. A byte is a tagged value, so that data that was moved, expanded or compressed is told
apart from what just happens to be there.
`TrueByte`, `UserFiles` and `ExpectedSd` say what NTFS means by a volume, from the runs and
the indexes and not by way of the operators that model the code.

An exception thrown anywhere in `add_inode` is `stage = "failed"`. Owner, times, device
numbers and the flag against checksums are left out of the inode item.

### Rollback

`Stop` ends the conversion at any point: done, given up, or killed. `UseVolume` stands for
the time the volume is mounted: at its worst everything in the chunks that the image does
not refer to is overwritten (the image is read-only, and moving its extents by a balance is
ruled out in the manual). Rollback finds a superblock at any of their addresses, refuses if
an extent of the image is in no chunk or cannot be read, reads all extents that are not in
their place into `held`, the `relocs` of the code, and writes them back one `raw_write` at a
time; `ReadImage` orders them by their position in the image, as the walk through the extent
items does. It can be killed between any two of these and run again; `Seen = {}` is the case that
no superblock is left by then. `after` is what lies behind the end of the volume on the
partition, where NTFS keeps a spare boot sector.

## 3. Runs

| Run | Shows | Bounds |
|---|---|---|
| `bitmap_scan` | the scan ends; runs are in order; what it finds is `ScannedUsed` | bytes of 2 bits, words of 3 bytes, up to 7 bytes, **every** bitmap |
| `space_list` | the list implements the set; stays canonical; removal returns | every list and range over 7 units: up to 4 entries, so that a range can swallow, cut and touch several |
| `chunk_space` | all the allocator promises, on whole segments | 3 segments, 32 volumes, two lengths of data, one of them a whole chunk; until every allocator fails |
| `conversion` | a conversion from end to end | 5 sets of files on 64 bitmaps; both outcomes, done and given up, are reached in hundreds of states |
| `tree_build` | the trees settle and describe themselves | 5 bitmaps, 3 sets of trees: a leaf of 4, a node of 3 pointers, so that a tree of 38 items has 4 levels and the extent tree grows through several, once so that the item under its loop is erased; room for 2 system chunks in the superblock, where one volume needs 3; an item that fits nowhere |
| `inodes` | every kind of file NTFS has and the converter knows | one volume with a file of each kind, 10 with compressed data or WOF, 2 that cannot be converted, and a file of 3 layouts, 2 sizes and every valid length |
| `rollback` | conversion, use, rollback, with either program killed anywhere, and rollback repeated without limit | clusters of 2 units, the device ends inside one; with and without a unit after the volume |

Small numbers suffice because the code compares addresses with few boundaries: a segment's
start and end, a superblock's stripe, the end of the device, the neighbouring entry of a
list, the end of a leaf, and, in a file, the ends of its pieces, units, extents, its valid
data and its size. Each configuration has every one of these, at least once inside a file and
once outside, in use and not in use.

The properties that say most:

* `NoOverwrite`: no allocation is in use by NTFS, for clusters whose bits the scan reads as
  part of a word (`Located`), which is what holds on every volume. `NoOverwriteAtAll` is the
  same without that restriction.
* `NothingLost`: each unit is free in one place, or taken for one of four reasons.
* `ExtentsReferenced`: extent items and file extents, made by different functions from run
  lists at different times, agree exactly, reference by reference.
* `UsedAccounted`: `used`, decremented before it is incremented, comes out as the sum of the
  extents of the chunk.
* `ChecksumsHold`: all data is summed in one item, of a size that fits, and nothing is written
  after it was summed.
* `SwitchesOver`: `Conversion` implements `SwitchOver`. The primary superblock's write is the
  step that switches.
* `MetadataItemsExact`, `UsedByTrees`: though items are added behind the iterator and blocks
  change their level from round to round, the extent tree in the end has one item for each
  block, at its level, and the chunks count just these blocks.
* `ItemsFound`, `Bootable`: a search from the superblock comes to every item.
* `Settles`, `Finishes`, `Completes`: every conversion is done or gives up.
* `FilesReadAsBefore`: byte by byte, a file reads through its Btrfs extents as NTFS would
  read it, from the moment it is converted on; `NtfsIntact`: meanwhile nothing that belongs
  to NTFS was written. Between them they say what is in place may stay in place.
* `NamesKept`, `TreeConnected`, `LinksConsistent`: all files of the user and no others, under
  all their names and no others, with three items and a count that agree.
* `Restored`, `Accepted`, `NeverUndone`, and `ImageFaithful` while rollback writes: a finished
  conversion is never refused, each attempt at rollback leaves the copies as they were and
  the restored clusters restored, so that repeating it is safe, and the last one leaves NTFS
  whole.

### Runs that find a violation

These check what the repository says against what the code does; the steps are in TLC's
output, the quoted lines under `findings` in `PROJECT.json`.

| Run | What the code does |
|---|---|
| `chunk_space_tail` | line 314: `pos++` for a byte of eight clusters. On a volume whose last segment does not end on a word, clusters in use are handed out |
| `reparse_data` | line 2856: the data of a reparse point becomes the contents of the file, but if the file also has clusters these are mapped and the data is lost |
| `sparse_tail` | line 2938: the sector that holds the end of the valid data is sought in the hole appended at line 2910, and one near the start of the volume is zeroed |
| `stale_tail` | line 2942: only one sector after the valid data is zeroed, the others of the cluster show what they held |
| `rollback_boot` | `rollback.cpp` 487: the last cluster is written back in full, over the spare boot sector after the volume |

The volumes of `inodes` leave these three out: a reparse point with clusters of its own,
valid data that ends in a hole, and clusters of more than a sector. They leave out two more
cases, for which the model has the code's outcome but no run shows it:

* The valid data ends in a hole and no cluster of the file comes before it. `process_mappings`
  then leaves no mapping, line 2909 appends none, and `back()` of the empty list at 2938 is
  undefined. In `LastClusters` it is any cluster, or none when the program ends there, and
  `NtfsIntact` fails as in `sparse_tail`.
* A directory of the system lists another in an index entry that has a subnode. `walk_btree`
  (`ntfs2.cpp` 495-514) goes down from such an entry but does not visit it, nor does `Walked`,
  and the directory is not skipped.

More can be seen in the code that no run checks, because it concerns cluster sizes or volumes
that the configurations leave out:

* On a volume that is not of whole segments `InsideChunk` fails, because the last gap is not
  cut at the end of the chunk (367-375), and the space list ends 1 MB past the device (3726).
* With clusters of 64 KB the bits that do not fill a byte stand for space in the chunk (257).
* With clusters of more than a sector, rewritten data that is not a number of clusters has a
  run, and an EXTENT_ITEM, that is too short (3065).
* With clusters of more than 64 KB the primary superblock is zeroed after it is written
  (3876), and data after a superblock is not aligned (`DataAligned`).
* If the last segments have no cluster in use and the other chunks no room, new chunks are made
  behind `last_chunk_end`, and `protect_superblocks` (3592-3601) relocates there what it has
  just relocated, again and again ahead of itself, until the device is full and the conversion
  gives up. If the device is not used up by then, the image refers to a copy that has no entry
  left, see `CopiesStay` in section 5.
* If what is left at the end of the device is shorter than a segment by less than 1 MB, and
  has no cluster in use, a data chunk made of it ends up to 1 MB past the device (3726).

`CHECK_DEADLOCK FALSE` is set in all configurations but that of `SpaceList`: the program ends.

## 4. Fairness

`Conversion`, `TreeBuild`, `Inodes` and `BitmapScan` have weak fairness of their next-state relation: the program is
one thread that does not wait for anybody, so it takes a next step as long as it has one.
`SpaceList` has it for the loop of `space_list_remove` only, since nobody is obliged to call
it. `ChunkSpace` has none. Nothing is assumed of the order in which tree blocks are
allocated, nor that any particular allocation succeeds.

## 5. Proofs

Everything here is proved for all values of the constants: any size of device, segment,
cluster, stripe, word and byte, any bitmap, any number of calls.

| Theorem | Property, or what it says | Needs |
|---|---|---|
| `SpaceListProofs!ListImplementsFreeSpace` | `ImplementsFreeSpace` | |
| `SpaceListProofs!ListStaysCanonical` | `ListCanonical` | |
| `BitmapScanProofs!ScanComputesScannedUsed` | `ComputesScannedUsed` | |
| `BitmapScanProofs!ScanInOrder` | `RunsInOrder` | |
| `ChunkSpaceProofs!TypeCorrect`, `NeverTwice` | `TypeOK`, `AllocationsDisjoint` | |
| `ChunkSpaceProofs!NtfsNeverOverwritten` | `NoOverwrite` | |
| `ChunkSpaceProofs!ChunksNeverOverlap` | chunks and free space are apart | |
| `ChunkSpaceProofs!SuperblocksAvoided` | `AvoidsSuperblocks` | `WholeStripes` |
| `ChunkSpaceProofs!AllocationsInsideChunks` | `InsideChunk` | `WholeStripes` |
| `ChunkSpaceProofs!ChunksCountWhatTheyHold` | `UsedMatches` | `WholeStripes` |
| `ChunkSpaceProofs!NothingIsLost` | `NothingLost` | `WholeStripes`, `WholeWords`, `ClusterBitmaps` |
| `ChunkSpaceProofs!NoClusterOverwritten` | `NoOverwriteAtAll` | `WholeWords`, `ClusterBitmaps` |
| `ChunkSpaceProofs!DataChunksStartAtSegments` | `DataChunksAtSegments` | `WholeStripes`, `BootInUse` |
| `ChunkSpaceProofs!DataStartsOnClusters` | `DataAligned` | `WholeStripes`, `WholeClusters` |
| `ConversionProofs!LocatedClustersKept` | until the superblocks, located clusters hold what they held | |
| `ConversionProofs!NtfsUntilTheSuperblocks` | until then, and after giving up, `Volume = "ntfs"` | `WholeWords`, `ClusterBitmaps`, `WholeSectors`, `SuperblockReserved` |
| `ConversionProofs!SwitchAtFirstSuperblock` | without the first superblock `Volume = "ntfs"`, with it all blocks of the trees are in place | those, `WholeStripes`, `FirstClusterShort` |
| `ConversionProofs!EntriesInOrder` | `RunsOrdered` | `WholeStripes`, `WholeWords`, `ClusterBitmaps`, `WholeClusters`, `BootInUse`, `WholeBitmap`, `WholeSectors` |
| `ImageProofs!ImageHoldsNtfs` | `ImageFaithful` | those, `BitsInBitmap`, `SuperblockReserved`, `EndClear` (together: *a whole volume*) |
| `ImageProofs!FilesReadBack` | `FilesFaithful`, of files that are sound (`FilesSound`) | a whole volume |
| `NewVolumeProofs!ChecksumsKept` | `ChecksumsHold`, of files in clusters that are in use (`FilesMarked`), as long as no copy is moved (`CopiesStay`) | a whole volume |
| `NewVolumeProofs!ConversionSwitchesOver` | `SwitchesOver`, of sound files, if always `CopiesStay` and `BlocksInside` | a whole volume, `FirstClusterShort` |
| `NewVolumeProofs!NothingMovedTwice` | always `CopiesStay` and `BlocksInside` | a whole volume, `LastSegmentUsed`, `SupersOnStripes` |
| `NewVolumeProofs!VolumesReadBack` | `FilesFaithful` and `ChecksumsHold`, of sound files | the same |
| `NewVolumeProofs!VolumesSwitchOver` | `SwitchesOver`, of sound files | the same, `FirstClusterShort` |
| `NewVolumeProofs!VolumesReferenced` | `ExtentsReferenced`, of sound files that are also `FilesOwned` and `FilesAligned` | those of `NothingMovedTwice`, `MirrorsBehind` |
| `NewVolumeProofs!RollbackRestores` | `Restored` | a whole volume |
| `NewVolumeProofs!RollbackNeverUndoes` | `NeverUndone` | a whole volume |
| `NewVolumeProofs!RollbackAccepts` | `Accepted` | a whole volume, `FirstClusterShort` |
| `TreeBuildProofs!BlocksNeverShare` | no two blocks of trees share a unit, now or with what was a block in the round before; none is in what NTFS uses, or where a superblock is | `WholeStripes`, `FiniteBitmaps` |
| `TreeBuildProofs!AllItemsWritten` | when the trees are laid out, every item is in a leaf but those of the blocks themselves, and each tree has one block on top | the same |
| `TreeBuildProofs!AlwaysBootable` | `Bootable` | the same |

The other theorems listed (`Invariant`, `ScanInvariant`, `ListInvariant`,
`ConversionInvariant`) are the inductive invariants behind them.

**Assumptions on constants**, which TLC evaluates in the runs: `BitmapAssumption` (bytes and
words are not empty), `ChunkSpaceAssumption` (the relations between the sizes that hold of
the program's constants, and the device is not shorter than the reserved area, which
`convert` refuses at 3723), `LastSegmentAssumption` (the last segment is not shorter than a
stripe), `ConversionAssumption` and `LayoutsAssumption` (files are what `Files` says).

**Hypotheses of theorems.** Each is a condition on the volume. The volumes of `chunk_space`
satisfy all that are about chunks and the bitmap. Those of `conversion` and `rollback` end
inside a stripe and inside a sector on purpose, so there TLC shows that the properties they
check hold of some volumes without the hypotheses; the same configurations with
a `DeviceSize` (and `OrigSize`) of 72 satisfy all hypotheses, come to the end of a conversion,
and have been found to have the same properties.

* `WholeStripes`: the device is a number of 64 KB stripes. Otherwise a gap may pass the end of
  the chunk of its segment (367-375), see "More can be seen" in section 3.
* `WholeWords`: so are segments and device of the clusters that a word of the bitmap stands
  for; on other volumes clusters in use are handed out, as `chunk_space_tail` shows.
  `NoOverwrite` and `LocatedClustersKept` say what remains without this hypothesis.
* `ClusterBitmaps`: addresses in the bitmap are those of clusters. True by the format.
* `WholeSectors`: `orig_device_size` is a number of sectors.
* `WholeBitmap`: `$Bitmap` is a number of words. NTFS pads it to 8 bytes. Otherwise what
  `parse_data_bitmap` finds in use need not be in use, line 314 once more.
* `BootInUse`: the boot sector is in use, as on every NTFS volume, and a byte of the bitmap
  stands for no more than a segment or the device.
* `WholeClusters`: clusters are no longer than a stripe and divide it, which is so up to 64 KB;
  and rewritten data has a number of clusters, which is so if a cluster is a sector.
* `SuperblockReserved`, `FirstClusterShort`: the first superblock, at 64 KB, is inside the
  reserved first megabyte and not in the first cluster. True of clusters up to 64 KB; for
  larger ones `clear_first_cluster` wipes it.
* `BitsInBitmap`: `$Bitmap` has no bits set that it has no room for.
* `EndClear`: what is left at the end of the device when it is cut into segments is shorter
  than a segment by more than the reserved area. Otherwise a data chunk that is made of a last
  segment without clusters in use may pass the end of the device (3726).
* `FiniteBitmaps`: a bitmap is a finite set.
* `LastSegmentUsed`: the last segment has a cluster in use. NTFS keeps its spare boot sector
  behind the last cluster, so this is a real condition; without it the last chunk may end
  before the device does, see `CopiesStay`.
* `SupersOnStripes`: superblocks start stripes, as 64 KB, 64 MB and 256 GB do.
* `MirrorsBehind`: all of them but the first lie behind the reserved first megabyte.

`FilesSound` and `FilesMarked` are conditions on what files a volume has. The first says that
their clusters are marked in use, on the device, and belong to one file at one place each; the
second is the first part of it. Of the files `conversion` is given one set is not like this, on
purpose (`HalfMarked`). `FilesOwned` says that no two mappings, of one file or of two, have a
cluster in common, `FilesAligned` that an extent of data that is rewritten starts at a cluster of
its file, which is so as it is cut at multiples of 128 KB or 128 MB (2999-3007). None changes in
the course of a conversion.

`CopiesStay` (no copy of a cluster is itself relocated) and `BlocksInside` (tree blocks lie on
the device) are conditions on what happens. They can fail, and with them what they are
hypotheses for: a copy that has been moved has no entry of its own, so that no extent and no
checksum is made where the image says it is. It takes a volume whose last segments hold
nothing, see "More can be seen". `NothingMovedTwice` proves both where `LastSegmentUsed`.

### The arguments

**SpaceList.** While the iterator is inside the list, the entries are sorted with a gap
between neighbours, and those before the iterator are clear of the range (`ListInv`). The
set that the list covers then changes, over a whole call, by just the range, and each way
round the loop is one of no entry, an entry gone, an entry cut at either end, or split.
`Fits` on the set is found by the search on the list, because a run of a set of units that
is covered by separated entries lies in one of them.

**BitmapScan.** `ComputesScannedUsed` is about the end; inductively, what the found runs and
the open one cover is what the bits *behind the position* amount to (`ScanInv`), where `pos`
and the position in the bitmap drift apart by seven for each byte after the words that changes
nothing, all ones inside a run or all zeroes outside. `ScannedUsed` counts these bytes; the
invariant has that count so far.

**ChunkSpace.** `AllocationsDisjoint` and `NoOverwrite` are not inductive: one needs that
free space and granted space are apart (`FreeApart`), the other that free space holds no
located cluster (`NtfsKept`). Neither is true of the space list as it is: what is left at the
end of the device may be in use, because the chunk of the last segment is rounded down to a
stripe. But that remainder is too short for a chunk, and the allocators take space from the
list only in whole chunks. So the invariant is stated for `Usable(space_list)`, the units that
lie in some gap long enough for a system chunk, and `SegmentUnusable` shows that what a
segment leaves behind does not become usable, even if followed by the overshoot past the end
of the device: this is where `Reserved + StripeLen <= SystemChunkSize` is needed.
`ScanProgress` carries the loop's progress (no allocation while segments are scanned, chunks
lie below the next segment). The scan itself enters through `WordsExact`: a cluster whose
bit is in a whole word is reported used if and only if the bit is set.

The geometry rests on `ChunksApart` (chunks share no unit with each other, the space list or
the reserved area) and `FreeInside` (what a chunk has free lies in it and clear of the stripes
of the superblocks). `GeometryStep` has one case for each shape a step can have, and
`GeometryCases` states these shapes once, so that the account, the grid and the conversion
use them as well. `NothingLost` needs more than that free, granted and used space are apart:
`AccountInv` says of each unit of a chunk which of them it is.
`DataChunksAtSegments` holds because once the first segment is out of the space list, every
run of free units in it that begins before the end of the device begins at a multiple of the
size of a segment (`ListGrid`), and what is taken out has that size or is a whole segment.
`DataAligned` is the same argument for clusters, on the free space of data chunks as well.

**Conversion.** `ConvInv` adds to the invariant of the allocators: nothing is granted below
the reserved area (`GrantedAbove`); which phases go with which step (`StepPhase`), so that
giving up is only possible before the superblocks; what is left of a loop are the addresses
of blocks, or those of superblocks (`Queues`); and until the superblocks, what is not as NTFS
left it is granted (`OnlyGrantedWritten`). A step of a caller is the allocator's step together
with a write to the address it returned, and `CallReturns` says of that address what a write
needs. The clusters of NTFS then keep their contents because nothing grants them. For the
switch it is shown that a block of a tree is written once its address is no longer in the
queue (`TreesFirst`), that superblocks and the first cluster touch no block, and that the
first superblock written is the primary one (`FirstSuperblock`), which depends on the order
in which `superblock_addrs` is gone through: `AscendingFirst`. A block that the allocator
places past the end of the device (the space list is too long by the reserved area, 3726) is
not claimed to be written; `TreeWritten` says of which units it is.

**The entries.** `RunsOrdered` needs to know of a new entry that its clusters are in no old
one. So `RunsInv` says that the clusters of every entry are *known*: in use and on the device,
or granted. What an allocator returns is neither (`GrantedUnknown`, from `NoOverwrite` and
`AllLocated`), and as it starts on a cluster (`DataAligned`) dividing by the size of a cluster
loses nothing. A section of its own has what the operations do to one list: `RunListInOrder`,
`CutInOrder` (a cut that is not torn leaves the list in order and covering what it did, from
the entries before, the parts of the one that is met, and the entries after) and
`InsertInOrder`. Besides, the invariant has that a chunk was found (`ChunksFound`, for the end
of the last chunk in `ToProtect`) and that relocations are of clusters, so that `Redirected`
sends clusters to clusters: `SentOn` is a recursive function, and that it is the function its
equation says is proved by taking the least number at which it is not (`SentOnStep`).

**The image.** `ImageInv` follows a unit of NTFS from its place to that in the image. While
clusters are relocated, what has been moved is in its copy as it was (`CopiesKept`); what was moved is
among the clusters that are known, and no file is sent to such a cluster (`MovesFresh`); the
entries go on covering all that is in use and tell what was moved (`EntriesKept`); and what `write_superblocks` and
`clear_first_cluster` will overwrite has been moved, if NTFS used it (`WipedMoved`, from
`ProtectPlaced` for the loop that has not come so far). `ImageMade` then says that the extents
of `ntfs.img`, taken from the entries, are these places, one for each unit. Data of files,
trees and superblocks go where none of these are. `DataInside` and `DeviceInv` keep data
chunks on the device: a copy behind its end would not be read back.

**The files.** A mapping is redirected once by every relocation, in the order in which they
were made, and a copy may itself have been moved: `SentKept` says where this ends. `MakesPiece`
is one piece of a mapping, filed by one call of `split_runs`. `FilesInv` has the files that
are still to be gone through (`QueueLeft`) and, of those before, that their extents are made
(`ExtentsMade`): each cluster of a file has an extent at its position that leads to where the
cluster is now (`FileMade`, `IsExtentOf`), and no two extents of a file meet (`ExtentsApart`).

**The checksums.** `calc_checksums` goes through the entries of one segment after another,
joining those that touch. So the invariant has where it stands (`JoinInv`); that the data of an
allocation lies in one segment (`DataInSegments`); that the entries, each under its own
segment, cover what was granted for data, and besides it only what NTFS used (`ListsInv`); and
in the end, that all they cover is summed in just one item, which is no longer than
`RunLimit` allows and says what is on the device (`SumInv`: `SummedOnce`, `KeptAs`). For what
is written after that is neither data that was granted nor a cluster that has not been moved.

**The switch.** `SwitchOver` has two kinds of steps: preparing, while the volume is NTFS, and
the one that switches. Which file system is whole depends, along every conversion, on the
first superblock alone (`VolumeBySuper`). `SuperStays` says that it is never unwritten,
`FailedStays` that giving up changes nothing; with `ImageHoldsNtfs`, `FilesReadBack` and
`ChecksumsKept` for what is whole, each step of `ConvNext` is one of `SwitchOver` or none.

**The end of the device.** If something is in use in the last segment, that segment becomes
the last chunk and the space list loses all up to the end of the device (`EndInv`). A chunk
made later comes from the gaps before; it cannot come from the overshoot behind the device,
which is shorter than any chunk. So `last_chunk_end` is the end of the device, the loops of
`protect_superblocks` look only at the reserved area and the stripes of superblocks
(`ProtectGuarded`), and as these are never granted, what is moved from there is NTFS's own.

**The references.** `create_image` and `create_data_extent_items` go over the same entries; the
files made their extents before, from their mappings. `RelocInv` has that no cluster is moved
twice and no two to one place (`MovesApart`), so that `MovedTo` and `MovedFrom` undo each other.
It follows from `QueueOnce`: what is left to protect is there once and has not been moved, because
the mirrors lie behind the reserved area and nothing behind the last chunk. It also has that
just the entries of copies say so (`CopiesTold`). `FiledInv` is that the entries of files are those
of their extents, up to the piece that `split_runs` has come to (`FiledExtents`). A piece is cut
out of an entry that is nobody's (`PieceOfNobody`), for if it were some file's, that file would
have an extent at the place of the piece (`ExtentAtPlace`), against `FilesOwned`. In the end each entry
has the extents at its place that its item counts: that of the file (`FileAtPlace`) and that of
the image, which for a copy stems from the entry of the cluster it is of (`ImageAtPlace`);
and no extent lies anywhere else (`PlacesListed`). TLC has checked `RelocInv` and `FiledInv` on
`conversion` with a `DeviceSize` of 72 before they were proved.

**Rollback.** What is read is never where rollback writes: the image covers the units NTFS
used, and copies lie outside them (`Sealed`). So each write of `held` puts back what NTFS had
there (`HeldRight`), a kill between two writes leaves the copies to be read again, and what
the mounted volume overwrites is neither. `Accepted` needs that all that the image refers to
is in a chunk: `SpaceCovered` and `UseTaken` put every cluster in use behind the reserved area
into one, a copy has been granted and therefore lies in one, and what was in the reserved area
was moved. That cluster 0 has a copy shows that the device is longer than the reserved area,
hence that the first superblock can be found on it.

**The trees.** `BlocksNeverShare` rests on the geometry of the chunks (`SpaceInv`, kept because
every step is one of `GeometryCases`). Every address ever in `addresses` or `old_addresses` is
of an allocation (`BlocksAllocated`), and `AddressesDiffer` says that no address is on these
lists twice: an old address leaves its list when it becomes a block again, a new one is in no
allocation before.

That each item is written (`AllItemsWritten`) is not inductive in that form, because items
change under the loop. `BuildInv` has three parts. While leaves are made, the items whose keys
are before the iterator's are in leaves already (`LeavesPartly`); when `Relevel` erases the
item the loop stands at, it goes on at the item that has taken its place, whose key is
smaller, so that nothing is missed. While nodes are made, levels do not fall from one block to
the next (`Growing`), which is why the next level
begins right behind the last child. And each tree is still in the queue, or waits for the next
round because `extents_changed` is set, or has all its items (`Whole`). `KnownInv` adds that a
chunk's items are in the trees once `Rebuild` has come by, `LaidInv` what the last steps write.
`Bootable` follows: the blocks of the chunk tree lie in system chunks, which the superblock
lists, and the other trees have their ROOT_ITEMs. TLC has checked `BuildInv`, `KnownInv` and
`LaidInv` on the configuration of `tree_build` before they were proved.

### What is only model-checked, and why

* Liveness: `Terminates`, `Returns`, `Finishes`, `Settles`, `Completes` (not in the prover's
  reach, nor is ENABLED).
* `UsedAccounted` and `UsedByTrees` compare a counter with a sum over entries or blocks.
  `MetadataItemsExact` and `ItemsFound` need that the
  rounds come to the same number of leaves, that is, that packing more items never takes fewer
  leaves. Each is an induction over data, which the provers cannot do.
* The properties of `Inodes`: what `add_inode` makes of a file goes through folds over
  attributes, names and runs.

## 6. Not modelled, and why

* NTFS fixups, the opening of the volume and the reading of `$MFT` through its own mappings:
  functions of bytes. `read_nonresident_mappings` is in the model from the runs on, not from
  their packed form.
* The tokens of LZNT1 and the chunk tables of WOF data; LZX and XPRESS (vendored), zlib, lzo,
  zstd (libraries), hashes, UTF-16: pure functions of bytes. The models keep whether data
  expands, whether it gets shorter, and that two names may have one hash.
* A write-back cache that reorders writes at a power failure: the code flushes nothing.
* Owner, times, device numbers, and the flag against checksums of an inode; the label and
  checksum of the superblock.
* Short reads and the bounce buffer of the device on Windows.
* In `Rollback`: the walk of the trees, RAID profiles, a balance, superblocks of an older Btrfs.
* The command line and the wrappers of the operating system: no state of their own.

## 7. Plan

What could come next, the most useful first:

1. Of `MetadataItemsExact`, the half that each block has an item with its level.
2. `UsedByTrees`, given that sums over the blocks of a chunk change by one block at a time.
3. The packed form of data runs and LZNT1 tokens against reference definitions.
