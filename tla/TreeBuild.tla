----------------------------- MODULE TreeBuild -----------------------------
(***************************************************************************)
(* The trees of the new file system, from their sorted items to blocks.    *)
(*                                                                         *)
(* Every block needs an address, every address taken adds a METADATA_ITEM  *)
(* to the extent tree, and every chunk made adds items to the extent, the  *)
(* chunk and the device tree, which are themselves made of blocks.  So     *)
(* convert lays these three out again and again, each time in the blocks   *)
(* of the time before, until nothing is allocated any more; items that are *)
(* added behind the place create_trees has reached wait for the next time. *)
(* Then addresses, levels and sizes are put into the finished blocks.      *)
(*                                                                         *)
(* Space comes from ChunkSpace.  One action ends one block.                *)
(***************************************************************************)
EXTENDS ChunkSpace, Runs, SequencesExt, FiniteSetsExt

CONSTANTS
    LeafSpace,      \* what the items of a leaf may take together
    NodePtrs,       \* the key pointers that fit into a node
    MaxSysChunks,   \* the system chunks that fit into sys_chunk_array
    Contents        \* the trees of files to be considered: for each volume a
                    \* sequence of trees, each the sequence of its items' sizes

ASSUME TreeBuildAssumption ==
    /\ LeafSpace \in Nat \ {0} /\ NodePtrs \in Nat \ {0, 1} /\ MaxSysChunks \in Nat
    /\ Contents \subseteq Seq(Seq(Nat \ {0}))

VARIABLES
    items,          \* the items of each root, by their keys
    trees,          \* the blocks of each root, in the order they were made
    addresses,      \* the addresses and levels of these blocks
    old_addresses,  \* those of the time before that have not been used again
    layout,         \* what is being done
    queue,          \* the roots that have yet to be laid out, the first under way
    at,             \* where the iterator of create_trees stands
    child,          \* which block the next node begins with
    level,          \* the level of the blocks that are made
    extents_changed,
    known,          \* how many chunks have been added to the trees
    root_items,     \* the addresses and levels in the finished ROOT_ITEMs
    bg_used,        \* the "used" in the finished BLOCK_GROUP_ITEMs
    super           \* the superblock

building == <<items, trees, addresses, old_addresses, layout, queue, at, child, level,
              extents_changed, known>>
finished == <<root_items, bg_used, super>>
tvars == <<building, finished>>

-----------------------------------------------------------------------------
(* Roots and keys. *)

RootTree == 1
ExtentTree == 2
ChunkTree == 3
DevTree == 4
FirstTree == 5      \* the trees of Contents are numbered from here

Rebuilt == {ExtentTree, ChunkTree, DevTree}

INODE_ITEM == 1
ROOT_ITEM == 132
EXTENT_ITEM == 168
METADATA_ITEM == 169
BLOCK_GROUP_ITEM == 192
DEV_EXTENT == 204
DEV_ITEM == 216
CHUNK_ITEM == 228
DEV_STATS == 249

\* A key is <<object, type, offset>>, and keys are ordered like this.
KeyBefore(k, l) ==
    \/ k[1] < l[1]
    \/ k[1] = l[1] /\ k[2] < l[2]
    \/ k[1] = l[1] /\ k[2] = l[2] /\ k[3] < l[3]

FirstKey(keys) == CHOOSE k \in keys : \A l \in keys : ~KeyBefore(l, k)
Sorted(keys) ==
    [i \in 1 .. Cardinality(keys) |->
        CHOOSE k \in keys : Cardinality({l \in keys : KeyBefore(l, k)}) = i - 1]
NoKey == <<0, 0, 0>>

\* What an item takes of a leaf.  An EXTENT_ITEM has up to two references; the
\* items of the other trees are of all sizes, which their keys say here.
ItemSize(key) ==
    CASE key[2] = EXTENT_ITEM -> 2
      [] key[2] = INODE_ITEM -> key[3]
      [] OTHER -> 1

MetadataItem(addr, lvl) == <<addr, METADATA_ITEM, lvl>>
BlockGroupItem(c) == <<c.start, BLOCK_GROUP_ITEM, c.length>>
ChunkItem(c) == <<256, CHUNK_ITEM, c.start>>
DevExtent(c) == <<1, DEV_EXTENT, c.start>>
TheDevItem == <<1, DEV_ITEM, 1>>

\* The items of the trees before any is laid out.
RootItems(ids) == {<<id, ROOT_ITEM, 0>> : id \in ids \ {RootTree, ChunkTree}}
DataItems ==
    {<<r.offset * ClusterSize, EXTENT_ITEM, r.length * ClusterSize>> :
        r \in Range(RunList({a \div ClusterSize : a \in in_use}))}
FileItems(sizes) == {<<i, INODE_ITEM, sizes[i]>> : i \in DOMAIN sizes}

-----------------------------------------------------------------------------
TreeInit ==
    /\ Init
    /\ \E content \in Contents :
         LET ids == 1 .. 4 + Len(content) IN
         /\ items = [id \in ids |->
                       CASE id = RootTree -> RootItems(ids)
                         [] id = ExtentTree -> {}
                         [] id = ChunkTree -> {TheDevItem}
                         [] id = DevTree -> {<<0, DEV_STATS, 1>>}
                         [] OTHER -> FileItems(content[id - 4])]
         /\ trees = [id \in ids |-> <<>>]
         /\ addresses = [id \in ids |-> <<>>]
         /\ old_addresses = [id \in ids |-> <<>>]
    /\ layout = "scan"
    /\ queue = <<>>
    /\ at = NoKey /\ child = 1 /\ level = 0
    /\ extents_changed = TRUE       \* there is always a first time
    /\ known = 0
    /\ root_items = <<>> /\ bg_used = <<>> /\ super = <<>>

Roots == DOMAIN items

\* The chunks are made, the data is in its place and has its EXTENT_ITEMs.
Prepare ==
    /\ layout = "scan"
    /\ ScanSegment \/ NextPhase
    /\ IF phase' = "trees"
       THEN /\ items' = [items EXCEPT ![ExtentTree] = DataItems]
            /\ queue' = Ascending(Roots \ Rebuilt)
            /\ layout' = "next"
       ELSE UNCHANGED <<items, queue, layout>>
    /\ UNCHANGED <<trees, addresses, old_addresses, at, child, level, extents_changed, known,
                   finished>>

\* A root is about to be laid out; its addresses become the old ones.
BeginTree ==
    /\ layout = "next" /\ queue # <<>> /\ phase # "failed"
    /\ LET r == Head(queue) IN
         /\ old_addresses' = [old_addresses EXCEPT ![r] = addresses[r]]
         /\ addresses' = [addresses EXCEPT ![r] = <<>>]
         /\ trees' = [trees EXCEPT ![r] = <<>>]
    /\ layout' = "leaves" /\ at' = NoKey /\ level' = 0
    /\ UNCHANGED <<vars, items, queue, child, extents_changed, known, finished>>

-----------------------------------------------------------------------------
(* get_address, and the block that is put there. *)

Block(addr, lvl, content) == [addr |-> addr, level |-> lvl, content |-> content]

PutBlock(r, addr, lvl, content) ==
    /\ trees' = [trees EXCEPT ![r] = Append(@, Block(addr, lvl, content))]
    /\ addresses' = [addresses EXCEPT ![r] = Append(@, <<addr, lvl>>)]

\* Variant: the METADATA_ITEM keeps its level.
RelevelNothing(old, lvl) == items

\* The METADATA_ITEM of a block that has changed its level gets a new key.
Relevel(old, lvl) ==
    LET was == MetadataItem(old[1], old[2]) IN
    IF lvl # old[2] /\ was \in items[ExtentTree]
    THEN [items EXCEPT ![ExtentTree] = (@ \ {was}) \cup {MetadataItem(old[1], lvl)}]
    ELSE items

\* Is the item that the loop over the extent tree stands at about to be erased?
Erases(r, pending, old, lvl) ==
    /\ r = ExtentTree /\ lvl # old[2]
    /\ pending = MetadataItem(old[1], old[2])

\* A block in the place of an old one.  A loop whose item is erased goes on with
\* what the memory holds then: the new item, or anything, which is taken to be the
\* end of the program.
ReuseAddress(r, lvl, content, pending) ==
    /\ old_addresses[r] # <<>>
    /\ LET old == Head(old_addresses[r])
           erased == Erases(r, pending, old, lvl)
       IN  /\ items' = Relevel(old, lvl)
           /\ PutBlock(r, old[1], lvl, content)
           /\ at' = IF erased THEN MetadataItem(old[1], lvl) ELSE pending
           /\ phase' \in IF erased THEN {phase, "failed"} ELSE {phase}
    /\ old_addresses' = [old_addresses EXCEPT ![r] = Tail(@)]
    /\ UNCHANGED <<in_use, seg, space_list, chunks, allocated, extents_changed>>

\* A block in a place of its own.
NewAddress(r, lvl, content, pending) ==
    /\ old_addresses[r] = <<>>
    /\ AllocateMetadata(r = ChunkTree)
    /\ IF phase' = "failed"
       THEN UNCHANGED <<items, trees, addresses, extents_changed>>
       ELSE LET addr == (CHOOSE a \in allocated' \ allocated : TRUE).addr IN
            /\ items' = [items EXCEPT ![ExtentTree] = @ \cup {MetadataItem(addr, lvl)}]
            /\ PutBlock(r, addr, lvl, content)
            /\ extents_changed' = (extents_changed \/ r \in Rebuilt)
    /\ at' = pending
    /\ UNCHANGED old_addresses

\* Variant: outside the extent tree an old address of another level is dropped.
AddBlockOfLevel(r, lvl, content, pending) ==
    \/ /\ old_addresses[r] # <<>> /\ (r = ExtentTree \/ Head(old_addresses[r])[2] = lvl)
       /\ ReuseAddress(r, lvl, content, pending)
    \/ NewAddress(r, lvl, content, pending)
    \/ /\ r # ExtentTree /\ old_addresses[r] # <<>> /\ Head(old_addresses[r])[2] # lvl
       /\ AllocateMetadata(r = ChunkTree)
       /\ old_addresses' = [old_addresses EXCEPT ![r] = Tail(@)]
       /\ LET addr == (CHOOSE a \in allocated' \ allocated : TRUE).addr IN
          IF phase' = "failed"
          THEN UNCHANGED <<items, trees, addresses, extents_changed>>
          ELSE /\ items' = [items EXCEPT ![ExtentTree] = @ \cup {MetadataItem(addr, lvl)}]
               /\ PutBlock(r, addr, lvl, content)
               /\ extents_changed' = TRUE
       /\ at' = pending

AddBlock(r, lvl, content, pending) ==
    \/ ReuseAddress(r, lvl, content, pending)
    \/ NewAddress(r, lvl, content, pending)

-----------------------------------------------------------------------------
(* create_trees *)

\* The items the loop has yet to see.
Remaining == {k \in items[Head(queue)] : ~KeyBefore(k, at)}

\* What the loop has seen when it has taken k, if these could be in one leaf: no item
\* takes less than one.
UpTo(k) == {l \in Remaining : ~KeyBefore(k, l)}
Near == {k \in Remaining : Cardinality(UpTo(k)) <= LeafSpace}

\* Variant: an item is taken as long as there is any space left.
LeafItemsOver ==
    {k \in Near : MapThenSumSet(ItemSize, UpTo(k) \ {k}) < LeafSpace}

\* Those that go into the next leaf: the first ones, while they fit.
LeafItems == {k \in Near : MapThenSumSet(ItemSize, UpTo(k)) <= LeafSpace}

\* "Item too large for tree."
TooLarge ==
    /\ layout = "leaves" /\ phase # "failed"
    /\ Remaining # {} /\ LeafItems = {}
    /\ phase' = "failed"
    /\ UNCHANGED <<in_use, seg, space_list, chunks, allocated, tvars>>

\* A leaf ends when the next item does not fit or there is none.  The loop stands
\* at that item when the address is asked for.
EndLeaf ==
    /\ layout = "leaves" /\ phase # "failed"
    /\ LET r == Head(queue)
           leaf == LeafItems
           left == Remaining \ leaf
           pending == IF left = {} THEN NoKey ELSE FirstKey(left)
       IN  /\ leaf # {} \/ left = {}
           /\ AddBlock(r, 0, Sorted(leaf), pending)
           /\ IF left # {}
              THEN UNCHANGED <<layout, queue, child, level>>
              ELSE /\ layout' = IF Len(trees'[r]) = 1 THEN "next" ELSE "nodes"
                   /\ queue' = IF Len(trees'[r]) = 1 THEN Tail(queue) ELSE queue
                   /\ child' = 1 /\ level' = 1
    /\ UNCHANGED <<known, finished>>

\* The first key below a block.
KeyOf(b) == IF b.level = 0 THEN b.content[1] ELSE b.content[1].key

\* The blocks of the level below that go into the next node.
NodeChildren(r) ==
    {i \in child .. child + NodePtrs - 1 :
        i \in DOMAIN trees[r] /\ trees[r][i].level = level - 1}

\* A node ends likewise, and the tree with the first level of a single node.
EndNode ==
    /\ layout = "nodes" /\ phase # "failed"
    /\ LET r == Head(queue)
           Below == {i \in DOMAIN trees[r] : trees[r][i].level = level - 1}
           Level == {i \in DOMAIN trees[r] : trees[r][i].level = level}
           children == NodeChildren(r)
           last == CHOOSE i \in children : \A j \in children : j <= i
           Pointer(i) == [key |-> KeyOf(trees[r][i]), addr |-> trees[r][i].addr]
           pointers == [n \in 1 .. Cardinality(children) |-> Pointer(child + n - 1)]
       IN  /\ AddBlock(r, level, pointers, NoKey)
           /\ child' = last + 1
           /\ IF last + 1 \in Below
              THEN UNCHANGED <<layout, queue, level>>
              ELSE IF Level = {}
              THEN /\ layout' = "next" /\ queue' = Tail(queue)
                   /\ UNCHANGED level
              ELSE /\ level' = level + 1
                   /\ UNCHANGED <<layout, queue>>
    /\ UNCHANGED <<known, finished>>

-----------------------------------------------------------------------------
(* The loop of convert over the three trees. *)

Settled == ~extents_changed /\ Len(chunks) = known

\* Variant: nothing resets extents_changed.
RebuildAlways ==
    /\ layout = "next" /\ queue = <<>> /\ ~Settled /\ phase # "failed"
    /\ LET Added == {chunks[i] : i \in known + 1 .. Len(chunks)} IN
         items' = [items EXCEPT ![ChunkTree] = @ \cup {ChunkItem(c) : c \in Added},
                                ![DevTree] = @ \cup {DevExtent(c) : c \in Added},
                                ![ExtentTree] = @ \cup {BlockGroupItem(c) : c \in Added}]
    /\ known' = Len(chunks)
    /\ queue' = <<ExtentTree, ChunkTree, DevTree>>
    /\ UNCHANGED <<vars, trees, addresses, old_addresses, layout, at, child, level,
                   extents_changed, finished>>

\* add_chunk for the chunks made since the last time, then all three once more.
Rebuild ==
    /\ layout = "next" /\ queue = <<>> /\ ~Settled /\ phase # "failed"
    /\ LET Added == {chunks[i] : i \in known + 1 .. Len(chunks)} IN
         items' = [items EXCEPT ![ChunkTree] = @ \cup {ChunkItem(c) : c \in Added},
                                ![DevTree] = @ \cup {DevExtent(c) : c \in Added},
                                ![ExtentTree] = @ \cup {BlockGroupItem(c) : c \in Added}]
    /\ known' = Len(chunks)
    /\ extents_changed' = FALSE
    /\ queue' = <<ExtentTree, ChunkTree, DevTree>>
    /\ UNCHANGED <<vars, trees, addresses, old_addresses, layout, at, child, level, finished>>

Top(r) == trees[r][Len(trees[r])]

\* The keys in the leaves of a root, as they will be written.
LaidOut(r) == UNION {Range(b.content) : b \in {t \in Range(trees[r]) : t.level = 0}}

\* update_root_root, update_extent_root and update_chunk_root.
UpdateTrees ==
    /\ layout = "next" /\ queue = <<>> /\ Settled /\ phase # "failed"
    /\ root_items' =
         [r \in {r \in Roots : <<r, ROOT_ITEM, 0>> \in LaidOut(RootTree)} |->
             [addr |-> Top(r).addr, level |-> Top(r).level]]
    /\ bg_used' =
         [start \in {c.start : c \in {d \in Range(chunks) :
                                        BlockGroupItem(d) \in LaidOut(ExtentTree)}} |->
             (CHOOSE c \in Range(chunks) : c.start = start).used]
    /\ layout' = "super"
    /\ UNCHANGED <<vars, items, trees, addresses, old_addresses, queue, at, child, level,
                   extents_changed, known, super>>

\* Variant: the superblock describes the first of them only.
SysChunksFirst ==
    {c \in Range(chunks) :
        c = chunks[CHOOSE i \in DOMAIN chunks :
                     /\ chunks[i].type = "system"
                     /\ \A j \in 1 .. i - 1 : chunks[j].type # "system"]}

\* The system chunks that the superblock describes.
SysChunks == {c \in Range(chunks) : c.type = "system" /\ ChunkItem(c) \in items[ChunkTree]}

\* write_superblocks, as far as it says where the trees are.
WriteSuper ==
    /\ layout = "super" /\ phase # "failed"
    /\ IF Cardinality(SysChunks) > MaxSysChunks
       THEN phase' = "failed" /\ UNCHANGED <<layout, super>>
       ELSE /\ super' = [root |-> Top(RootTree).addr, root_level |-> Top(RootTree).level,
                         chunk_root |-> Top(ChunkTree).addr,
                         chunk_root_level |-> Top(ChunkTree).level,
                         sys_chunks |-> {[start |-> c.start, length |-> c.length] :
                                           c \in SysChunks},
                         bytes_used |-> MapThenSumSet(LAMBDA i : chunks[i].used,
                                                      DOMAIN chunks)]
            /\ layout' = "done"
            /\ UNCHANGED phase
    /\ UNCHANGED <<in_use, seg, space_list, chunks, allocated, items, trees, addresses,
                   old_addresses, queue, at, child, level, extents_changed, known,
                   root_items, bg_used>>

TreeNext ==
    \/ Prepare
    \/ BeginTree
    \/ TooLarge
    \/ EndLeaf
    \/ EndNode
    \/ Rebuild
    \/ UpdateTrees
    \/ WriteSuper

TreeSpec == TreeInit /\ [][TreeNext]_<<vars, tvars>> /\ WF_<<vars, tvars>>(TreeNext)

-----------------------------------------------------------------------------
Laid == layout \in {"super", "done"}

BlocksOf(r) == Range(trees[r])
AllBlocks == UNION {BlocksOf(r) : r \in Roots}

\* The extent tree that is written has a METADATA_ITEM for every block of every tree,
\* its own among them, with the level the block came to have, and no other: each time
\* round, items are added behind the iterator and blocks change their level.
MetadataItemsExact ==
    Laid => {k \in LaidOut(ExtentTree) : k[2] = METADATA_ITEM}
              = {MetadataItem(b.addr, b.level) : b \in AllBlocks}

\* Every item of a root, whenever it was added, is in a leaf that a search from the
\* top of the tree comes to, and leaves hold no more than fits.
LeafFor(r, key) ==
    LET top == Top(r)
        Below(b) == LET p == CHOOSE p \in Range(b.content) :
                               /\ ~KeyBefore(key, p.key)
                               /\ \A q \in Range(b.content) :
                                     KeyBefore(p.key, q.key) => KeyBefore(key, q.key)
                    IN  CHOOSE c \in BlocksOf(r) : c.addr = p.addr
        path[l \in 0 .. top.level] == IF l = top.level THEN top ELSE Below(path[l + 1])
    IN  path[0]

ItemsFound ==
    Laid => \A r \in Roots :
        /\ \A k \in items[r] : LeafFor(r, k).level = 0 /\ k \in Range(LeafFor(r, k).content)
        /\ \A b \in BlocksOf(r) :
              IF b.level = 0
              THEN MapThenSumSet(ItemSize, Range(b.content)) <= LeafSpace
              ELSE Len(b.content) <= NodePtrs

\* From the superblock everything is found: the chunk tree lies in chunks that the
\* superblock itself describes, the chunk tree describes every chunk, with an item in the
\* device tree and one in the extent tree, and the root tree leads to the top of every
\* tree that is not named in the superblock.
Bootable ==
    layout = "done" =>
        /\ \A b \in BlocksOf(ChunkTree) : \E c \in super.sys_chunks :
              Extent(b.addr, TreeSize) \subseteq Extent(c.start, c.length)
        /\ \A c \in Range(chunks) :
              /\ ChunkItem(c) \in LaidOut(ChunkTree)
              /\ DevExtent(c) \in LaidOut(DevTree)
              /\ c.start \in DOMAIN bg_used
        /\ \A r \in Roots \ {RootTree, ChunkTree} :
              \E b \in BlocksOf(r) :
                  /\ root_items[r] = [addr |-> b.addr, level |-> b.level]
                  /\ \A other \in BlocksOf(r) : other.level < b.level \/ other = b

\* No block is lost on the way: what metadata and system chunks count as used, and with
\* them the superblock, is what the trees that are written take.
UsedByTrees ==
    Laid => \A c \in {d \in Range(chunks) : d.type # "data"} :
        bg_used[c.start] =
            TreeSize * Cardinality({b \in AllBlocks : b.addr \in Extent(c.start, c.length)})

\* Laying out the trees comes to an end though every round may need another.
Settles == <>(layout = "done" \/ phase = "failed")

=============================================================================
