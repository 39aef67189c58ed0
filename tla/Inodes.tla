------------------------------- MODULE Inodes -------------------------------
(***************************************************************************)
(* create_inodes: every file of the NTFS volume becomes an inode of the    *)
(* new tree of files, in the order of the MFT.                             *)
(*                                                                         *)
(* One action is one attribute, or one step of add_inode; none writes to   *)
(* the device more than once.  Each byte of the device holds what was      *)
(* there at first, a zero, or the data of a file that has been rewritten.  *)
(* Which entries of the runs the clusters get, and where those of the      *)
(* superblocks have been moved, is in module Conversion: here the clusters *)
(* below Reserved are the ones that have been moved.                       *)
(***************************************************************************)
EXTENDS NtfsFile, FsTree, Space

LOCAL INSTANCE SequencesExt
LOCAL INSTANCE FiniteSetsExt

CONSTANTS
    SectorSize,     \* of Btrfs
    MaxInline,      \* what an inline extent may hold
    MaxExtent,      \* the length of an extent
    MaxCompExtent,  \* and of one that is compressed
    MaxItem,        \* what the name and the value of an attribute may take
    MaxName,        \* the bytes of a name
    Reserved,       \* how many clusters have been moved away
    Clusters,       \* how many the volume has
    Compression,    \* whether data is to be compressed
    Volumes         \* the volumes to be considered

VARIABLES
    volume,         \* the one there is
    disk,           \* what each byte holds
    free,           \* the bytes that allocate_data can give
    skiplist,       \* the directories of the system
    todo,           \* the records that have yet to be looked at
    stage,          \* what is being done with the first of them
    atts,           \* its attributes that have not been visited
    f,              \* what is known of it
    t               \* the tree of files

ivars == <<volume, disk, free, skiplist, todo, stage, atts, f, t>>

ASSUME InodesAssumption ==
    /\ ClusterSize \in Nat \ {0} /\ SectorSize \in Nat \ {0}
    /\ ClusterSize % SectorSize = 0

RootDir == 5                \* NTFS_ROOT_DIR_INODE
FirstNtfsInode == 24
BtrfsInode(n) == IF n = RootDir THEN FirstFree ELSE n + 257     \* inode_offset

\* Names of attributes, which are not those of files.
NtAcl == <<"security.NTACL">>
DosAttrib == <<"user.DOSATTRIB">>
Reparse == <<"user.reparse">>
Capability == <<"security.capability">>
Stream(name) == <<"user.">> \o name
WofStream == <<"WofCompressedData">>

PageFiles == {<<"pagefile.sys">>, <<"hiberfil.sys">>, <<"swapfile.sys">>}

\* What a byte can hold: <<"ntfs", u>>, what was there at first; <<"zero">>; byte p of
\* the data of file n that was stored compressed; and the i-th of k bytes that are the
\* compressed form of some data.
Plain(n, p) == <<"plain", n, p>>
Packed(data, i, k) == <<"packed", data, i, k>>

Units == 0 .. Clusters * ClusterSize - 1
Original(u) == IF u \in DOMAIN volume.stored THEN volume.stored[u] ELSE <<"ntfs", u>>

\* dev.write
Written(addr, content) ==
    [u \in Units |-> IF u - addr + 1 \in DOMAIN content THEN content[u - addr + 1] ELSE disk[u]]

mft == volume.mft
Current == Head(todo)
IsDir == mft[Current].dir

NewFile ==
    [links |-> <<>>, file_size |-> 0, vdl |-> 0, unit |-> 0, processed |-> FALSE,
     skipping |-> FALSE, mappings |-> <<>>, inline |-> <<>>, info |-> <<>>, sd |-> <<>>,
     reparse |-> <<>>, symlink |-> <<>>, xattrs |-> <<>>, eas |-> <<>>,
     wof |-> <<>>, wof_size |-> 0, wof_vdl |-> 0, wof_mappings |-> <<>>, wof_processed |-> FALSE,
     pos |-> 0, compress |-> Compression, flags |-> {}]

InodesInit ==
    /\ volume \in Volumes
    /\ disk = [u \in Units |-> Original(u)]
    /\ free = {u \in Units : u \div ClusterSize \notin 0 .. Reserved - 1 \cup volume.in_use}
    /\ skiplist = {}
    /\ todo = volume.records
    /\ stage = "next" /\ atts = <<>> /\ f = NewFile
    /\ t = EmptyTree

-----------------------------------------------------------------------------
(* One record after the other. *)

\* A file of the system has no inode, nor has anything below a directory of it.
SystemInode ==
    /\ stage = "next" /\ todo # <<>> /\ Current < FirstNtfsInode
    /\ skiplist' = IF Current = RootDir THEN skiplist
                   ELSE skiplist \cup SkippedWith(mft, Current)
    /\ todo' = Tail(todo)
    /\ UNCHANGED <<volume, disk, free, stage, atts, f, t>>

\* A record that extends another one is read along with that.
BeginInode ==
    /\ stage = "next" /\ todo # <<>> /\ Current >= FirstNtfsInode
    /\ \/ /\ mft[Current].base # 0
          /\ todo' = Tail(todo)
          /\ UNCHANGED <<stage, atts, f>>
       \/ /\ mft[Current].base = 0
          /\ stage' = "atts" /\ atts' = Visited(mft, Current) /\ f' = NewFile
          /\ UNCHANGED todo
    /\ UNCHANGED <<volume, disk, free, skiplist, t>>

Visiting(type) == stage = "atts" /\ atts # <<>> /\ Head(atts).type = type
Learned(g) ==
    /\ f' = g /\ atts' = Tail(atts)
    /\ UNCHANGED <<volume, disk, free, skiplist, todo, stage, t>>

VisitStandardInformation ==
    /\ Visiting("STANDARD_INFORMATION")
    /\ Learned([f EXCEPT !.info = <<Head(atts).value>>])

\* The data of the file, perhaps a further piece of it.
VisitData ==
    /\ Visiting("DATA") /\ Head(atts).name = <<>>
    /\ LET a == Head(atts)
           first == IF f.processed THEN f
                    ELSE [f EXCEPT !.file_size = a.size, !.vdl = a.vdl, !.unit = a.unit]
       IN  Learned(
             IF a.encrypted THEN [f EXCEPT !.skipping = TRUE]
             ELSE IF a.resident
             THEN [f EXCEPT !.file_size = Len(a.value), !.vdl = Len(a.value),
                            !.inline = a.value, !.processed = TRUE]
             ELSE [first EXCEPT !.mappings = AddMappings(@, a, first.vdl),
                                !.processed = TRUE])

\* Whether an attribute with this name may have so many bytes.
FitsItem(name, size) == Bytes(name) + size <= MaxItem

SizeOf(a) == IF a.resident THEN Len(a.value) ELSE a.size

\* std::map::emplace: what is there already stays.
Emplaced(map, key, value) == IF key \in DOMAIN map THEN map ELSE With(map, key, value)

WithWof(a) ==
    IF a.resident
    THEN IF f.wof_processed THEN f
         ELSE [f EXCEPT !.wof = a.value, !.wof_size = Len(a.value)]
    ELSE LET vdl == IF f.wof_processed THEN f.wof_vdl ELSE a.vdl
         IN  [f EXCEPT !.wof_size = IF f.wof_processed THEN @ ELSE a.size,
                       !.wof_vdl = vdl,
                       !.wof_mappings = AddMappings(@, a, vdl), !.wof_processed = TRUE]

\* A stream becomes an extended attribute, unless it is encrypted, compressed, too large
\* or has too long a name.  That of compressed system files is their data.
VisitStream ==
    /\ Visiting("DATA") /\ Head(atts).name # <<>>
    /\ LET a == Head(atts)
           name == Stream(a.name)
       IN  Learned(
             IF a.encrypted \/ a.unit # 0 \/ Bytes(name) > MaxName THEN f
             ELSE IF a.name = WofStream THEN WithWof(a)
             ELSE IF ~FitsItem(name, SizeOf(a)) THEN f
             ELSE [f EXCEPT !.xattrs = Emplaced(@, name, Contents(disk, a))])

\* fix_truncated_utf8: only whole characters are kept of a name that is too long.
Truncated(name) ==
    LET Short == {k \in 0 .. Len(name) : Bytes(SubSeq(name, 1, k)) <= MaxName}
    IN  SubSeq(name, 1, CHOOSE k \in Short : \A j \in Short : j <= k)

\* Variant: a name is not taken twice, wherever it is.
KnownName(link) == \E l \in Range(f.links) : l[2] = link[2]

KnownLink(link) == link \in Range(f.links)

\* A name of the file that is not the one made for DOS.  A directory has one.
VisitFileName ==
    /\ Visiting("FILE_NAME")
    /\ LET v == Head(atts).value
           link == <<v.parent, Truncated(v.name)>>
       IN  Learned(
             IF v.dos \/ (IsDir /\ f.links # <<>>) \/ v.parent \in skiplist \/ KnownLink(link)
             THEN f
             ELSE [f EXCEPT !.links = Append(@, link)])

\* What the reparse point says: a relative symlink, one of WSL, or anything else.
VisitReparsePoint ==
    /\ Visiting("REPARSE_POINT")
    /\ LET v == Head(atts).value IN
         Learned(IF ~IsDir /\ v.tag \in {"relative", "lx"}
                 THEN [f EXCEPT !.reparse = <<>>, !.symlink = v.data]
                 ELSE [f EXCEPT !.reparse = <<v>>, !.symlink = <<>>])

VisitSecurityDescriptor ==
    /\ Visiting("SECURITY_DESCRIPTOR")
    /\ Learned(IF ~FitsItem(NtAcl, SizeOf(Head(atts))) THEN f
               ELSE [f EXCEPT !.sd = Contents(disk, Head(atts))])

VisitEa ==
    /\ Visiting("EA")
    /\ Learned([f EXCEPT !.eas =
                  FoldLeft(LAMBDA map, ea : Emplaced(map, ea.name, ea.value),
                           @, Head(atts).value)])

VisitOther ==
    /\ stage = "atts" /\ atts # <<>>
    /\ Head(atts).type \in {"INDEX_ROOT", "INDEX_ALLOCATION", "BITMAP"}
    /\ Learned(f)

PageFile ==
    /\ Len(f.links) = 1
    /\ f.links[1][1] = RootDir /\ f.links[1][2] \in PageFiles

NextInode == stage' = "next" /\ todo' = Tail(todo)

\* Variant: the record is looked at again.
SkipAgain == stage' = "next" /\ UNCHANGED todo

Skip == NextInode

\* What is encrypted, a page file or without a name gets no inode.
EndAttributes ==
    /\ stage = "atts" /\ atts = <<>>
    /\ IF f.skipping \/ PageFile \/ f.links = <<>>
       THEN Skip
       ELSE stage' = "unpack" /\ UNCHANGED todo
    /\ UNCHANGED <<volume, disk, free, skiplist, atts, f, t>>

-----------------------------------------------------------------------------
(* Data that is not simply where the mappings say. *)

\* The clusters of the mappings, one after the other.
ClustersOf(ms) ==
    FoldLeft(LAMBDA cs, m : cs \o [i \in 1 .. m.length |->
                                     IF m.lcn = Hole THEN Hole ELSE m.lcn + i - 1],
             <<>>, ms)

\* Whether the start of a buffer is a whole compressed stream: of zeroes, or of the
\* data of a file from some position on.
IsStream(kind, buf) ==
    \/ buf[1] = <<"zero">>
    \/ /\ buf[1][1] = kind /\ buf[1][5] <= Len(buf)
       /\ \A i \in 1 .. buf[1][5] : buf[i] = <<kind, buf[1][2], buf[1][3], i, buf[1][5]>>

Expanded(buf, size) ==
    [p \in 1 .. size |-> IF buf[1] = <<"zero">> THEN <<"zero">>
                         ELSE Plain(buf[1][2], buf[1][3] + p - 1)]

\* The compression units of a file: each is stored as it is, unless a cluster of it is
\* missing.
UnitOf(cs, u, cus) ==
    [i \in 1 .. cus * ClusterSize |->
        LET c == u * cus + ((i - 1) \div ClusterSize) + 1
        IN  IF c \notin DOMAIN cs THEN <<"zero">>
            ELSE IF cs[c] = Hole THEN <<"zero">>
            ELSE disk[cs[c] * ClusterSize + ((i - 1) % ClusterSize)]]
Compressed(cs, u, cus) ==
    \E c \in u * cus + 1 .. (u + 1) * cus : IF c \in DOMAIN cs THEN cs[c] = Hole ELSE TRUE

Unpacked(cs, cus) ==
    LET Unpack(data, u) ==
          IF Len(data) >= f.file_size THEN data
          ELSE data \o (IF Compressed(cs, u, cus)
                        THEN Expanded(UnitOf(cs, u, cus),
                                      Least(cus * ClusterSize, f.file_size - Len(data)))
                        ELSE UnitOf(cs, u, cus))
    IN  FoldLeft(Unpack, <<>>, [u \in 1 .. Up(Len(cs), cus) |-> u - 1])

CompressionUnit(g) == 2 ^ g.unit
BadUnit ==
    LET cs == ClustersOf(f.mappings)
        cus == CompressionUnit(f)
    IN  f.unit # 0 /\ \E u \in 0 .. Up(Len(cs), cus) - 1 :
            /\ u * cus * ClusterSize < f.file_size
            /\ Compressed(cs, u, cus) /\ ~IsStream("lz", UnitOf(cs, u, cus))

Decompressed(g) ==
    IF g.unit = 0 THEN g
    ELSE LET data == Unpacked(ClustersOf(g.mappings), CompressionUnit(g))
         IN  [g EXCEPT !.inline = SubSeq(data, 1, Least(Len(data), g.file_size)),
                       !.mappings = <<>>]

\* A descriptor that is shared is found in $Secure by its number.
Found == Search(volume.sii, f.info[1].security)
SharedHeader == ReadAttribute(disk, volume.sds, Found[1].offset, Found[1].length)[1]
Shared == f.sd = <<>> /\ f.info # <<>> /\ f.info[1].security # 0 /\ Found # <<>>

WithSecurity(g) ==
    IF Shared
    THEN [g EXCEPT !.sd = Tail(ReadAttribute(disk, volume.sds, Found[1].offset, Found[1].length))]
    ELSE g

\* "WOF compressed data": once the reparse point has been understood, it is gone, and so
\* are the mappings, whether or not the data can then be decompressed.
WofData(g) ==
    [i \in 1 .. g.wof_size |->
        LET Holding == {m \in Range(g.wof_mappings) :
                          (i - 1) \div ClusterSize \in m.vcn .. m.vcn + m.length - 1}
            m == CHOOSE m \in Holding : TRUE
        IN  IF g.wof_mappings = <<>> THEN g.wof[i]
            ELSE IF Holding = {} THEN <<"zero">>
            ELSE disk[(m.lcn - m.vcn) * ClusterSize + i - 1]]

WithWofData(g) ==
    IF g.reparse = <<>> THEN g
    ELSE IF g.reparse[1].tag # "wof" THEN g
    ELSE LET data == WofData(g) IN
         [g EXCEPT !.reparse = <<>>, !.mappings = <<>>,
                   !.inline = IF data # <<>> /\ IsStream("wof", data)
                              THEN Expanded(data, g.file_size) ELSE @]

\* The data of a reparse point, or the target of a symlink, is the data of the file.
WithReparseData(g) ==
    IF ~IsDir /\ g.reparse # <<>>
    THEN [g EXCEPT !.inline = g.reparse[1].data, !.file_size = Len(g.reparse[1].data),
                   !.vdl = Len(g.reparse[1].data)]
    ELSE IF g.symlink # <<>>
    THEN [g EXCEPT !.mappings = <<>>, !.inline = g.symlink,
                   !.file_size = Len(g.symlink), !.vdl = Len(g.symlink)]
    ELSE g

Unpack ==
    /\ stage = "unpack"
    /\ \/ /\ BadUnit \/ (Shared /\ SharedHeader # Found[1].header)
          /\ stage' = "failed" /\ UNCHANGED f
       \/ /\ ~BadUnit /\ ~(Shared /\ SharedHeader # Found[1].header)
          /\ f' = WithReparseData(WithWofData(WithSecurity(Decompressed(f))))
          /\ stage' = CASE f'.mappings # <<>> -> "map"
                        [] f'.mappings = <<>> /\ f'.inline # <<>> -> "write"
                        [] OTHER -> "link"
    /\ UNCHANGED <<volume, disk, free, skiplist, todo, atts, t>>

-----------------------------------------------------------------------------
(* Data that stays where it is. *)

Aligned(n) == Up(n, ClusterSize)

\* The mappings without their last k clusters.
DropClusters(ms, k) ==
    LET After(i) == MapThenSumSet(LAMBDA j : ms[j].length, i + 1 .. Len(ms))
        Gone(i) == k > After(i) /\ ms[i].length <= k - After(i)
        kept == SelectSeq([i \in DOMAIN ms |-> [m |-> ms[i], gone |-> Gone(i), cut |-> k - After(i)]],
                          LAMBDA x : ~x.gone)
    IN  [i \in DOMAIN kept |->
            IF kept[i].cut > 0 THEN [kept[i].m EXCEPT !.length = @ - kept[i].cut] ELSE kept[i].m]

\* process_mappings leaves out what is not on the volume.
WithoutHoles(ms) == SelectSeq(ms, LAMBDA m : m.lcn # Hole)

\* A hole up to the end of the file follows the last mapping, if there is one, and whole
\* clusters after the valid data go.
ValidMappings ==
    LET own == WithoutHoles(f.mappings)
        size == Aligned(f.file_size)
        end == End(own)
        filled == own \o
                    (IF own # <<>> /\ end < size
                     THEN <<[lcn |-> Hole, vcn |-> end, length |-> size - end]>>
                     ELSE <<>>)
    IN  IF f.vdl < f.file_size THEN DropClusters(filled, size - Aligned(f.vdl)) ELSE own

MapFile ==
    /\ stage = "map"
    /\ f' = [f EXCEPT !.mappings = ValidMappings]
    /\ stage' = IF f.vdl < f.file_size /\ f.vdl % ClusterSize # 0 THEN "tail" ELSE "extents"
    /\ UNCHANGED <<volume, disk, free, skiplist, todo, atts, t>>

\* Variant: the cluster after the last one is taken for it.
ClustersBehind ==
    IF f.mappings = <<>> THEN 0 .. Clusters
    ELSE {LET m == f.mappings[Len(f.mappings)] IN m.lcn + m.length}

\* The cluster in which the valid data is thought to end, the last one of the last mapping.
\* If there is no mapping, back() of the empty list is undefined: it may be any cluster, or
\* none, which the number Clusters stands for.
LastClusters ==
    IF f.mappings = <<>> THEN 0 .. Clusters
    ELSE {LET m == f.mappings[Len(f.mappings)] IN m.lcn + m.length - 1}

\* The sector of that cluster in which the valid data ends.
TailSector(cluster) ==
    cluster * ClusterSize + (((f.vdl % ClusterSize) \div SectorSize) * SectorSize)

\* The rest of that sector is zeroed on the device.
ZeroTail ==
    /\ stage = "tail"
    /\ \E cluster \in LastClusters :
         IF cluster < Clusters
         THEN /\ disk' = Written(TailSector(cluster) + (f.vdl % SectorSize),
                                Zeroes(SectorSize - (f.vdl % SectorSize)))
              /\ stage' = "extents"
         ELSE stage' = "failed" /\ UNCHANGED disk
    /\ UNCHANGED <<volume, free, skiplist, todo, atts, f, t>>

Extents(pos, length, addr, disk_length, compressed) ==
    [kind |-> "reg", pos |-> pos, length |-> length, addr |-> addr,
     disk_length |-> disk_length, compressed |-> compressed]
InlineExtent(content) ==
    [kind |-> "inline", pos |-> 0, length |-> Len(content), content |-> content]

WithExtent(e) ==
    LET i == BtrfsInode(Current)
    IN  [t EXCEPT !.extents = With(@, i, At(@, i, {}) \cup {e})]

\* An EXTENT_DATA item for each mapping that is not a hole.
AddExtents ==
    /\ stage = "extents"
    /\ t' = [t EXCEPT !.extents = With(@, BtrfsInode(Current),
               {Extents(m.vcn * ClusterSize, m.length * ClusterSize, m.lcn * ClusterSize,
                        m.length * ClusterSize, FALSE) :
                   m \in {m \in Range(f.mappings) : m.lcn # Hole}})]
    /\ stage' = "link"
    /\ UNCHANGED <<volume, disk, free, skiplist, todo, atts, f>>

-----------------------------------------------------------------------------
(* Data that is written anew. *)

ZeroedAfter(data, vdl) == [p \in DOMAIN data |-> IF p > vdl THEN <<"zero">> ELSE data[p]]

\* A little data is kept in the tree.
WriteInline ==
    /\ stage = "write" /\ Len(f.inline) <= MaxInline
    /\ t' = WithExtent(InlineExtent(ZeroedAfter(f.inline, f.vdl)))
    /\ stage' = "link"
    /\ UNCHANGED <<volume, disk, free, skiplist, todo, atts, f>>

\* The data is a number of sectors long.
Rewritten ==
    LET size == SectorSize * Up(Len(f.inline), SectorSize)
    IN  ZeroedAfter([p \in 1 .. size |-> IF p <= Len(f.inline) THEN f.inline[p] ELSE <<"zero">>],
                    f.vdl)
Left == Len(Rewritten) - f.pos

\* allocate_data, dev.write and the EXTENT_DATA for the next length bytes, of which
\* content goes to the device.
PutExtent(length, content, compressed, g) ==
    IF Fits(free, Len(content)) = {}
    THEN stage' = "failed" /\ UNCHANGED <<disk, free, f, t>>
    ELSE LET addr == FirstFit(free, Len(content)) IN
         /\ free' = SpaceListRemove(free, addr, Len(content))
         /\ disk' = Written(addr, content)
         /\ t' = WithExtent(Extents(f.pos, length, addr, Len(content), compressed))
         /\ f' = [g EXCEPT !.pos = f.pos + length]
         /\ stage' = IF Left > length THEN "write" ELSE "link"

Piece(length) == SubSeq(Rewritten, f.pos + 1, f.pos + length)
Writing == stage = "write" /\ Len(f.inline) > MaxInline

\* Data as it is: it is not to be compressed, or too little for that.
WritePlain ==
    /\ Writing
    /\ ~f.compress \/ Left <= ClusterSize
    /\ LET length == Least(MaxExtent, Left) IN PutExtent(length, Piece(length), FALSE, f)
    /\ UNCHANGED <<volume, skiplist, todo, atts>>

\* Data that gets smaller by a cluster at least.
WriteCompressed ==
    /\ Writing /\ f.compress /\ Left > ClusterSize
    /\ LET length == Least(MaxCompExtent, Left) IN
         \E size \in {Up(s, ClusterSize) * ClusterSize : s \in 1 .. length - ClusterSize} :
             PutExtent(length, [i \in 1 .. size |-> Packed(Piece(length), i, size)], TRUE,
                       [f EXCEPT !.flags = @ \cup {"COMPRESS"}])
    /\ UNCHANGED <<volume, skiplist, todo, atts>>

\* Data that does not.  If it is the first of the file, nothing more is tried.
WriteIncompressible ==
    /\ Writing /\ f.compress /\ Left > ClusterSize
    /\ LET first == f.pos = 0
           length == Least(IF first THEN MaxExtent ELSE MaxCompExtent, Left)
       IN  PutExtent(length, Piece(length), FALSE,
                     IF first THEN [f EXCEPT !.compress = FALSE,
                                             !.flags = @ \cup {"NOCOMPRESS"}]
                     ELSE f)
    /\ UNCHANGED <<volume, skiplist, todo, atts>>

-----------------------------------------------------------------------------
(* The inode and its names. *)

\* set_mode: WSL knows what kind of file it is, but cannot make a directory of a file or
\* the other way round.
SetMode(type) == IF IsDir THEN "dir" ELSE IF type = "dir" THEN "reg" ELSE type

Kind ==
    IF "LXATTRB" \in DOMAIN f.eas THEN SetMode(f.eas["LXATTRB"])
    ELSE IF "$LXMOD" \in DOMAIN f.eas THEN SetMode(f.eas["$LXMOD"])
    ELSE IF IsDir THEN "dir"
    ELSE IF f.symlink # <<>> THEN "lnk"
    ELSE "reg"

\* The DOS attributes, and those a file has if it says nothing of them.
DosAttributes ==
    LET flags == f.info[1].flags \ {"directory", "reparse"}
    IN  flags \cup (IF IsDir THEN {"directory"} ELSE {})
              \cup (IF f.reparse # <<>> \/ f.symlink # <<>> THEN {"reparse"} ELSE {})
DefaultAttributes ==
    {IF IsDir THEN "directory" ELSE "archive"}
      \cup (IF Len(f.links) = 1 /\ f.links[1][2][1] = "." THEN {"hidden"} ELSE {})

\* What is emplaced after the streams, in this order.
Xattrs ==
    LET Added(map, x) == IF x.wanted THEN Emplaced(map, x.name, x.value) ELSE map
    IN  FoldLeft(Added, f.xattrs,
          <<[wanted |-> "LX.SECURITY.CAPABILITY" \in DOMAIN f.eas, name |-> Capability,
             value |-> At(f.eas, "LX.SECURITY.CAPABILITY", <<>>)],
            [wanted |-> f.sd # <<>>, name |-> NtAcl, value |-> f.sd],
            [wanted |-> f.info # <<>> /\ DosAttributes # DefaultAttributes,
             name |-> DosAttrib, value |-> DosAttributes],
            [wanted |-> IsDir /\ f.reparse # <<>>, name |-> Reparse, value |-> f.reparse]>>)

\* Variant: entries have the kind that NTFS knows.
KindOfEntryByRecord == IF IsDir THEN "dir" ELSE "reg"

KindOfEntry == Kind

AddInode ==
    /\ stage = "link"
    /\ LET i == BtrfsInode(Current)
           item == [type |-> Kind, nlink |-> Len(f.links), flags |-> f.flags,
                    size |-> IF IsDir THEN 0 ELSE f.file_size]
           Link(tree, link) == LinkInode(tree, i, BtrfsInode(link[1]), link[2], KindOfEntry)
           linked == FoldLeft(Link, [t EXCEPT !.inode_items = With(@, i, item)], f.links)
       IN  IF XattrClash(Xattrs)
           THEN stage' = "failed" /\ UNCHANGED <<todo, t>>
           ELSE NextInode /\ t' = SetXattrs(linked, i, Xattrs)
    /\ UNCHANGED <<volume, disk, free, skiplist, atts, f>>

\* At the end, directories are told their sizes.
Finish ==
    /\ stage = "next" /\ todo = <<>>
    /\ t' = UpdateDirSizes(t)
    /\ stage' = "done"
    /\ UNCHANGED <<volume, disk, free, skiplist, todo, atts, f>>

Visit ==
    \/ VisitStandardInformation
    \/ VisitData
    \/ VisitStream
    \/ VisitFileName
    \/ VisitReparsePoint
    \/ VisitSecurityDescriptor
    \/ VisitEa
    \/ VisitOther

InodesNext ==
    \/ SystemInode
    \/ BeginInode
    \/ Visit
    \/ EndAttributes
    \/ Unpack
    \/ MapFile
    \/ ZeroTail
    \/ AddExtents
    \/ WriteInline
    \/ WritePlain
    \/ WriteCompressed
    \/ WriteIncompressible
    \/ AddInode
    \/ Finish

InodesSpec == InodesInit /\ [][InodesNext]_ivars /\ WF_ivars(InodesNext)

-----------------------------------------------------------------------------
(* The NTFS volume, as NTFS itself has it. *)

\* The attributes of a file, whichever record they are in.
AttsOf(n) == UNION {Range(mft[m].atts) : m \in {m \in DOMAIN mft : m = n \/ mft[m].base = n}}
OfType(n, type) == {a \in AttsOf(n) : a.type = type}
Pieces(n, name) == {a \in OfType(n, "DATA") : a.name = name}
FirstPiece(n, name) == CHOOSE a \in Pieces(n, name) : a.lowest = 0

\* The cluster that holds cluster vcn of an attribute.
TrueLcn(n, name, vcn) ==
    LET Holding(a) == {i \in DOMAIN a.runs : vcn \in VcnOf(a, i) .. VcnOf(a, i + 1) - 1}
        a == CHOOSE a \in Pieces(n, name) : Holding(a) # {}
        i == CHOOSE i \in Holding(a) : TRUE
    IN  IF \A b \in Pieces(n, name) : Holding(b) = {} THEN Hole
        ELSE IF a.runs[i].hole THEN Hole
        ELSE LcnOf(a, i) + vcn - VcnOf(a, i)

\* Byte p of the unnamed data or of a stream.
TrueByte(n, name, p) ==
    LET a == FirstPiece(n, name)
        cus == 2 ^ a.unit
        unit == p \div (cus * ClusterSize)
        Lcn(vcn) == TrueLcn(n, name, vcn)
        Missing == {vcn \in unit * cus .. unit * cus + cus - 1 : Lcn(vcn) = Hole}
    IN  CASE a.resident -> a.value[p + 1]
          [] ~a.resident /\ (p >= a.vdl \/ Cardinality(Missing) = cus) -> <<"zero">>
          [] ~a.resident /\ p < a.vdl /\ Missing = {} ->
                Original(Lcn(p \div ClusterSize) * ClusterSize + (p % ClusterSize))
          [] OTHER -> Plain(n, p)

\* A file of the user has a base record of its own, and a name in a directory that is
\* not the system's.
SystemDirs ==
    Below(mft, {n \in DOMAIN mft : n < FirstNtfsInode /\ n # RootDir /\ mft[n].dir},
          LAMBDA n : {e.file : e \in {d \in UNION {Range(mft[n].index[k]) :
                                                     k \in DOMAIN mft[n].index} :
                                        ~d.last /\ d.dir}})
NamesOf(n) ==
    {<<a.value.parent, a.value.name>> : a \in {b \in OfType(n, "FILE_NAME") : ~b.value.dos}}
UserFiles ==
    {n \in DOMAIN mft :
        /\ n >= FirstNtfsInode /\ mft[n].base = 0
        /\ \E l \in NamesOf(n) : l[1] \notin SystemDirs
        /\ ~\E l \in NamesOf(n) : l[1] = RootDir /\ l[2] \in PageFiles
        /\ \A a \in Pieces(n, <<>>) : ~a.encrypted}

ReparseOf(n) == {a.value : a \in OfType(n, "REPARSE_POINT")}

\* What a reader of the file is to find: the data of NTFS, the target of a symlink,
\* what is compressed in its stream, or the data of another reparse point.
ExpectedSize(n) ==
    CASE ReparseOf(n) = {} -> IF Pieces(n, <<>>) = {} THEN 0 ELSE SizeOf(FirstPiece(n, <<>>))
      [] \E r \in ReparseOf(n) : r.tag = "wof" -> FirstPiece(n, <<>>).size
      [] OTHER -> Len((CHOOSE r \in ReparseOf(n) : TRUE).data)
ExpectedByte(n, p) ==
    CASE ReparseOf(n) = {} -> TrueByte(n, <<>>, p)
      [] \E r \in ReparseOf(n) : r.tag = "wof" -> Plain(n, p)
      [] OTHER -> (CHOOSE r \in ReparseOf(n) : TRUE).data[p + 1]

-----------------------------------------------------------------------------
(* Properties. *)

\* What Btrfs reads at byte p of an inode.
ReadByte(i, p) ==
    LET Holding == {e \in At(t.extents, i, {}) : p \in e.pos .. e.pos + e.length - 1}
        e == CHOOSE e \in Holding : TRUE
    IN  IF Holding = {} THEN <<"zero">>
        ELSE IF e.kind = "inline" THEN e.content[p + 1]
        ELSE IF ~e.compressed THEN disk[e.addr + p - e.pos]
        ELSE IF \A k \in 1 .. e.disk_length :
                   disk[e.addr + k - 1] = Packed(disk[e.addr][2], k, e.disk_length)
        THEN disk[e.addr][2][p - e.pos + 1]
        ELSE <<"broken">>

Converted == {n \in DOMAIN mft : BtrfsInode(n) \in DOMAIN t.inode_items /\ n # RootDir}

ReadsAs(n) ==
    /\ t.inode_items[BtrfsInode(n)].size = ExpectedSize(n)
    /\ \A p \in 0 .. ExpectedSize(n) - 1 : ReadByte(BtrfsInode(n), p) = ExpectedByte(n, p)
    /\ \A e, d \in At(t.extents, BtrfsInode(n), {}) :
          e = d \/ Extent(e.pos, e.length) \cap Extent(d.pos, d.length) = {}

\* Every file that has been converted reads as NTFS would read it, byte by byte, and goes
\* on doing so: whether its data is resident, in pieces in several records, sparse, valid
\* only to some point, compressed by NTFS or by WOF, and whether it has been left where
\* it was or written anew.
FilesReadAsBefore ==
    \A n \in Converted : ~mft[n].dir => ReadsAs(n)

\* At no time has a byte of the NTFS volume been written: it is free, or in the clusters
\* that have been moved, or after the valid data of the file whose cluster it is in.  So
\* the volume is whole if the program stops.
AfterValidData(u) ==
    \E n \in UserFiles : \E a \in Pieces(n, <<>>) :
        /\ ~a.resident /\ a.unit = 0
        /\ \E v \in 0 .. Aligned(a.size) - 1 :
              /\ TrueLcn(n, <<>>, v) = u \div ClusterSize
              /\ v * ClusterSize + (u % ClusterSize) >= FirstPiece(n, <<>>).vdl

NtfsIntact ==
    \A u \in Units :
        \/ disk[u] = Original(u)
        \/ u \div ClusterSize \notin volume.in_use
        \/ u \div ClusterSize < Reserved
        \/ AfterValidData(u)

\* The three items a name has agree, and so do the number of links and, at the end, the
\* size of a directory.
LinksConsistent ==
    /\ Consistent(t)
    /\ stage = "done" => SizesOfNames(t)

\* When all is done, every entry is in a directory that there is, and all inodes are
\* below the root: nothing that is left out has anything below it.
TreeConnected == stage = "done" => Connected(t)

\* Every name of every file of the user, as far as it is not too long, leads to it, and
\* no directory has two entries of one name.
NamesUnique ==
    \A e, d \in Entries(t) : e.dir = d.dir /\ e.name = d.name => e = d
NamesKept ==
    stage = "done" =>
        /\ NamesUnique
        /\ \A n \in UserFiles : \A l \in NamesOf(n) :
              l[1] \notin SystemDirs =>
                \E e \in Entries(t) :
                    /\ e.dir = BtrfsInode(l[1]) /\ e.inode = BtrfsInode(n)
                    /\ e.name = Truncated(l[2])
        /\ Converted = UserFiles

\* The descriptor of a file: its own, or the one of $Secure it names.
ExpectedSd(n) ==
    LET own == {SubSeq(Contents(disk, a), 1, SizeOf(a)) : a \in OfType(n, "SECURITY_DESCRIPTOR")}
        info == (CHOOSE a \in OfType(n, "STANDARD_INFORMATION") : TRUE).value
    IN  IF own # {} THEN CHOOSE sd \in own : TRUE ELSE volume.descriptors[info.security]

XattrOf(n, name) == At(t.xattrs, <<BtrfsInode(n), Crc(name)>>, [name |-> name, value |-> <<>>])

\* Nothing that NTFS says of a file is lost or given to another: every stream that is
\* small enough, the descriptor, the DOS attributes and the reparse point of a directory.
XattrsKept ==
    \A n \in Converted :
        /\ \A a \in OfType(n, "DATA") :
              (a.name \notin {<<>>, WofStream} /\ FitsItem(Stream(a.name), SizeOf(a))) =>
                XattrOf(n, Stream(a.name)).value = [p \in 1 .. SizeOf(a) |->
                                                       TrueByte(n, a.name, p - 1)]
        /\ XattrOf(n, NtAcl).value = ExpectedSd(n)
        /\ mft[n].dir => Range(XattrOf(n, Reparse).value) = ReparseOf(n)
        /\ \A k \in DOMAIN t.xattrs :
              k[1] = BtrfsInode(n) /\ Len(t.xattrs[k].name) > 1 =>
                Pieces(n, Tail(t.xattrs[k].name)) # {}

\* What an entry says of the kind of a file is what its inode says, and the directories
\* are those of NTFS.
KindsAgree ==
    /\ \A e \in Entries(t) :
          e.inode \in DOMAIN t.inode_items => e.type = t.inode_items[e.inode].type
    /\ \A n \in Converted : (t.inode_items[BtrfsInode(n)].type = "dir") = mft[n].dir

\* All records are dealt with in the end, or the program says that it cannot.
Completes == <>(stage \in {"done", "failed"})

\* The data of a reparse point that is not a symlink is the contents of the file.
ReparseDataKept ==
    \A n \in Converted :
        (\E r \in ReparseOf(n) : r.tag = "other") => mft[n].dir \/ ReadsAs(n)

=============================================================================
