---------------------------- MODULE ImageProofs -----------------------------
(***************************************************************************)
(* ntfs.img, once it is made, holds every cluster that NTFS used: in its   *)
(* place, or in the copy that protect_cluster made of it before anything   *)
(* was written there.  The files, once they are converted, read as they    *)
(* did: every cluster of a file is in one piece, which is where the        *)
(* relocations have sent it, and what a rewritten extent holds stays what  *)
(* was written.                                                            *)
(***************************************************************************)
EXTENDS ConversionProofs

USE ChunkSpaceAssumption, BitmapAssumption

-----------------------------------------------------------------------------
(* Data chunks end on the device. *)

\* What does not fill a segment at the end of the device is shorter than one by more
\* than the reserved area: a segment of the space list, which goes on past the end of
\* the device by as much, is then one of the device.
EndClear == (DeviceSize % DataChunkSize) + Reserved < DataChunkSize

DataOnDevice ==
    \A i \in DOMAIN chunks :
        chunks[i].type = "data" => chunks[i].start + chunks[i].length <= DeviceSize

DeviceInv == PlacesInv /\ DataOnDevice

LEMMA InitDevice ==
    ASSUME Init
    PROVE  DeviceInv
BY DEF Init, DeviceInv, PlacesInv, DataOnDevice, DataChunksAtSegments

LEMMA SegmentsEnd ==
    ASSUME EndClear, NEW p \in Int, (p * DataChunkSize) + DataChunkSize <= Reserved + DeviceSize
    PROVE  (p * DataChunkSize) + DataChunkSize <= DeviceSize
<1> DEFINE q == DeviceSize \div DataChunkSize
           m == DeviceSize % DataChunkSize
<1>1. DataChunkSize \in Nat /\ DataChunkSize > 0 /\ DeviceSize \in Nat /\ Reserved \in Nat
    BY ChunkSizeMultiple
<1>2. DeviceSize = DataChunkSize * q + m /\ q \in Int /\ m \in Nat /\ m + Reserved < DataChunkSize
    BY <1>1, Division DEF EndClear
<1> HIDE DEF q, m
<1>3. (p + 1) * DataChunkSize < (q + 1) * DataChunkSize
    BY <1>1, <1>2
<1>4. p + 1 <= q
    <2>1. CASE p + 1 > q
        <3>1. (p + 1) - (q + 1) \in Nat
            BY <1>2, <2>1
        <3>2. ((p + 1) - (q + 1)) * DataChunkSize >= 0
            BY <1>1, <3>1
        <3>3. ((p + 1) - (q + 1)) * DataChunkSize = (p + 1) * DataChunkSize - (q + 1) * DataChunkSize
            BY <1>1, <1>2
        <3>4. (p + 1) * DataChunkSize \in Int /\ (q + 1) * DataChunkSize \in Int
            BY <1>1, <1>2
        <3> QED BY <1>3, <3>2, <3>3, <3>4
    <2> QED BY <1>2, <2>1
<1>5. (p + 1) * DataChunkSize <= q * DataChunkSize
    <2>1. (q - (p + 1)) \in Nat
        BY <1>2, <1>4
    <2>2. (q - (p + 1)) * DataChunkSize >= 0
        BY <1>1, <2>1
    <2> QED BY <1>1, <1>2, <2>2
<1> QED BY <1>1, <1>2, <1>5

LEMMA ScanSegmentOnDevice ==
    ASSUME IInv, DataOnDevice, ScanSegment
    PROVE  DataOnDevice'
<1>1. Base(seg) < DeviceSize /\ seg \in Nat /\ TypeOK /\ Base(seg) \in Nat
    BY ScanSegmentShape DEF IInv
<1>2. CASE UNCHANGED chunks
    BY <1>2 DEF DataOnDevice
<1>3. CASE UsedClusters(seg) # {}
    <2> DEFINE n == Len(chunks) + 1
    <2>1. /\ DOMAIN chunks = 1 .. Len(chunks) /\ DOMAIN chunks' = 1 .. n /\ Len(chunks) \in Nat
          /\ \A k \in DOMAIN chunks : chunks'[k] = chunks[k]
          /\ chunks'[n] = SegmentChunk(seg)
        BY <1>3, ScanSegmentShape
    <2>2. SegmentChunk(seg).start + SegmentChunk(seg).length = Base(seg) + ChunkLength(seg)
        BY <1>1, SegmentChunkPlace
    <2>3. Base(seg) + ChunkLength(seg) <= DeviceSize
        BY <1>1, SegmentFacts
    <2>4. ASSUME NEW i \in DOMAIN chunks', chunks'[i].type = "data"
          PROVE  chunks'[i].start + chunks'[i].length <= DeviceSize
        <3>1. CASE i = n
            BY <2>1, <2>2, <2>3, <3>1
        <3>2. CASE i # n
            <4>1. i \in DOMAIN chunks
                BY <2>1, <2>4, <3>2
            <4> QED BY <2>1, <2>4, <4>1 DEF DataOnDevice
        <3> QED BY <3>1, <3>2
    <2> QED BY <2>4 DEF DataOnDevice
<1> QED BY <1>2, <1>3, ScanSegmentShape

LEMMA CallOnDevice ==
    ASSUME EndClear, IInv, DeviceInv, NEW type, NEW size, NEW length, NEW counted,
           AllocatorCall(type, size, length, counted)
    PROVE  DataOnDevice'
<1>1. /\ type = "data" => size = DataChunkSize /\ phase \in {"protect", "rewrite"}
      /\ phase # "scan"
    BY DEF AllocatorCall
<1>2. CASE \E i \in DOMAIN chunks, addr \in Nat : TakenFrom(i, addr, length, type, counted)
    BY <1>2 DEF TakenFrom, DataOnDevice, DeviceInv
<1>3. CASE ChunksKept
    BY <1>3 DEF ChunksKept, DataOnDevice, DeviceInv
<1>4. ASSUME NEW n \in Nat, NEW start \in Nat, ChunkMade(n, start, size, type)
      PROVE  DataOnDevice'
    <2>1. /\ DOMAIN chunks = 1 .. Len(chunks) /\ DOMAIN chunks' = 1 .. n /\ n = Len(chunks) + 1
          /\ \A k \in DOMAIN chunks : chunks'[k] = chunks[k]
          /\ chunks'[n].start = start /\ chunks'[n].length = size /\ chunks'[n].type = type
          /\ IsFirstFit(start, space_list, size) /\ Extent(start, size) \subseteq space_list
        BY <1>4 DEF ChunkMade
    <2>2. ASSUME type = "data" PROVE start + size <= DeviceSize
        <3>1. size = DataChunkSize /\ phase \in {"protect", "rewrite"}
            BY <1>1, <2>2
        <3>2. seg > 0
            BY <1>1 DEF DeviceInv, PlacesInv, IInv, TypeOK
        <3>3. GridBelow(space_list, DataChunkSize, DeviceSize)
            BY <3>1, <3>2 DEF DeviceInv, PlacesInv, ListGrid
        <3>4. Multiple(start, DataChunkSize)
            BY <2>1, <3>1, <3>3, ChunkSizeMultiple, NewDataChunkStart
        <3>5. DataChunkSize \in Nat \ {0}
            BY ChunkSizeMultiple
        <3>6. PICK p \in Int : start = p * DataChunkSize
            BY <3>4, <3>5, MultipleWitness
        <3>7. start + size - 1 \in Extent(Reserved, DeviceSize)
            <4>1. start + size - 1 \in Extent(start, size)
                BY <3>1, <3>5 DEF Extent
            <4> QED BY <2>1, <4>1 DEF IInv, ScanProgress
        <3>8. start + size <= Reserved + DeviceSize
            BY <3>1, <3>5, <3>7 DEF Extent
        <3> QED BY <3>1, <3>6, <3>8, SegmentsEnd
    <2>3. ASSUME NEW i \in DOMAIN chunks', chunks'[i].type = "data"
          PROVE  chunks'[i].start + chunks'[i].length <= DeviceSize
        <3>1. CASE i = n
            BY <2>1, <2>2, <2>3, <3>1
        <3>2. CASE i # n
            <4>1. i \in DOMAIN chunks
                BY <2>1, <2>3, <3>2
            <4> QED BY <2>1, <2>3, <4>1 DEF DataOnDevice, DeviceInv
        <3> QED BY <3>1, <3>2
    <2> QED BY <2>3 DEF DataOnDevice
<1> QED BY <1>2, <1>3, <1>4, CallShape

LEMMA QuietDevice ==
    ASSUME BootInUse, IInv, DeviceInv, Quiet
    PROVE  DeviceInv'
<1>1. UNCHANGED <<seg, space_list, chunks>> /\ seg \in Nat
    BY DEF Quiet, ChunksKept, IInv, TypeOK
<1>2. phase' \in {"scan", "protect", "rewrite"} => phase \in {"scan", "protect", "rewrite"}
    BY DEF Quiet, ChunksKept
<1>3. seg = 0 => Base(seg) < DeviceSize
    <2>1. ClusterSize * ByteBits > 0 /\ ClusterSize * ByteBits <= DeviceSize
        BY DEF BootInUse
    <2> QED BY <2>1 DEF Base
<1>4. Base(seg) \in Nat
    BY <1>1, BaseType
<1>5. seg' = 0 => phase' = "scan" /\ space_list' = Extent(Reserved, DeviceSize)
    BY <1>1, <1>3, <1>4 DEF Quiet, DeviceInv, PlacesInv
<1>6. seg' > 0 => ListGrid(DataChunkSize)'
    BY <1>1, <1>2 DEF DeviceInv, PlacesInv, ListGrid, GridBelow
<1> QED BY <1>1, <1>5, <1>6 DEF DeviceInv, PlacesInv, DataOnDevice, DataChunksAtSegments

LEMMA DeviceStep ==
    ASSUME WholeStripes, BootInUse, EndClear, ConvInv, DeviceInv, [ConvNext]_<<vars, cvars>>
    PROVE  DeviceInv'
<1>1. IInv /\ StepPhase /\ Queues
    BY DEF ConvInv
<1>2. CASE ScanSegment
    BY <1>1, <1>2, ScanSegmentPlaces, ScanSegmentOnDevice DEF DeviceInv
<1>3. CASE Calls
    BY <1>1, <1>3, CallPlaces, CallOnDevice DEF DeviceInv, Calls
<1>4. CASE Quiet
    BY <1>1, <1>4, QuietDevice
<1> QED BY <1>1, <1>2, <1>3, <1>4, ConvCases

\* The units that were granted for data.
DataAllocations == {a \in allocated : a.type = "data"}
DataGranted == UNION {Extent(a.addr, a.length) : a \in DataAllocations}

\* They are on the device.
DataInside == DataGranted \subseteq 0 .. DeviceSize - 1

LEMMA DataGrantedOnDevice ==
    ASSUME TypeOK, InsideChunk, DataOnDevice
    PROVE  DataInside
<1>1. ASSUME NEW a \in DataAllocations, NEW u \in Extent(a.addr, a.length)
      PROVE  u \in 0 .. DeviceSize - 1
    <2>1. a \in allocated /\ a.type = "data" /\ a.addr \in Nat
        BY DEF DataAllocations, TypeOK
    <2>2. PICK i \in DOMAIN chunks :
             /\ chunks[i].type = "data"
             /\ Extent(a.addr, a.length) \subseteq Extent(chunks[i].start, chunks[i].length)
        BY <2>1 DEF InsideChunk
    <2>3. chunks[i].start \in Nat /\ chunks[i].length \in Nat
        BY ChunkFields
    <2>4. chunks[i].start + chunks[i].length <= DeviceSize
        BY <2>2 DEF DataOnDevice
    <2>5. u \in Extent(chunks[i].start, chunks[i].length)
        BY <2>2
    <2> QED BY <2>3, <2>4, <2>5 DEF Extent
<1> QED BY <1>1 DEF DataGranted, DataInside

-----------------------------------------------------------------------------
(* What one more relocation changes. *)

LEMMA ChainOn ==
    ASSUME NEW q \in Seq(Relocations), NEW r \in Relocations, NEW k \in Nat
    PROVE  LET last == Chain(q, k)[Len(q)]
           IN  Chain(Append(q, r), k)[Len(q) + 1]
                 = IF r.old_start = last THEN r.new_start ELSE last
<1> DEFINE p == Append(q, r)
           n == Len(q)
           at == Chain(q, k)
           to == Chain(p, k)
           Bad == {i \in 0 .. n : to[i] # at[i]}
<1>1. /\ p \in Seq(Relocations) /\ Len(p) = n + 1 /\ n \in Nat
      /\ p[n + 1] = r /\ \A i \in 1 .. n : p[i] = q[i]
    OBVIOUS
<1>2. at = [i \in 0 .. n |-> IF i = 0 THEN k
                             ELSE IF q[i].old_start = at[i - 1] THEN q[i].new_start ELSE at[i - 1]]
    BY ChainStep
<1>3. to = [i \in 0 .. Len(p) |-> IF i = 0 THEN k
                             ELSE IF p[i].old_start = to[i - 1] THEN p[i].new_start ELSE to[i - 1]]
    BY <1>1, ChainStep
<1> HIDE DEF at, to, p, n
<1>4. \A i \in 0 .. n : at[i] = IF i = 0 THEN k
                             ELSE IF q[i].old_start = at[i - 1] THEN q[i].new_start ELSE at[i - 1]
    BY <1>2
<1>5. \A i \in 0 .. n + 1 : to[i] = IF i = 0 THEN k
                             ELSE IF p[i].old_start = to[i - 1] THEN p[i].new_start ELSE to[i - 1]
    BY <1>1, <1>3
<1>6. ASSUME Bad # {} PROVE FALSE
    <2>1. Bad \in SUBSET Nat
        BY <1>1
    <2>2. PICK i \in Bad : \A m \in Bad : i <= m
        BY <1>6, <2>1, LeastNatural
    <2>3. i \in 0 .. n /\ to[i] # at[i]
        OBVIOUS
    <2>4. i # 0
        BY <1>1, <1>4, <1>5, <2>3
    <2>5. i - 1 \in 0 .. n /\ ~ (i <= i - 1) /\ i \in 1 .. n /\ i \in 0 .. n + 1
        BY <1>1, <2>3, <2>4
    <2>6. to[i - 1] = at[i - 1]
        BY <2>2, <2>5
    <2> QED BY <1>1, <1>4, <1>5, <2>3, <2>4, <2>5, <2>6
<1>7. to[n] = at[n]
    <2>1. n \in 0 .. n
        BY <1>1
    <2> QED BY <1>6, <2>1
<1>8. to[n + 1] = IF p[n + 1].old_start = to[n] THEN p[n + 1].new_start ELSE to[n]
    BY <1>1, <1>5
<1> QED BY <1>1, <1>7, <1>8 DEF at, to, p, n

LEMMA RedirectedOn ==
    ASSUME relocs \in Seq(Relocations), NEW r \in Relocations, relocs' = Append(relocs, r),
           NEW k \in Nat
    PROVE  Redirected(k)' = IF r.old_start = Redirected(k) THEN r.new_start ELSE Redirected(k)
<1>1. Redirected(k) = Chain(relocs, k)[Len(relocs)]
    BY DEF Redirected, SentOn, Chain
<1>2. Redirected(k)' = Chain(relocs', k)[Len(relocs')]
    BY DEF Redirected, SentOn, Chain
<1>3. Len(relocs') = Len(relocs) + 1
    OBVIOUS
<1> QED BY <1>1, <1>2, <1>3, ChainOn

\* The clusters that were moved.
Moved == {relocs[i].old_start : i \in DOMAIN relocs}

LEMMA MovedOn ==
    ASSUME relocs \in Seq(Relocations), NEW r \in Relocations, relocs' = Append(relocs, r)
    PROVE  Moved' = Moved \cup {r.old_start}
<1>1. /\ DOMAIN relocs = 1 .. Len(relocs) /\ DOMAIN relocs' = 1 .. Len(relocs) + 1
      /\ Len(relocs) \in Nat
      /\ relocs'[Len(relocs) + 1] = r /\ \A i \in DOMAIN relocs : relocs'[i] = relocs[i]
    OBVIOUS
<1>2. Moved \subseteq Moved'
    BY <1>1 DEF Moved
<1>3. r.old_start \in Moved'
    BY <1>1 DEF Moved
<1>4. ASSUME NEW k \in Moved' PROVE k \in Moved \cup {r.old_start}
    <2>1. PICK i \in DOMAIN relocs' : k = relocs'[i].old_start
        BY DEF Moved
    <2> QED BY <1>1, <2>1 DEF Moved
<1> QED BY <1>2, <1>3, <1>4

\* The image looks for the first relocation of a cluster, which stays the first.
LEMMA MovedToOn ==
    ASSUME relocs \in Seq(Relocations), NEW r \in Relocations, relocs' = Append(relocs, r),
           NEW k
    PROVE  /\ k \in Moved => MovedTo(k)' = MovedTo(k)
           /\ k \notin Moved /\ k = r.old_start => MovedTo(k)' = r.new_start
<1> DEFINE Among == {i \in DOMAIN relocs : relocs[i].old_start = k}
           Least(S) == CHOOSE i \in S : \A j \in S : i <= j
           n == Len(relocs) + 1
<1>1. /\ DOMAIN relocs = 1 .. Len(relocs) /\ DOMAIN relocs' = 1 .. n /\ Len(relocs) \in Nat
      /\ relocs'[n] = r /\ \A i \in DOMAIN relocs : relocs'[i] = relocs[i]
    OBVIOUS
<1>2. MovedTo(k) = relocs[Least(Among)].new_start /\ MovedTo(k)' = relocs'[Least(Among')].new_start
    BY DEF MovedTo, FirstReloc
<1>3. Among' = IF r.old_start = k THEN Among \cup {n} ELSE Among
    BY <1>1
<1>4. Among \subseteq 1 .. Len(relocs)
    BY <1>1
<1>5. ASSUME k \in Moved PROVE MovedTo(k)' = MovedTo(k)
    <2>1. Among # {} /\ Among \in SUBSET Nat
        BY <1>1, <1>5 DEF Moved
    <2> HIDE DEF Among
    <2>2. PICK i \in Among : \A j \in Among : i <= j
        BY <2>1, LeastNatural
    <2>3. i \in 1 .. Len(relocs) /\ i \in Among' /\ \A j \in Among' : i <= j
        BY <1>1, <1>3, <1>4, <2>2
    <2>4. \A j \in Among : (\A l \in Among : j <= l) => j = i
        BY <2>1, <2>2
    <2>5. \A j \in Among' : (\A l \in Among' : j <= l) => j = i
        <3> DEFINE All == Among'
        <3>1. i \in Nat /\ i \in All /\ \A l \in All : i <= l
            BY <1>1, <2>3
        <3>2. n \in Nat /\ (All = Among \/ All = Among \cup {n})
            BY <1>1, <1>3
        <3> HIDE DEF All, n
        <3>3. All \subseteq Nat
            BY <2>1, <3>2
        <3>4. \A j \in All : (\A l \in All : j <= l) => j = i
            BY <3>1, <3>3
        <3> QED BY <3>4 DEF All
    <2>6. Least(Among) = i
        BY <2>2, <2>4, Zenon
    <2>7. Least(Among') = i
        BY <2>3, <2>5, Zenon
    <2> QED BY <1>1, <1>2, <2>3, <2>6, <2>7
<1>6. ASSUME k \notin Moved, k = r.old_start PROVE MovedTo(k)' = r.new_start
    <2>1. Among = {}
        BY <1>6 DEF Moved
    <2>2. Among' = {n}
        BY <1>3, <1>6, <2>1
    <2>3. n <= n
        BY <1>1
    <2> HIDE DEF Among
    <2>4. Least(Among') = n
        BY <2>2, <2>3, Zenon
    <2> QED BY <1>1, <1>2, <2>4
<1> QED BY <1>5, <1>6

-----------------------------------------------------------------------------
(* What the entries of a list say of the clusters in use, U, of which those *)
(* in M have been moved.                                                    *)

\* The entry of a cluster in use is in the list of its segment, has a part in the image,
\* and says whether the cluster was moved.
TellsOfUse(r, s, U, M) ==
    \A k \in Extent(r.offset, r.length) \cap U :
        SegmentOf(k) = s /\ ~ r.relocated /\ ~ r.not_in_img /\ (k \in M => r.inode = dummy_inode)

\* A cluster that was moved has an entry of its own.
TellsOfMoves(r, U, M) ==
    /\ r.inode = dummy_inode =>
          r.length = 1 /\ r.offset \in M /\ (r.relocated \/ r.offset \in U)
    /\ r.relocated => r.length = 1

\* Before there are entries of files, all are of clusters in use or of copies.
TellsOfAll(r, U) == ~ r.not_in_img /\ (r.relocated \/ Extent(r.offset, r.length) \subseteq U)

EntryTells(r, s, U, M, early) ==
    TellsOfUse(r, s, U, M) /\ TellsOfMoves(r, U, M) /\ (early => TellsOfAll(r, U))

\* The cluster k is moved: it is cut out of its entry.
LEMMA MovedCut ==
    ASSUME NEW list \in Seq(Entries), InOrder(list), NEW s, NEW U \in SUBSET Nat, NEW M,
           NEW k \in Nat, k \in Covered(list),
           \A r \in Members(list) : EntryTells(r, s, U, M, TRUE),
           NEW x \in Members(Cut(list, k, 1, dummy_inode, 0))
    PROVE  EntryTells(x, s, U, M \cup {k}, TRUE)
<1> DEFINE q == Cut(list, k, 1, dummy_inode, 0)
           N == M \cup {k}
<1>1. dummy_inode \in Int /\ dummy_inode # 0 /\ 0 \in Nat /\ 1 \in Nat \ {0}
    BY DEF dummy_inode
<1>2. Met(list, k, 1) # {} /\ ~ Torn(list, k, 1)
    BY MetCovered, OneClusterWhole
<1>3. PICK r \in Members(list) :
         /\ r.offset <= k /\ k + 1 <= r.offset + r.length
         /\ \E y \in Members(q) : PartCut(y, r, k, 1, dummy_inode)
         /\ \A y \in Members(q) :
               \/ y \in Members(list)
               \/ PartBefore(y, r, k)
               \/ PartCut(y, r, k, 1, dummy_inode)
               \/ PartAfter(y, r, k + 1)
    BY <1>1, <1>2, CutMembers
<1>4. q \in Seq(Entries) /\ InOrder(q)
    BY <1>1, <1>2, CutInOrder
<1>5. PICK p \in Members(q) : PartCut(p, r, k, 1, dummy_inode)
    BY <1>3
<1>6. r \in Entries /\ EntryTells(r, s, U, M, TRUE)
    BY MemberEntries
<1>7. r.offset \in Nat /\ r.length \in Nat \ {0} /\ k \in Extent(r.offset, r.length)
    BY <1>3, <1>6 DEF Entries, Extent
<1> HIDE DEF q
<1>8. CASE x \in Members(list)
    <2>1. EntryTells(x, s, U, M, TRUE)
        BY <1>8
    <2>2. ASSUME k \in Extent(x.offset, x.length) PROVE x.inode = dummy_inode
        <3>1. k \in Extent(p.offset, p.length)
            BY <1>5 DEF Extent, PartCut
        <3>2. x \in Members(q)
            BY DEF q
        <3>3. x = p
            BY <1>4, <2>2, <3>1, <3>2, OneEntry
        <3> QED BY <1>5, <3>3 DEF PartCut
    <2>3. TellsOfUse(x, s, U, N)
        BY <2>1, <2>2 DEF EntryTells, TellsOfUse
    <2>4. TellsOfMoves(x, U, N) /\ TellsOfAll(x, U)
        BY <2>1 DEF EntryTells, TellsOfMoves
    <2> QED BY <2>3, <2>4 DEF EntryTells
<1>9. CASE PartCut(x, r, k, 1, dummy_inode)
    <2>1. /\ Extent(x.offset, x.length) = {k} /\ x.offset = k /\ x.length = 1
          /\ x.inode = dummy_inode /\ x.relocated = r.relocated /\ ~ x.not_in_img
        BY <1>9 DEF Extent, PartCut
    <2>2. k \in U => SegmentOf(k) = s /\ ~ r.relocated
        BY <1>6, <1>7 DEF EntryTells, TellsOfUse
    <2>3. r.relocated \/ k \in U
        BY <1>6, <1>7 DEF EntryTells, TellsOfAll
    <2>4. TellsOfUse(x, s, U, N)
        BY <2>1, <2>2 DEF TellsOfUse
    <2>5. TellsOfMoves(x, U, N)
        BY <2>1, <2>3 DEF TellsOfMoves
    <2>6. TellsOfAll(x, U)
        BY <2>1, <2>3 DEF TellsOfAll
    <2> QED BY <2>4, <2>5, <2>6 DEF EntryTells
<1>10. ASSUME r.length # 1
       PROVE  /\ ~ r.relocated /\ r.inode # dummy_inode /\ ~ r.not_in_img
              /\ \A j \in Extent(r.offset, r.length) : SegmentOf(j) = s /\ j \in U /\ j \notin M
    BY <1>6, <1>10 DEF EntryTells, TellsOfUse, TellsOfMoves, TellsOfAll
<1>11. CASE PartBefore(x, r, k)
    <2>1. r.length # 1
        BY <1>3, <1>7, <1>11 DEF PartBefore
    <2>2. \A j \in Extent(x.offset, x.length) : j \in Extent(r.offset, r.length) /\ j # k
        BY <1>7, <1>11 DEF Extent, PartBefore
    <2>3. x.inode # dummy_inode /\ ~ x.relocated /\ ~ x.not_in_img
        BY <1>1, <1>11 DEF PartBefore
    <2>4. TellsOfUse(x, s, U, N) /\ TellsOfMoves(x, U, N) /\ TellsOfAll(x, U)
        BY <1>10, <2>1, <2>2, <2>3 DEF TellsOfUse, TellsOfMoves, TellsOfAll
    <2> QED BY <2>4 DEF EntryTells
<1>12. CASE PartAfter(x, r, k + 1)
    <2>1. r.length # 1
        BY <1>3, <1>7, <1>12 DEF PartAfter
    <2>2. \A j \in Extent(x.offset, x.length) : j \in Extent(r.offset, r.length) /\ j # k
        BY <1>7, <1>12 DEF Extent, PartAfter
    <2>3. x.inode # dummy_inode /\ ~ x.relocated /\ ~ x.not_in_img
        BY <1>10, <1>12, <2>1 DEF PartAfter
    <2>4. TellsOfUse(x, s, U, N) /\ TellsOfMoves(x, U, N) /\ TellsOfAll(x, U)
        BY <1>10, <2>1, <2>2, <2>3 DEF TellsOfUse, TellsOfMoves, TellsOfAll
    <2> QED BY <2>4 DEF EntryTells
<1>13. x \in Members(q)
    BY DEF q
<1> QED BY <1>3, <1>8, <1>9, <1>11, <1>12, <1>13

\* A piece of a file, which does not start at a moved cluster, is cut out of its entry.
LEMMA FileCut ==
    ASSUME NEW list \in Seq(Entries), InOrder(list), NEW s, NEW U \in SUBSET Nat, NEW M,
           NEW offset \in Nat, NEW length \in Nat \ {0}, NEW inode \in Nat, NEW file_offset \in Nat,
           ~ Torn(list, offset, length), offset \notin M,
           \A r \in Members(list) : EntryTells(r, s, U, M, FALSE),
           NEW x \in Members(Cut(list, offset, length, inode, file_offset))
    PROVE  EntryTells(x, s, U, M, FALSE)
<1> DEFINE q == Cut(list, offset, length, inode, file_offset)
<1>1. dummy_inode # 0 /\ inode # dummy_inode /\ inode \in Int
    BY DEF dummy_inode
<1>2. CASE Met(list, offset, length) = {}
    BY <1>2 DEF Cut
<1>3. CASE Met(list, offset, length) # {}
    <2>1. PICK r \in Members(list) :
             /\ r.offset <= offset /\ offset + length <= r.offset + r.length
             /\ \A y \in Members(q) : \/ y \in Members(list)
                                     \/ PartBefore(y, r, offset)
                                     \/ PartCut(y, r, offset, length, inode)
                                     \/ PartAfter(y, r, offset + length)
        BY <1>1, <1>3, CutMembers
    <2>2. r \in Entries /\ EntryTells(r, s, U, M, FALSE)
        BY MemberEntries
    <2>3. r.offset \in Nat /\ r.length \in Nat \ {0} /\ r.offset <= offset
          /\ offset + length <= r.offset + r.length
        BY <2>1, <2>2 DEF Entries
    <2>4. r.inode # dummy_inode
        BY <2>2, <2>3 DEF EntryTells, TellsOfMoves
    <2>5. \A j \in Extent(r.offset, r.length) \cap U :
             SegmentOf(j) = s /\ ~ r.relocated /\ ~ r.not_in_img /\ j \notin M
        BY <2>2, <2>4 DEF EntryTells, TellsOfUse
    <2>6. r.relocated => r.length = 1
        BY <2>2 DEF EntryTells, TellsOfMoves
    <2>7. CASE PartCut(x, r, offset, length, inode)
        <3>1. Extent(x.offset, x.length) \subseteq Extent(r.offset, r.length)
            BY <2>3, <2>7 DEF Extent, PartCut
        <3>2. r.length = 1 => length = 1
            BY <2>3
        <3>3. /\ x.length = length /\ x.inode # dummy_inode /\ x.relocated = r.relocated
              /\ ~ x.not_in_img
            BY <1>1, <2>7 DEF PartCut
        <3> QED BY <2>5, <2>6, <3>1, <3>2, <3>3 DEF EntryTells, TellsOfUse, TellsOfMoves
    <2>8. CASE PartBefore(x, r, offset)
        <3>1. Extent(x.offset, x.length) \subseteq Extent(r.offset, r.length)
            BY <2>3, <2>8 DEF Extent, PartBefore
        <3>2. x.inode # dummy_inode /\ ~ x.relocated /\ ~ x.not_in_img
            BY <1>1, <2>8 DEF PartBefore
        <3> QED BY <2>5, <3>1, <3>2 DEF EntryTells, TellsOfUse, TellsOfMoves
    <2>9. CASE PartAfter(x, r, offset + length)
        <3>1. Extent(x.offset, x.length) \subseteq Extent(r.offset, r.length)
            BY <2>3, <2>9 DEF Extent, PartAfter
        <3>2. r.length # 1
            BY <2>3, <2>9 DEF PartAfter
        <3>3. /\ x.inode # dummy_inode /\ x.relocated = r.relocated
              /\ x.not_in_img = r.not_in_img
            BY <2>4, <2>9 DEF PartAfter
        <3> QED BY <2>5, <2>6, <3>1, <3>2, <3>3 DEF EntryTells, TellsOfUse, TellsOfMoves
    <2> QED BY <2>1, <2>7, <2>8, <2>9
<1> QED BY <1>2, <1>3

\* The entries of all segments, and the clusters that have one in their segment.
EntriesTell(R, U, M, early) ==
    \A s \in Segments : \A r \in Members(R[s]) : EntryTells(r, s, U, M, early)

AllCovered(R, U) == \A k \in U : SegmentOf(k) \in Segments /\ k \in Covered(R[SegmentOf(k)])

LEMMA EntriesMoved ==
    ASSUME NEW R, NEW Known, Listed(R, Segments, Known), NEW U \in SUBSET Nat, NEW M,
           EntriesTell(R, U, M, TRUE), AllCovered(R, U),
           NEW k \in Nat, SegmentOf(k) \in Segments, k \in Covered(R[SegmentOf(k)])
    PROVE  LET Q == [R EXCEPT ![SegmentOf(k)] = Cut(R[SegmentOf(k)], k, 1, dummy_inode, 0)]
           IN  EntriesTell(Q, U, M \cup {k}, TRUE) /\ AllCovered(Q, U)
<1> DEFINE t == SegmentOf(k)
           list == R[t]
           cut == Cut(list, k, 1, dummy_inode, 0)
           Q == [R EXCEPT ![t] = cut]
           N == M \cup {k}
<1>1. list \in Seq(Entries) /\ InOrder(list) /\ t \in Segments /\ k \in Covered(list)
    BY DEF Listed
<1>2. dummy_inode \in Int /\ 0 \in Nat /\ 1 \in Nat \ {0}
    BY DEF dummy_inode
<1>3. Covered(cut) = Covered(list)
    BY <1>1, <1>2, OneClusterWhole, CutInOrder
<1>4. \A x \in Members(cut) : EntryTells(x, t, U, N, TRUE)
    <2>1. \A r \in Members(list) : EntryTells(r, t, U, M, TRUE)
        BY DEF EntriesTell
    <2> QED BY <1>1, <2>1, MovedCut
<1>5. Q[t] = cut /\ \A s \in Segments : s # t => Q[s] = R[s]
    BY <1>1 DEF Listed
<1> HIDE DEF cut, Q
<1>6. ASSUME NEW s \in Segments, NEW x \in Members(Q[s]) PROVE EntryTells(x, s, U, N, TRUE)
    <2>1. CASE s = t
        BY <1>4, <1>5, <2>1
    <2>2. CASE s # t
        <3>1. EntryTells(x, s, U, M, TRUE)
            BY <1>5, <2>2 DEF EntriesTell
        <3>2. \A j \in Extent(x.offset, x.length) \cap U : j # k
            BY <2>2, <3>1 DEF EntryTells, TellsOfUse
        <3> QED BY <3>1, <3>2 DEF EntryTells, TellsOfUse, TellsOfMoves
    <2> QED BY <2>1, <2>2
<1>7. ASSUME NEW j \in U PROVE SegmentOf(j) \in Segments /\ j \in Covered(Q[SegmentOf(j)])
    BY <1>3, <1>5 DEF AllCovered
<1> QED BY <1>6, <1>7 DEF EntriesTell, AllCovered, Q, cut

LEMMA EntriesFiled ==
    ASSUME NEW R, NEW Known, Listed(R, Segments, Known), NEW U \in SUBSET Nat, NEW M,
           EntriesTell(R, U, M, FALSE), AllCovered(R, U), NEW t,
           NEW offset \in Nat, NEW length \in Nat \ {0}, NEW inode \in Nat, NEW file_offset \in Nat,
           t \in Segments => ~ Torn(R[t], offset, length), offset \notin M
    PROVE  LET Q == [R EXCEPT ![t] = Cut(R[t], offset, length, inode, file_offset)]
           IN  EntriesTell(Q, U, M, FALSE) /\ AllCovered(Q, U)
<1> DEFINE cut == Cut(R[t], offset, length, inode, file_offset)
           Q == [R EXCEPT ![t] = cut]
<1>1. /\ t \in Segments => Q[t] = cut
      /\ \A s \in Segments : s # t => Q[s] = R[s]
    BY DEF Listed
<1>2. inode \in Int
    OBVIOUS
<1>3. ASSUME t \in Segments PROVE Covered(cut) = Covered(R[t])
    BY <1>2, <1>3, CutInOrder DEF Listed
<1>4. ASSUME t \in Segments, NEW x \in Members(cut) PROVE EntryTells(x, t, U, M, FALSE)
    <2>1. R[t] \in Seq(Entries) /\ InOrder(R[t]) /\ ~ Torn(R[t], offset, length)
        BY <1>4 DEF Listed
    <2>2. \A r \in Members(R[t]) : EntryTells(r, t, U, M, FALSE)
        BY <1>4 DEF EntriesTell
    <2> QED BY <1>4, <2>1, <2>2, FileCut
<1> HIDE DEF cut, Q
<1>5. EntriesTell(Q, U, M, FALSE)
    BY <1>1, <1>4 DEF EntriesTell
<1>6. AllCovered(Q, U)
    BY <1>1, <1>3 DEF AllCovered
<1> QED BY <1>5, <1>6 DEF Q, cut

LEMMA EntriesInserted ==
    ASSUME NEW R, NEW Known, Listed(R, Segments, Known), NEW U \in SUBSET Known, NEW M,
           NEW early \in BOOLEAN, EntriesTell(R, U, M, early), AllCovered(R, U), NEW t,
           NEW r \in Entries, Known \cap Extent(r.offset, r.length) = {},
           r.inode # dummy_inode, r.relocated => r.length = 1,
           early => ~ r.not_in_img /\ r.relocated
    PROVE  LET Q == [R EXCEPT ![t] = Insert(R[t], r)]
           IN  EntriesTell(Q, U, M, early) /\ AllCovered(Q, U)
<1> DEFINE Q == [R EXCEPT ![t] = Insert(R[t], r)]
<1>1. /\ t \in Segments => Q[t] = Insert(R[t], r)
      /\ \A s \in Segments : s # t => Q[s] = R[s]
    BY DEF Listed
<1>2. t \in Segments => Members(Insert(R[t], r)) = Members(R[t]) \cup {r}
    BY InsertInOrder DEF Listed
<1>3. \A s \in Segments : Members(R[s]) \subseteq Members(Q[s])
                         /\ \A x \in Members(Q[s]) : x \in Members(R[s]) \/ x = r
    BY <1>1, <1>2
<1>4. \A s : EntryTells(r, s, U, M, early)
    BY DEF EntryTells, TellsOfUse, TellsOfMoves, TellsOfAll
<1> HIDE DEF Q
<1>5. EntriesTell(Q, U, M, early)
    BY <1>3, <1>4 DEF EntriesTell
<1>6. AllCovered(Q, U)
    <2>1. \A s \in Segments : Covered(R[s]) \subseteq Covered(Q[s])
        BY <1>3 DEF Covered
    <2> QED BY <2>1 DEF AllCovered
<1> QED BY <1>5, <1>6 DEF Q

-----------------------------------------------------------------------------
(* The clusters of the volume. *)

\* The bitmap has no bits but those of its bytes.
BitsInBitmap ==
    \A used \in Bitmaps : \A c \in used : c < (ByteBits * BitmapBytes) * ClusterSize

LEMMA InUseClusters ==
    ASSUME WholeBitmap, WholeSectors, NEW k \in ClustersInUse
    PROVE  k \in Nat /\ k * ClusterSize \in in_use /\ k * ClusterSize < DeviceSize
<1> DEFINE B == {j \in 0 .. ByteBits * BitmapBytes - 1 : j * ClusterSize \in in_use}
<1>1. ByteBits * BitmapBytes \in Nat /\ BitmapBytes \in Nat
    BY ConversionAssumption
<1>2. \A j \in B : j \in Nat /\ j * ClusterSize \in in_use
    BY <1>1
<1>3. ScannedUsed(B, BitmapBytes) \subseteq B
    BY <1>1, WordsSound DEF WholeBitmap
<1>4. ClustersInUse = {j \in ScannedUsed(B, BitmapBytes) : j * ClusterSize < OrigSize}
    BY DEF ClustersInUse
<1> HIDE DEF B
<1> QED BY <1>2, <1>3, <1>4 DEF WholeSectors

LEMMA InUseCluster ==
    ASSUME WholeBitmap, WholeSectors, ClusterBitmaps, BitsInBitmap, TypeOK,
           NEW c \in in_use, c < DeviceSize
    PROVE  \E k \in ClustersInUse : k \in Nat /\ c = k * ClusterSize
<1> DEFINE n == ByteBits * BitmapBytes
           B == {j \in 0 .. n - 1 : j * ClusterSize \in in_use}
           k == c \div ClusterSize
<1>1. n \in Nat /\ BitmapBytes \in Nat
    BY ConversionAssumption
<1>2. c \in Nat /\ c % ClusterSize = 0 /\ c < n * ClusterSize
    BY DEF TypeOK, ClusterBitmaps, BitsInBitmap
<1>3. k \in Nat /\ c = k * ClusterSize
    BY <1>2
<1> HIDE DEF k, n
<1>4. k < n
    <2>1. CASE k >= n
        <3>1. (k - n) \in Nat
            BY <1>1, <1>3, <2>1
        <3>2. (k - n) * ClusterSize >= 0
            BY <3>1
        <3>3. k * ClusterSize >= n * ClusterSize
            BY <1>1, <1>3, <3>2
        <3>4. k * ClusterSize \in Int /\ n * ClusterSize \in Int
            BY <1>1, <1>3
        <3> QED BY <1>2, <1>3, <3>3, <3>4
    <2> QED BY <1>1, <1>3, <2>1
<1>5. k \in B
    BY <1>1, <1>3, <1>4
<1>6. k \in WordClusters(BitmapBytes)
    BY <1>1, <1>3, <1>4, AllWordClusters DEF WholeBitmap, n
<1> HIDE DEF B
<1>7. k \in ScannedUsed(B, BitmapBytes)
    BY <1>1, <1>5, <1>6, WordsExact
<1>8. ClustersInUse = {j \in ScannedUsed(B, BitmapBytes) : j * ClusterSize < OrigSize}
    BY DEF ClustersInUse, B, n
<1> QED BY <1>3, <1>7, <1>8 DEF WholeSectors

\* Clusters do not overlap.
LEMMA OneCluster ==
    ASSUME NEW j \in Nat, NEW k \in Nat, NEW u, u \in Extent(j * ClusterSize, ClusterSize),
           u \in Extent(k * ClusterSize, ClusterSize)
    PROVE  j = k
<1> DEFINE CS == ClusterSize
<1>1. CS \in Nat \ {0} /\ j * CS \in Nat /\ k * CS \in Nat
    OBVIOUS
<1>2. u \in Int /\ j * CS <= u /\ u < j * CS + CS /\ k * CS <= u /\ u < k * CS + CS
    BY <1>1 DEF Extent
<1>3. (j * CS < k * CS + CS) /\ (k * CS < j * CS + CS)
    BY <1>1, <1>2
<1>4. ASSUME NEW a \in Nat, NEW b \in Nat, a < b PROVE a * CS + CS <= b * CS
    <2>1. b - (a + 1) \in Nat
        BY <1>4
    <2>2. (b - (a + 1)) * CS >= 0
        BY <1>1, <2>1
    <2> QED BY <1>1, <2>2
<1> HIDE DEF CS
<1>5. ~ (j < k) /\ ~ (k < j)
    BY <1>1, <1>3, <1>4
<1> QED BY <1>5

\* The device ends with a whole cluster.
LEMMA ClusterOnDevice ==
    ASSUME WholeWords, NEW k \in Nat, k * ClusterSize < DeviceSize
    PROVE  (k * ClusterSize) + ClusterSize <= DeviceSize
<1> DEFINE M == ByteBits * WordBytes
           W == ClusterSize * M
<1>1. M \in Nat \ {0}
    BY BitmapAssumption
<1>2. W \in Nat \ {0}
    BY <1>1
<1>3. DeviceSize % W = 0
    BY DEF WholeWords
<1> HIDE DEF W
<1>4. PICK q \in Int : DeviceSize = q * W
    BY <1>2, <1>3, Quotient
<1>5. DeviceSize = (q * M) * ClusterSize
    BY <1>1, <1>4 DEF W
<1> DEFINE n == q * M
<1>6. n \in Int /\ DeviceSize = n * ClusterSize
    BY <1>1, <1>5
<1> HIDE DEF n, M
<1>7. k < n
    <2>1. CASE k >= n
        <3>1. (k - n) * ClusterSize >= 0
            BY <1>6, <2>1
        <3> QED BY <1>6, <3>1
    <2> QED BY <1>6, <2>1
<1>8. (n - (k + 1)) \in Nat
    BY <1>6, <1>7
<1>9. (n - (k + 1)) * ClusterSize >= 0
    BY <1>8
<1> QED BY <1>6, <1>9

LEMMA SegmentPlaced ==
    ASSUME NEW k \in Nat, k * ClusterSize <= DeviceSize
    PROVE  SegmentOf(k) \in Segments
<1> DEFINE n == ClustersPerChunk
           s == SegmentOf(k)
           d == DeviceSize + Reserved
           last == d \div DataChunkSize
<1>1. DataChunkSize \in Nat \ {0} /\ ClusterSize \in Nat \ {0} /\ d \in Nat
    BY ChunkSizeMultiple
<1>2. DataChunkSize % ClusterSize = 0
    BY ConversionAssumption
<1>3. n \in Nat /\ DataChunkSize = n * ClusterSize /\ n # 0
    <2>1. DataChunkSize = ClusterSize * (DataChunkSize \div ClusterSize)
        BY <1>1, <1>2, Division
    <2>2. DataChunkSize \div ClusterSize \in Nat
        BY <1>1
    <2> QED BY <1>1, <2>1, <2>2 DEF ClustersPerChunk
<1>4. s = k \div n
    BY DEF SegmentOf
<1> HIDE DEF n, s, d
<1>5. s \in Nat /\ s * n <= k
    BY <1>3, <1>4
<1>6. (k - s * n) * ClusterSize >= 0
    <2>1. k - s * n \in Nat
        BY <1>3, <1>5
    <2> QED BY <1>1, <2>1
<1>7. s * DataChunkSize <= k * ClusterSize
    BY <1>1, <1>3, <1>5, <1>6
<1>8. s * DataChunkSize <= d
    <2>1. s * DataChunkSize \in Int /\ k * ClusterSize \in Int
        BY <1>1, <1>5
    <2> QED BY <1>7, <2>1 DEF d
<1>9. last \in Int /\ d < (last + 1) * DataChunkSize
    <2>1. d = DataChunkSize * last + (d % DataChunkSize) /\ last \in Int /\ d % DataChunkSize < DataChunkSize
        BY <1>1, Division
    <2>2. d % DataChunkSize \in Int
        BY <1>1
    <2> QED BY <1>1, <2>1, <2>2
<1> HIDE DEF last
<1>10. s <= last
    <2>1. CASE s >= last + 1
        <3>1. (s - (last + 1)) \in Nat
            BY <1>5, <1>9, <2>1
        <3>2. (s - (last + 1)) * DataChunkSize >= 0
            BY <1>1, <3>1
        <3>3. s * DataChunkSize >= (last + 1) * DataChunkSize
            BY <1>1, <1>5, <1>9, <3>2
        <3>4. s * DataChunkSize \in Int /\ (last + 1) * DataChunkSize \in Int
            BY <1>1, <1>5, <1>9
        <3> QED BY <1>1, <1>8, <1>9, <3>3, <3>4
    <2> QED BY <1>5, <1>9, <2>1
<1> QED BY <1>5, <1>9, <1>10 DEF Segments, s, last, d

\* protect_superblocks looks at clusters that have a segment.  The superblocks and the
\* reserved area, which are written over in the end, are all among them.
Wiped == {k \in Nat : k * ClusterSize < Reserved \/ k * ClusterSize \in SuperAddrs}

LEMMA QuotientBounds ==
    ASSUME NEW a \in Nat, NEW k \in Nat
    PROVE  /\ k <= a \div ClusterSize <=> k * ClusterSize <= a
           /\ a \div ClusterSize \in Nat
<1> DEFINE q == a \div ClusterSize
<1>1. q \in Nat /\ q * ClusterSize <= a /\ a < q * ClusterSize + ClusterSize
    <2>1. a = ClusterSize * q + (a % ClusterSize) /\ q \in Int /\ a % ClusterSize \in 0 .. ClusterSize - 1
        BY Division
    <2>2. q \in Nat
        OBVIOUS
    <2> QED BY <2>1, <2>2
<1> HIDE DEF q
<1>2. ASSUME k <= q PROVE k * ClusterSize <= a
    <2>1. (q - k) * ClusterSize >= 0
        BY <1>1, <1>2
    <2> QED BY <1>1, <2>1
<1>3. ASSUME ~ (k <= q) PROVE ~ (k * ClusterSize <= a)
    <2>1. k - (q + 1) \in Nat
        BY <1>1, <1>3
    <2>2. (k - (q + 1)) * ClusterSize >= 0
        BY <2>1
    <2> QED BY <1>1, <2>2
<1> QED BY <1>1, <1>2, <1>3 DEF q

LEMMA JoinedRange ==
    ASSUME NEW a \in Seq(Nat), NEW b \in Seq(Nat)
    PROVE  Range(a \o b) = Range(a) \cup Range(b)
<1>1. /\ DOMAIN a = 1 .. Len(a) /\ DOMAIN b = 1 .. Len(b) /\ Len(a) \in Nat /\ Len(b) \in Nat
      /\ DOMAIN (a \o b) = 1 .. Len(a) + Len(b)
      /\ \A i \in 1 .. Len(a) : (a \o b)[i] = a[i]
      /\ \A i \in 1 .. Len(a) + Len(b) : i > Len(a) => (a \o b)[i] = b[i - Len(a)]
    OBVIOUS
<1>2. ASSUME NEW i \in DOMAIN b PROVE b[i] \in Range(a \o b)
    <2>1. i + Len(a) \in DOMAIN (a \o b) /\ (a \o b)[i + Len(a)] = b[i]
        BY <1>1
    <2> QED BY <2>1 DEF Range
<1>3. ASSUME NEW i \in DOMAIN a PROVE a[i] \in Range(a \o b)
    <2>1. i \in DOMAIN (a \o b) /\ (a \o b)[i] = a[i]
        BY <1>1
    <2> QED BY <2>1 DEF Range
<1>4. ASSUME NEW i \in DOMAIN (a \o b) PROVE (a \o b)[i] \in Range(a) \cup Range(b)
    <2>1. CASE i <= Len(a)
        <3>1. i \in DOMAIN a /\ (a \o b)[i] = a[i]
            BY <1>1, <2>1
        <3> QED BY <3>1 DEF Range
    <2>2. CASE i > Len(a)
        <3>1. i - Len(a) \in DOMAIN b /\ (a \o b)[i] = b[i - Len(a)]
            BY <1>1, <2>2
        <3> QED BY <3>1 DEF Range
    <2> QED BY <1>1, <2>1, <2>2
<1> QED BY <1>2, <1>3, <1>4 DEF Range

LEMMA AscendingRange ==
    ASSUME NEW S \in SUBSET Nat, IsFiniteSet(S)
    PROVE  Ascending(S) \in Seq(Nat) /\ Range(Ascending(S)) = S
<1> DEFINE q == Ascending(S)
<1>1. q \in Seq(S) /\ \A x \in S : \E i \in DOMAIN q : q[i] = x
    BY AscendingIn
<1> HIDE DEF q
<1>2. q \in Seq(Nat)
    BY <1>1, WiderSequence
<1>3. \A i \in DOMAIN q : q[i] \in S
    BY <1>1
<1> QED BY <1>1, <1>2, <1>3 DEF Range, q

\* The clusters of the stripe that holds the address sb.
Stripe(sb) ==
    LET al == sb - (sb % StripeLen)
    IN  (al \div ClusterSize) .. (((al + StripeLen) - 1) \div ClusterSize)

\* The clusters of the stripe of a superblock are on the device, its own among them.
LEMMA StripeClusters ==
    ASSUME WholeStripes, NEW sb \in Nat, sb < DeviceSize
    PROVE  /\ Stripe(sb) \subseteq Nat
           /\ \A k \in Stripe(sb) : k * ClusterSize < DeviceSize
           /\ \A k \in Nat : k * ClusterSize = sb => k \in Stripe(sb)
<1> DEFINE al == sb - (sb % StripeLen)
           top == (al + StripeLen) - 1
           R == (al \div ClusterSize) .. (top \div ClusterSize)
           p == sb \div StripeLen
<1>1. StripeLen \in Nat \ {0} /\ DeviceSize \in Nat /\ ClusterSize \in Nat \ {0}
    OBVIOUS
<1>2. sb = StripeLen * p + (sb % StripeLen) /\ p \in Int /\ sb % StripeLen \in 0 .. StripeLen - 1
    BY <1>1, Division
<1>3. p \in Nat
    BY <1>1
<1> HIDE DEF p
<1>4. al = p * StripeLen
    BY <1>1, <1>2, <1>3
<1> HIDE DEF al
<1>5. al \in Nat /\ al <= sb /\ sb <= top /\ top \in Nat
    BY <1>1, <1>2, <1>3, <1>4 DEF al
<1>6. top < DeviceSize
    <2>1. Multiple(DeviceSize, StripeLen)
        BY DEF WholeStripes, Multiple
    <2>2. PICK q \in Int : DeviceSize = q * StripeLen
        BY <1>1, <2>1, MultipleWitness
    <2>3. p < q
        <3>1. CASE p >= q
            <4>1. (p - q) * StripeLen >= 0
                BY <1>1, <1>3, <2>2, <3>1
            <4>2. p * StripeLen >= q * StripeLen
                BY <1>1, <1>3, <2>2, <4>1
            <4> QED BY <1>1, <1>4, <1>5, <2>2, <4>2
        <3> QED BY <1>3, <2>2, <3>1
    <2>4. (q - (p + 1)) * StripeLen >= 0
        BY <1>1, <1>3, <2>2, <2>3
    <2>5. q * StripeLen >= p * StripeLen + StripeLen
        BY <1>1, <1>3, <2>2, <2>4
    <2> QED BY <1>1, <1>4, <1>5, <2>2, <2>5
<1>7. al \div ClusterSize \in Nat /\ top \div ClusterSize \in Nat
    BY <1>5, QuotientBounds
<1> HIDE DEF top
<1>8. \A k \in Nat : k <= top \div ClusterSize <=> k * ClusterSize <= top
    BY <1>5, QuotientBounds
<1>9. R \subseteq Nat
    BY <1>7
<1>10. ASSUME NEW k \in R PROVE k * ClusterSize < DeviceSize
    <2>1. k \in Nat /\ k <= top \div ClusterSize
        BY <1>7, <1>10
    <2>2. k * ClusterSize <= top
        BY <1>8, <2>1
    <2> QED BY <1>1, <1>5, <1>6, <2>1, <2>2
<1>11. ASSUME NEW k \in Nat, k * ClusterSize = sb PROVE k \in R
    <2>1. k <= top \div ClusterSize
        BY <1>5, <1>8, <1>11
    <2> DEFINE j == al \div ClusterSize
    <2>2. j \in Nat /\ j * ClusterSize <= al
        BY <1>5, <1>7, QuotientBounds
    <2> HIDE DEF j
    <2>3. j * ClusterSize <= k * ClusterSize
        BY <1>1, <1>5, <1>11, <2>2
    <2>4. (k * ClusterSize) \div ClusterSize = k /\ k * ClusterSize \in Nat
        BY <1>1, DivideProduct
    <2>5. j <= (k * ClusterSize) \div ClusterSize
        BY <2>2, <2>3, <2>4, QuotientBounds
    <2> QED BY <1>7, <2>1, <2>2, <2>4, <2>5 DEF j
<1> QED BY <1>9, <1>10, <1>11 DEF top, al, Stripe

LEMMA ProtectedRange ==
    ASSUME WholeSectors, WholeStripes, WholeClusters, SuperblockReserved, TypeOK, DOMAIN chunks # {}
    PROVE  /\ \A k \in Range(ToProtect) : k \in Nat /\ SegmentOf(k) \in Segments
           /\ \A k \in Wiped : k * ClusterSize < DeviceSize => k \in Range(ToProtect)
<1> DEFINE Aligned(sb) == sb - (sb % StripeLen)
           First == CHOOSE sb \in SuperAddrs : \A other \in SuperAddrs : sb <= other
           Mirrors == {sb \in SuperAddrs \ {First} : sb < DeviceSize}
           Clusters(from, to) == (from \div ClusterSize) .. ((to - 1) \div ClusterSize)
           last == chunks[Len(chunks)]
           end == last.start + last.length
           A == UNION {Clusters(Aligned(sb), Aligned(sb) + StripeLen) : sb \in Mirrors}
           B == 0 .. (Reserved \div ClusterSize) - 1
           C == (end \div ClusterSize) .. (DeviceSize \div ClusterSize) - 0
           D == IF end < DeviceSize THEN Ascending(C) ELSE <<>>
<1>1. ToProtect = Ascending(A) \o Ascending(B) \o <<>> \o D
    BY DEF ToProtect, WholeSectors
<1>2. end \in Nat
    <2>1. chunks \in Seq(Chunks) /\ DOMAIN chunks = 1 .. Len(chunks) /\ Len(chunks) \in Nat
        BY DEF TypeOK
    <2>2. Len(chunks) \in DOMAIN chunks
        BY <2>1
    <2>3. last \in Chunks
        BY <2>1, <2>2
    <2> QED BY <2>3 DEF Chunks
<1>3. ASSUME NEW sb \in Mirrors
      PROVE  /\ Clusters(Aligned(sb), Aligned(sb) + StripeLen) \subseteq Nat
             /\ \A k \in Clusters(Aligned(sb), Aligned(sb) + StripeLen) : k * ClusterSize < DeviceSize
             /\ \A k \in Nat : k * ClusterSize = sb
                                 => k \in Clusters(Aligned(sb), Aligned(sb) + StripeLen)
    <2>1. sb \in Nat /\ sb < DeviceSize
        OBVIOUS
    <2>2. Clusters(Aligned(sb), Aligned(sb) + StripeLen) = Stripe(sb)
        BY Zenon DEF Stripe
    <2> HIDE DEF Mirrors, Clusters, Aligned
    <2>3. /\ Stripe(sb) \subseteq Nat
          /\ \A k \in Stripe(sb) : k * ClusterSize < DeviceSize
          /\ \A k \in Nat : k * ClusterSize = sb => k \in Stripe(sb)
        BY <2>1, StripeClusters, Zenon
    <2> QED BY <2>2, <2>3
<1>4. A \in SUBSET Nat /\ IsFiniteSet(A) /\ \A k \in A : k * ClusterSize < DeviceSize
    <2> HIDE DEF Mirrors, Clusters, Aligned
    <2>1. A \subseteq Nat /\ \A k \in A : k * ClusterSize < DeviceSize
        BY <1>3
    <2> HIDE DEF A
    <2>2. A \subseteq 0 .. DeviceSize
        <3>1. \A k \in Nat : k <= k * ClusterSize
            OBVIOUS
        <3> QED BY <2>1, <3>1
    <2>3. IsFiniteSet(0 .. DeviceSize)
        BY ClustersUpTo
    <2> QED BY <2>1, <2>2, <2>3, FS_Subset
<1>5. /\ B \in SUBSET Nat /\ IsFiniteSet(B) /\ \A k \in B : k * ClusterSize <= DeviceSize
      /\ \A k \in Nat : k * ClusterSize < Reserved => k \in B
    <2> DEFINE q == Reserved \div ClusterSize
    <2>1. q \in Nat /\ \A k \in Nat : k <= q <=> k * ClusterSize <= Reserved
        BY QuotientBounds
    <2>2. Reserved = q * ClusterSize
        BY Division DEF WholeClusters
    <2> HIDE DEF q
    <2>3. B \in SUBSET Nat /\ IsFiniteSet(B)
        BY <2>1, ClustersUpTo DEF q
    <2>4. \A k \in B : k \in Nat /\ k <= q
        BY <2>1 DEF q
    <2>5. \A k \in B : k * ClusterSize <= DeviceSize
        BY <2>1, <2>4
    <2>6. ASSUME NEW k \in Nat, k * ClusterSize < Reserved PROVE k \in B
        <3>1. k <= q /\ k # q
            BY <2>1, <2>2, <2>6
        <3> QED BY <2>1, <3>1 DEF q
    <2> QED BY <2>3, <2>5, <2>6
<1>6. C \in SUBSET Nat /\ IsFiniteSet(C) /\ \A k \in C : k * ClusterSize <= DeviceSize
    <2> HIDE DEF end
    <2>1. end \div ClusterSize \in Nat /\ DeviceSize \div ClusterSize \in Nat
          /\ DeviceSize \div ClusterSize - 0 = DeviceSize \div ClusterSize
        BY <1>2
    <2>2. C \in SUBSET Nat /\ IsFiniteSet(C)
        BY <2>1, ClustersUpTo
    <2>3. \A k \in C : k \in Nat /\ k <= DeviceSize \div ClusterSize
        BY <2>1
    <2> QED BY <2>2, <2>3, QuotientBounds
<1>7. \A k \in Nat : k * ClusterSize \in SuperAddrs /\ k * ClusterSize < DeviceSize
                     => k \in A \/ k * ClusterSize < Reserved
    <2>1. PICK sb \in SuperAddrs : sb < Reserved
        BY DEF SuperblockReserved
    <2>2. First \in SuperAddrs /\ First <= sb
        <3>1. \E f \in SuperAddrs : \A other \in SuperAddrs : f <= other
            BY <2>1, LeastNatural
        <3>2. First \in SuperAddrs /\ \A other \in SuperAddrs : First <= other
            BY <3>1, Zenon
        <3> QED BY <3>2
    <2>3. First < Reserved
        <3> HIDE DEF First
        <3>1. First \in Nat /\ sb \in Nat
            BY <2>1, <2>2
        <3> QED BY <2>1, <2>2, <3>1
    <2>4. ASSUME NEW k \in Nat, k * ClusterSize \in Mirrors PROVE k \in A
        <3> DEFINE m == k * ClusterSize
        <3>1. k \in Clusters(Aligned(m), Aligned(m) + StripeLen)
            BY <1>3, <2>4
        <3> QED BY <2>4, <3>1
    <2> HIDE DEF A, First
    <2> QED BY <2>3, <2>4
<1> HIDE DEF A, B, C
<1>8. /\ Ascending(A) \in Seq(Nat) /\ Range(Ascending(A)) = A
      /\ Ascending(B) \in Seq(Nat) /\ Range(Ascending(B)) = B
      /\ Ascending(C) \in Seq(Nat) /\ Range(Ascending(C)) = C
    BY <1>4, <1>5, <1>6, AscendingRange
<1>9. D \in Seq(Nat) /\ Range(D) \subseteq C
    <2>1. <<>> \in Seq(Nat) /\ Range(<<>>) = {}
        BY DEF Range
    <2> QED BY <1>8, <2>1
<1>10. ToProtect = (Ascending(A) \o Ascending(B)) \o D
    <2> HIDE DEF D
    <2>1. Ascending(A) \o Ascending(B) \in Seq(Nat)
        BY <1>8
    <2> DEFINE q == Ascending(A) \o Ascending(B)
    <2> HIDE DEF q
    <2>2. q \o <<>> = q
        BY <2>1 DEF q
    <2> QED BY <1>1, <2>2 DEF q
<1>11. Range(ToProtect) = (A \cup B) \cup Range(D)
    <2> DEFINE a == Ascending(A)
               b == Ascending(B)
    <2>1. a \in Seq(Nat) /\ b \in Seq(Nat) /\ Range(a) = A /\ Range(b) = B
        BY <1>8
    <2> HIDE DEF a, b, D
    <2>2. a \o b \in Seq(Nat) /\ Range(a \o b) = A \cup B
        BY <2>1, JoinedRange
    <2>3. Range((a \o b) \o D) = Range(a \o b) \cup Range(D)
        BY <1>9, <2>2, JoinedRange
    <2> QED BY <1>10, <2>2, <2>3 DEF a, b
<1>12. \A k \in Range(ToProtect) : k \in Nat /\ k * ClusterSize <= DeviceSize
    <2> HIDE DEF D
    <2>1. \A k \in A : k * ClusterSize <= DeviceSize
        BY <1>4
    <2> QED BY <1>4, <1>5, <1>6, <1>9, <1>11, <2>1
<1>13. \A k \in Wiped : k * ClusterSize < DeviceSize => k \in Range(ToProtect)
    BY <1>5, <1>7, <1>11 DEF Wiped
<1> QED BY <1>12, <1>13, SegmentPlaced

-----------------------------------------------------------------------------
(* Data that was granted space keeps it, and stays as it was written.      *)

DataKept ==
    /\ UNCHANGED in_use
    /\ Granted \subseteq Granted' /\ DataGranted \subseteq DataGranted'
    /\ DOMAIN disk' = DOMAIN disk
    /\ \A u \in DOMAIN disk : u \in DataGranted => disk'[u] = disk[u]

LEMMA SameDataKept ==
    ASSUME UNCHANGED <<in_use, allocated, disk>>
    PROVE  DataKept
BY DEF DataKept, DataGranted, DataAllocations, Granted

LEMMA CallKeepsData ==
    ASSUME IInv, GrantedAbove, OnlyGrantedWritten,
           NEW type, NEW size, NEW length \in Nat, NEW counted,
           AllocatorCall(type, size, length, counted),
           \/ UNCHANGED disk
           \/ /\ phase' # "failed"
              /\ \E content : /\ DOMAIN content \subseteq 0 .. length - 1
                              /\ disk' = Written(Returned, content)
    PROVE  DataKept
<1>1. UNCHANGED in_use
    BY CallReturns
<1>2. allocated \subseteq allocated'
    BY CallReturns
<1>3. Granted \subseteq Granted' /\ DataGranted \subseteq DataGranted' /\ DataGranted \subseteq Granted
    BY <1>2 DEF Granted, DataGranted, DataAllocations
<1>4. CASE UNCHANGED disk
    BY <1>1, <1>3, <1>4 DEF DataKept
<1>5. CASE phase' # "failed" /\ \E content : /\ DOMAIN content \subseteq 0 .. length - 1
                                             /\ disk' = Written(Returned, content)
    <2>1. PICK content : /\ DOMAIN content \subseteq 0 .. length - 1
                         /\ disk' = Written(Returned, content)
        BY <1>5
    <2> DEFINE addr == Returned
    <2>2. addr \in Nat /\ Extent(addr, length) \cap Granted = {}
        BY <1>5, CallReturns
    <2>3. DOMAIN disk = 0 .. OrigSize - 1
        BY DEF OnlyGrantedWritten
    <2> HIDE DEF addr
    <2>4. /\ DOMAIN disk' = DOMAIN disk
          /\ \A u \in DOMAIN disk : u \notin Extent(addr, length) => disk'[u] = disk[u]
        BY <2>1, <2>2, <2>3, WrittenWithin DEF addr
    <2> QED BY <1>1, <1>3, <2>2, <2>4 DEF DataKept
<1> QED BY <1>4, <1>5

\* What is written when all data is in place is neither data nor in its way.
LEMMA LateWritesKeepData ==
    ASSUME WholeClusters, SuperblockReserved, ConvInv, GeometryInv,
           WriteTrees \/ WriteSuperblock \/ ClearFirstCluster
    PROVE  DataKept
<1>1. /\ TypeOK /\ Queues /\ BlocksSized /\ GrantedAbove /\ AllocationsDisjoint
      /\ DOMAIN disk = 0 .. OrigSize - 1 /\ AvoidsSuperblocks
    BY DEF ConvInv, IInv, OnlyGrantedWritten, GeometryInv
<1>2. UNCHANGED <<in_use, allocated>>
    BY DEF WriteTrees, WriteSuperblock, ClearFirstCluster, vars
<1>3. DataGranted' = DataGranted /\ Granted' = Granted /\ DataGranted \subseteq Granted
    BY <1>2 DEF DataGranted, DataAllocations, Granted
<1>4. ASSUME NEW addr \in Nat, NEW n \in Nat, NEW content,
             DOMAIN content \subseteq 0 .. n - 1, disk' = Written(addr, content),
             Extent(addr, n) \cap DataGranted = {}
      PROVE  DataKept
    <2>1. /\ DOMAIN disk' = DOMAIN disk
          /\ \A u \in DOMAIN disk : u \notin Extent(addr, n) => disk'[u] = disk[u]
        BY <1>1, <1>4, WrittenWithin
    <2> QED BY <1>2, <1>3, <1>4, <2>1 DEF DataKept
<1>5. CASE WriteTrees
    <2> DEFINE addr == Head(todo)
               content == [i \in 0 .. TreeSize - 1 |-> Tree]
    <2>1. step = "blocks" /\ todo # <<>> /\ disk' = Written(addr, content)
        BY <1>5 DEF WriteTrees
    <2>2. addr \in BlockAddrs
        BY <1>1, <2>1, HeadAndTail DEF Queues, BlockAddrs
    <2>3. DOMAIN content \subseteq 0 .. TreeSize - 1
        OBVIOUS
    <2> HIDE DEF addr, content
    <2>4. PICK a \in Blocks : a.addr = addr
        BY <2>2 DEF BlockAddrs
    <2>5. addr \in Nat /\ TreeSize \in Nat /\ a.length = TreeSize
        BY <1>1, <2>2, <2>4, BlockGranted DEF BlocksSized
    <2>6. Extent(addr, TreeSize) \cap DataGranted = {}
        <3>1. ASSUME NEW d \in DataAllocations
              PROVE  Extent(addr, TreeSize) \cap Extent(d.addr, d.length) = {}
            <4>1. a \in allocated /\ d \in allocated /\ a # d
                BY <3>1 DEF Blocks, DataAllocations
            <4> QED BY <1>1, <2>4, <2>5, <4>1 DEF AllocationsDisjoint
        <3> QED BY <3>1 DEF DataGranted
    <2> QED BY <1>4, <2>1, <2>3, <2>5, <2>6
<1>6. CASE WriteSuperblock
    <2> DEFINE addr == Head(todo)
               content == [i \in {0} |-> Super]
    <2>1. step = "supers" /\ todo # <<>> /\ disk' = Written(addr, content)
        BY <1>6 DEF WriteSuperblock
    <2>3. DOMAIN content \subseteq 0 .. 1 - 1
        OBVIOUS
    <2> DEFINE S == {sb \in SuperAddrs : sb < DeviceSize}
    <2>6. todo \in Seq(S)
        BY <1>1, <2>1 DEF Queues
    <2> HIDE DEF S
    <2>7. addr \in S
        BY <2>1, <2>6, HeadAndTail
    <2> HIDE DEF addr, content
    <2>2. addr \in SuperAddrs /\ addr \in Nat /\ addr < DeviceSize
        BY <2>7 DEF S
    <2>4. addr \in SuperSpace(0, DeviceSize)
        <3>1. addr \in Extent(addr, StripeLen) /\ addr \in Extent(0, DeviceSize)
            BY <2>2 DEF Extent
        <3> QED BY <2>2, <3>1 DEF SuperSpace
    <2>5. Extent(addr, 1) \cap DataGranted = {}
        <3>1. Extent(addr, 1) = {addr}
            BY <2>2 DEF Extent
        <3>2. addr \notin Granted
            BY <1>1, <2>4 DEF AvoidsSuperblocks
        <3> QED BY <1>3, <3>1, <3>2
    <2> QED BY <1>4, <2>1, <2>2, <2>3, <2>5
<1>7. CASE ClearFirstCluster
    <2> DEFINE content == [i \in 0 .. ClusterSize - 1 |-> Zero]
    <2>1. disk' = Written(0, content) /\ DOMAIN content \subseteq 0 .. ClusterSize - 1
        BY <1>7 DEF ClearFirstCluster
    <2> HIDE DEF content
    <2>2. ClusterSize <= Reserved
        <3>1. Reserved \in Nat /\ Reserved # 0
            BY DEF SuperblockReserved
        <3>2. Reserved % ClusterSize = 0
            BY DEF WholeClusters
        <3>3. Reserved = ClusterSize * (Reserved \div ClusterSize) + (Reserved % ClusterSize)
              /\ Reserved \div ClusterSize \in Int
            BY Division
        <3> DEFINE q == Reserved \div ClusterSize
        <3>4. Reserved = ClusterSize * q /\ q \in Int
            BY <3>2, <3>3
        <3> HIDE DEF q
        <3>5. q >= 1
            <4>1. CASE q <= 0
                <5>1. ClusterSize * (-q) >= 0
                    BY <3>4, <4>1
                <5> QED BY <3>1, <3>4, <5>1
            <4> QED BY <3>4, <4>1
        <3>6. ClusterSize * (q - 1) >= 0
            BY <3>4, <3>5
        <3> QED BY <3>1, <3>4, <3>6
    <2>3. Extent(0, ClusterSize) \cap DataGranted = {}
        BY <1>1, <1>3, <2>2 DEF GrantedAbove, Extent
    <2>4. 0 \in Nat /\ ClusterSize \in Nat
        OBVIOUS
    <2> QED BY <1>4, <2>1, <2>3, <2>4
<1> QED BY <1>5, <1>6, <1>7

\* Every step keeps the data.
LEMMA DataKeptNext ==
    ASSUME WholeClusters, SuperblockReserved, ConvInv, GeometryInv, [ConvNext]_<<vars, cvars>>
    PROVE  DataKept
<1>0. /\ IInv /\ TypeOK /\ GrantedAbove /\ StepPhase /\ Queues /\ OnlyGrantedWritten
    BY DEF ConvInv, IInv
<1>1. CASE Quiet /\ UNCHANGED disk
    BY <1>1, SameDataKept DEF Quiet, ChunksKept
<1>2. CASE Scan
    <2>1. UNCHANGED <<in_use, allocated, disk>>
        BY <1>2 DEF Scan, ScanSegment, cvars
    <2> QED BY <2>1, SameDataKept
<1>3. CASE ParseDataBitmap
    BY <1>1, <1>3, ParseDataBitmapShape
<1>4. CASE ProtectCluster
    <2>1. CASE UNCHANGED <<vars, disk>>
        BY <2>1, SameDataKept DEF vars
    <2>2. CASE AllocatorCall("data", DataChunkSize, ClusterSize, FALSE)
        <3>1. \/ UNCHANGED disk
              \/ /\ phase' # "failed"
                 /\ \E content : /\ DOMAIN content \subseteq 0 .. ClusterSize - 1
                                 /\ disk' = Written(Returned, content)
            BY <1>0, <1>4, ProtectClusterShape
        <3>2. ClusterSize \in Nat
            OBVIOUS
        <3> QED BY <1>0, <2>2, <3>1, <3>2, CallKeepsData
    <2> QED BY <1>0, <1>4, <2>1, <2>2, ProtectClusterShape
<1>5. CASE CalcUsedSpace \/ SplitRuns \/ MapFile \/ CalcChecksums
    BY <1>0, <1>1, <1>5, CalcUsedSpaceShape, SplitRunsShape, MapFileShape, CalcChecksumsShape
<1>6. CASE WriteData
    <2>1. PICK f \in ConvertedFiles :
              /\ AllocatorCall("data", DataChunkSize, f.length, TRUE) /\ f.length \in Nat
              /\ \/ phase' = "failed" /\ UNCHANGED disk
                 \/ /\ phase' # "failed"
                    /\ \E content : /\ DOMAIN content \subseteq 0 .. f.length - 1
                                    /\ disk' = Written(Returned, content)
        BY <1>0, <1>6, WriteDataShape
    <2> QED BY <1>0, <2>1, CallKeepsData
<1>7. CASE CreateImage \/ CreateDataExtentItems \/ JoinRun
    BY <1>7, InMemoryShape, SameDataKept DEF InMemory, vars
<1>8. CASE LayOutBlock
    <2>1. /\ UNCHANGED disk /\ TreeSize \in Nat
          /\ \/ AllocatorCall("system", SystemChunkSize, TreeSize, TRUE)
             \/ AllocatorCall("metadata", DataChunkSize, TreeSize, TRUE)
        BY <1>0, <1>8, LayOutBlockShape
    <2> QED BY <1>0, <2>1, CallKeepsData
<1>9. CASE LayoutDone \/ TreesWritten \/ UNCHANGED <<vars, cvars>>
    BY <1>9, SameDataKept DEF LayoutDone, TreesWritten, vars, cvars
<1>10. CASE WriteTrees \/ WriteSuperblock \/ ClearFirstCluster
    BY <1>10, LateWritesKeepData
<1> QED BY <1>2, <1>3, <1>4, <1>5, <1>6, <1>7, <1>8, <1>9, <1>10 DEF ConvNext


-----------------------------------------------------------------------------
(* What holds of the clusters in use up to the making of the image.        *)

\* The cluster n carries what NTFS has in k.
Carries(n, k) ==
    /\ Extent(n * ClusterSize, ClusterSize) \subseteq DOMAIN disk
    /\ \A i \in 0 .. ClusterSize - 1 : disk[(n * ClusterSize) + i] = Ntfs((k * ClusterSize) + i)

\* Besides, it was granted for data.
Holds(n, k) == Extent(n * ClusterSize, ClusterSize) \subseteq DataGranted /\ Carries(n, k)

CopyKept(k) == Holds(MovedTo(k), k)

CopiesKept == \A k \in ClustersInUse \cap Moved : CopyKept(k)

\* No file is sent to a cluster that was moved.
MovesFresh ==
    /\ step = "scan" => relocs = <<>>
    /\ Moved \subseteq KnownClusters
    /\ \A k \in Nat : Redirected(k) \notin Moved

EntriesKept ==
    step # "scan" => /\ AllCovered(runs, ClustersInUse)
                     /\ EntriesTell(runs, ClustersInUse, Moved, step = "protect")

\* What is written over in the end was moved, or will be.
WipedMoved ==
    step # "scan" =>
        \A k \in ClustersInUse \cap Wiped :
            k \in Moved \/ (step = "protect" /\ (phase = "failed" \/ k \in Range(todo)))

ProtectPlaced == step = "protect" => \A k \in Range(todo) : SegmentOf(k) \in Segments

ImageItems == {ImageExtent(r) : r \in {q \in AllRuns : ~ q.relocated /\ ~ q.not_in_img}}
ImageMade == ImageDone => img_extents = ImageItems

ImageInv ==
    CopiesKept /\ MovesFresh /\ EntriesKept /\ WipedMoved /\ ProtectPlaced /\ ImageMade

LEMMA SameUse ==
    ASSUME UNCHANGED in_use
    PROVE  ClustersInUse' = ClustersInUse
BY DEF ClustersInUse

LEMMA SameMoves ==
    ASSUME UNCHANGED relocs
    PROVE  /\ Moved' = Moved
           /\ \A k : MovedTo(k)' = MovedTo(k)
           /\ \A k : Redirected(k)' = Redirected(k)
<1>1. Moved' = Moved
    BY DEF Moved
<1>2. ASSUME NEW k PROVE MovedTo(k)' = MovedTo(k)
    BY DEF MovedTo, FirstReloc
<1>3. ASSUME NEW k PROVE Redirected(k)' = Redirected(k)
    BY DEF Redirected, SentOn
<1> QED BY <1>1, <1>2, <1>3

LEMMA SameItems ==
    ASSUME UNCHANGED <<runs, relocs>>
    PROVE  ImageItems' = ImageItems
<1>1. AllRuns' = AllRuns
    BY DEF AllRuns
<1>2. ASSUME NEW r PROVE ImageExtent(r)' = ImageExtent(r)
    BY SameMoves DEF ImageExtent
<1> QED BY <1>1, <1>2 DEF ImageItems

\* What is held stays.
LEMMA HeldStays ==
    ASSUME DataKept, NEW n \in Nat, NEW k, Holds(n, k)
    PROVE  Holds(n, k)'
<1> DEFINE a == n * ClusterSize
<1>1. a \in Nat
    OBVIOUS
<1>2. Extent(a, ClusterSize) \subseteq DataGranted \cap DOMAIN disk
    BY DEF Holds, Carries
<1>3. Extent(a, ClusterSize) \subseteq DataGranted' \cap DOMAIN disk'
    BY <1>2 DEF DataKept
<1>4. ASSUME NEW i \in 0 .. ClusterSize - 1
      PROVE  disk'[a + i] = Ntfs((k * ClusterSize) + i)
    <2>1. a + i \in Extent(a, ClusterSize)
        BY <1>1 DEF Extent
    <2>2. disk'[a + i] = disk[a + i]
        BY <1>2, <2>1 DEF DataKept
    <2> QED BY <2>2 DEF Holds, Carries
<1> QED BY <1>3, <1>4 DEF Holds, Carries, Ntfs

LEMMA CopyStays ==
    ASSUME DataKept, NEW k, CopyKept(k), MovedTo(k)' = MovedTo(k), MovedTo(k) \in Nat
    PROVE  CopyKept(k)'
<1>1. PICK m \in Nat : m = MovedTo(k)
    OBVIOUS
<1>2. Holds(m, k)
    BY <1>1 DEF CopyKept
<1>3. Holds(m, k)'
    BY <1>2, HeldStays
<1> QED BY <1>1, <1>3 DEF CopyKept, Holds, Carries

\* Until the superblocks are written a cluster in use holds what it did.
LEMMA InUseHolds ==
    ASSUME WholeWords, ClusterBitmaps, WholeBitmap, WholeSectors, ConvInv,
           step \notin {"supers", "done"}, NEW k \in ClustersInUse
    PROVE  k \in Nat /\ Carries(k, k)
<1>1. DOMAIN disk = 0 .. DeviceSize - 1
    BY DEF WholeSectors, ConvInv, OnlyGrantedWritten
<1>2. k \in Nat /\ k * ClusterSize \in in_use /\ k * ClusterSize + ClusterSize <= DeviceSize
    <2>1. k \in Nat /\ k * ClusterSize \in in_use /\ k * ClusterSize < DeviceSize
        BY InUseClusters
    <2> QED BY <2>1, ClusterOnDevice
<1>3. NtfsWhole
    BY NtfsUntouched
<1>4. Extent(k * ClusterSize, ClusterSize) \subseteq DOMAIN disk
    BY <1>1, <1>2 DEF Extent
<1>5. ASSUME NEW i \in 0 .. ClusterSize - 1
      PROVE  disk[(k * ClusterSize) + i] = Ntfs((k * ClusterSize) + i)
    <2> DEFINE u == (k * ClusterSize) + i
    <2>1. u \in Extent(k * ClusterSize, ClusterSize)
        BY <1>2 DEF Extent
    <2> HIDE DEF u
    <2>2. disk[u] = Ntfs(u)
        BY <1>2, <1>3, <1>4, <2>1 DEF NtfsWhole, NtfsUnits, ClusterSpace
    <2> QED BY <2>2 DEF u
<1> QED BY <1>2, <1>4, <1>5 DEF Carries

LEMMA MovedToType ==
    ASSUME relocs \in Seq(Relocations), NEW k \in Moved
    PROVE  MovedTo(k) \in Nat
<1> DEFINE Among == {i \in DOMAIN relocs : relocs[i].old_start = k}
<1>1. Among \subseteq Nat /\ Among # {}
    BY DEF Moved
<1>2. \E i \in Among : \A j \in Among : i <= j
    <2> HIDE DEF Among
    <2> QED BY <1>1, LeastNatural
<1> DEFINE i == CHOOSE i \in Among : \A j \in Among : i <= j
<1>3. i \in Among
    <2> HIDE DEF Among
    <2> QED BY <1>2, Zenon
<1>4. MovedTo(k) = relocs[i].new_start
    BY DEF MovedTo, FirstReloc
<1> HIDE DEF i
<1>5. relocs[i] \in Relocations
    BY <1>3
<1> QED BY <1>4, <1>5 DEF Relocations

\* Where the lists and the relocations are left alone the invariant stays, whatever is
\* left to protect.
LEMMA ImageStays ==
    ASSUME ImageInv, relocs \in Seq(Relocations), DataKept, UNCHANGED <<runs, relocs>>,
           step = "scan" <=> step' = "scan",
           step' = "protect" => step = "protect" /\ Range(todo') \subseteq Range(todo),
           \A k \in ClustersInUse \cap Wiped :
               step = "protect" /\ (phase = "failed" \/ k \in Range(todo))
                 => k \in Moved \/ (step' = "protect" /\ (phase' = "failed" \/ k \in Range(todo'))),
           ImageDone' => (ImageDone /\ UNCHANGED img_extents) \/ img_extents' = ImageItems
    PROVE  ImageInv'
<1>1. ClustersInUse' = ClustersInUse /\ UNCHANGED in_use
    BY SameUse DEF DataKept
<1>2. /\ Moved' = Moved
      /\ \A k : MovedTo(k)' = MovedTo(k)
      /\ \A k : Redirected(k)' = Redirected(k)
    BY SameMoves
<1>3. CopiesKept'
    <2>1. ASSUME NEW k \in ClustersInUse \cap Moved PROVE CopyKept(k)'
        <3>1. CopyKept(k)
            BY DEF ImageInv, CopiesKept
        <3> QED BY <1>2, <3>1, CopyStays, MovedToType
    <2> QED BY <1>1, <1>2, <2>1 DEF CopiesKept
<1>4. MovesFresh'
    <2>1. KnownClusters \subseteq KnownClusters'
        BY KnownGrows DEF DataKept
    <2> QED BY <1>2, <2>1 DEF ImageInv, MovesFresh
<1>5. EntriesKept'
    <2>1. CASE step' # "scan"
        <3>1. AllCovered(runs, ClustersInUse)
              /\ EntriesTell(runs, ClustersInUse, Moved, step = "protect")
            BY <2>1 DEF ImageInv, EntriesKept
        <3>2. EntriesTell(runs, ClustersInUse, Moved, step' = "protect")
            BY <3>1 DEF EntriesTell, EntryTells
        <3>3. runs' = runs
            OBVIOUS
        <3>4. AllCovered(runs', ClustersInUse')
              /\ EntriesTell(runs', ClustersInUse', Moved', step' = "protect")
            BY <1>1, <1>2, <3>1, <3>2, <3>3, Zenon
        <3> QED BY <3>4 DEF EntriesKept
    <2> QED BY <2>1 DEF EntriesKept
<1>6. WipedMoved'
    <2>1. Wiped' = Wiped
        BY DEF Wiped
    <2>2. ASSUME step' # "scan", NEW k \in ClustersInUse \cap Wiped
          PROVE  k \in Moved \/ (step' = "protect" /\ (phase' = "failed" \/ k \in Range(todo')))
        <3>1. step # "scan"
            BY <2>2
        <3>2. k \in Moved \/ (step = "protect" /\ (phase = "failed" \/ k \in Range(todo)))
            BY <3>1 DEF ImageInv, WipedMoved
        <3> QED BY <3>2
    <2> QED BY <1>1, <1>2, <2>1, <2>2 DEF WipedMoved
<1>7. ProtectPlaced'
    BY DEF ImageInv, ProtectPlaced, Segments, SegmentOf, ClustersPerChunk
<1>8. ImageMade'
    BY SameItems DEF ImageInv, ImageMade
<1> QED BY <1>3, <1>4, <1>5, <1>6, <1>7, <1>8 DEF ImageInv

LEMMA InitImage == ConvInit => ImageInv
<1> SUFFICES ASSUME ConvInit PROVE ImageInv
    OBVIOUS
<1>1. step = "scan" /\ relocs = <<>>
    BY DEF ConvInit
<1>2. Moved = {}
    BY <1>1 DEF Moved
<1> QED BY <1>1, <1>2 DEF ImageInv, CopiesKept, MovesFresh, EntriesKept, WipedMoved,
                          ProtectPlaced, ImageMade, ImageDone

\* Nothing was moved yet, every cluster in use has its entry, and those that will be
\* written over are to be moved.
LEMMA ParseDataBitmapImage ==
    ASSUME WholeStripes, WholeClusters, BootInUse, WholeBitmap, WholeSectors, SuperblockReserved,
           IInv, RunsInv, ImageInv, ParseDataBitmap
    PROVE  ImageInv'
<1>1. /\ NextPhase /\ phase = "scan" /\ todo' = ToProtect /\ UNCHANGED relocs
      /\ UNCHANGED <<in_use, seg, chunks, allocated, disk>>
      /\ step = "scan" /\ step' = "protect"
    BY DEF ParseDataBitmap, NextPhase
<1>2. TypeOK /\ DOMAIN chunks # {}
    <2>1. Base(seg) >= DeviceSize /\ seg \in Nat
        BY <1>1 DEF NextPhase, IInv, TypeOK
    <2>2. ClusterSize * ByteBits > 0 /\ ClusterSize * ByteBits <= DeviceSize
        BY DEF BootInUse
    <2>3. DeviceSize > 0 /\ (seg = 0 => Base(seg) = 0)
        BY <2>2 DEF Base
    <2>4. seg > 0
        BY <2>1, <2>3
    <2> QED BY <2>4 DEF RunsInv, ChunksFound, IInv
<1> DEFINE U == ClustersInUse
           S(s) == {k \in U : SegmentOf(k) = s}
<1>3. runs' = [s \in Segments |-> RunList(S(s))]
    BY DEF ParseDataBitmap
<1>4. /\ U \in SUBSET Nat /\ IsFiniteSet(U) /\ U' = U
      /\ \A k \in U : k * ClusterSize < DeviceSize
    BY <1>1, InUseKnown, InUseClusters, SameUse
<1>5. relocs = <<>> /\ Moved = {} /\ Moved' = {}
    <2>1. relocs = <<>>
        BY <1>1 DEF ImageInv, MovesFresh
    <2> QED BY <1>1, <2>1 DEF Moved
<1> HIDE DEF U
<1>6. ASSUME NEW s \in Segments
      PROVE  /\ Covered(RunList(S(s))) = S(s) /\ RunList(S(s)) \in Seq(Entries)
             /\ \A r \in Members(RunList(S(s))) : EntryTells(r, s, U, {}, TRUE)
    <2> DEFINE T == S(s)
    <2>1. T \subseteq U
        OBVIOUS
    <2>2. \A k \in T : SegmentOf(k) = s
        OBVIOUS
    <2> HIDE DEF T
    <2>3. T \in SUBSET Nat /\ IsFiniteSet(T)
        BY <1>4, <2>1, FS_Subset
    <2>4. /\ Covered(RunList(T)) = T /\ RunList(T) \in Seq(Entries)
          /\ \A r \in Members(RunList(T)) : r.inode = 0 /\ ~ r.relocated /\ ~ r.not_in_img
        BY <2>3, RunListInOrder
    <2>5. ASSUME NEW r \in Members(RunList(T)) PROVE EntryTells(r, s, U, {}, TRUE)
        <3>1. r.inode = 0 /\ ~ r.relocated /\ ~ r.not_in_img
            BY <2>4
        <3>2. Extent(r.offset, r.length) \subseteq T
            BY <2>4 DEF Covered
        <3>3. dummy_inode # 0
            BY DEF dummy_inode
        <3> QED BY <2>1, <2>2, <3>1, <3>2, <3>3
            DEF EntryTells, TellsOfUse, TellsOfMoves, TellsOfAll
    <2> QED BY <2>4, <2>5 DEF T
<1>7. ASSUME NEW k \in U PROVE SegmentOf(k) \in Segments /\ k \in S(SegmentOf(k))
    <2>1. k \in Nat /\ k * ClusterSize <= DeviceSize
        BY <1>4
    <2> QED BY <2>1, SegmentPlaced
<1> HIDE DEF S
<1>8. AllCovered(runs', U) /\ EntriesTell(runs', U, {}, TRUE)
    <2>1. \A s \in Segments : runs'[s] = RunList(S(s))
        BY <1>3
    <2> QED BY <1>6, <1>7, <2>1 DEF AllCovered, EntriesTell
<1>9. EntriesKept'
    <2>1. (step' = "protect") = TRUE
        BY <1>1
    <2>2. AllCovered(runs', U') /\ EntriesTell(runs', U', Moved', step' = "protect")
        BY <1>4, <1>5, <1>8, <2>1, Zenon
    <2> QED BY <2>2 DEF EntriesKept, U
<1>10. /\ \A k \in Range(ToProtect) : k \in Nat /\ SegmentOf(k) \in Segments
       /\ \A k \in Wiped : k * ClusterSize < DeviceSize => k \in Range(ToProtect)
    BY <1>2, ProtectedRange
<1>11. ProtectPlaced' /\ WipedMoved'
    <2>1. \A k \in U \cap Wiped : k \in Range(todo')
        BY <1>1, <1>4, <1>10
    <2>2. Wiped' = Wiped
        BY DEF Wiped
    <2>3. WipedMoved'
        BY <1>1, <1>4, <2>1, <2>2 DEF WipedMoved, U
    <2> QED BY <1>1, <1>10, <2>3 DEF ProtectPlaced, SegmentOf, Segments, ClustersPerChunk
<1>12. MovesFresh'
    <2>1. \A k : Redirected(k)' = Redirected(k)
        BY <1>1, SameMoves
    <2> QED BY <1>1, <1>5, <2>1 DEF MovesFresh
<1> QED BY <1>1, <1>5, <1>9, <1>11, <1>12 DEF ImageInv, CopiesKept, ImageMade, ImageDone

LEMMA RangeOfQueue ==
    ASSUME NEW S, NEW q \in Seq(S), q # <<>>
    PROVE  Range(q) = {Head(q)} \cup Range(Tail(q))
<1>1. /\ Len(q) \in Nat \ {0} /\ DOMAIN q = 1 .. Len(q)
      /\ Len(Tail(q)) = Len(q) - 1 /\ DOMAIN Tail(q) = 1 .. Len(q) - 1 /\ Head(q) = q[1]
      /\ \A i \in 1 .. Len(q) - 1 : Tail(q)[i] = q[i + 1]
    OBVIOUS
<1>2. ASSUME NEW i \in DOMAIN q PROVE q[i] \in {Head(q)} \cup Range(Tail(q))
    <2>1. CASE i = 1
        BY <1>1, <2>1
    <2>2. CASE i # 1
        <3>1. i - 1 \in DOMAIN Tail(q) /\ Tail(q)[i - 1] = q[i]
            BY <1>1, <2>2
        <3> QED BY <3>1 DEF Range
    <2> QED BY <2>1, <2>2
<1>3. ASSUME NEW i \in DOMAIN Tail(q) PROVE Tail(q)[i] \in Range(q)
    <2>1. i + 1 \in DOMAIN q /\ Tail(q)[i] = q[i + 1]
        BY <1>1
    <2> QED BY <2>1 DEF Range
<1>4. Head(q) \in Range(q)
    BY <1>1 DEF Range
<1> QED BY <1>2, <1>3, <1>4 DEF Range

\* A cluster that has no entry need not be moved; if there is no space for it the program
\* gives up.
LEMMA ProtectClusterLeaves ==
    ASSUME ImageInv, RunsInv, DataKept, step = "protect", phase = "protect", todo # <<>>,
           step' = "protect", todo' = Tail(todo), UNCHANGED <<runs, relocs, img_extents>>,
           phase' = "failed" \/ Met(runs[SegmentOf(Head(todo))], Head(todo), 1) = {}
    PROVE  ImageInv'
<1> DEFINE k == Head(todo)
<1>1. /\ relocs \in Seq(Relocations) /\ todo \in Seq(Nat)
      /\ Listed(runs, Segments, KnownClusters)
    BY DEF RunsInv
<1>2. k \in Nat /\ Range(todo) = {k} \cup Range(todo')
    BY <1>1, RangeOfQueue, HeadAndTail
<1>3. phase' = "failed" \/ k \notin ClustersInUse
    <2>1. CASE Met(runs[SegmentOf(k)], k, 1) = {} /\ k \in ClustersInUse
        <3>1. SegmentOf(k) \in Segments /\ k \in Covered(runs[SegmentOf(k)])
            BY <2>1 DEF ImageInv, EntriesKept, AllCovered
        <3>2. runs[SegmentOf(k)] \in Seq(Entries) /\ InOrder(runs[SegmentOf(k)])
            BY <1>1, <3>1 DEF Listed
        <3> HIDE DEF k
        <3> QED BY <1>2, <2>1, <3>1, <3>2, MetCovered
    <2> QED BY <2>1
<1> HIDE DEF k
<1>4. ASSUME NEW x \in ClustersInUse \cap Wiped, x \in Range(todo)
      PROVE  phase' = "failed" \/ x \in Range(todo')
    BY <1>2, <1>3, <1>4
<1>5. ~ ImageDone'
    BY DEF ImageDone
<1>6. Range(todo') \subseteq Range(todo)
    BY <1>2
<1> QED BY <1>1, <1>4, <1>5, <1>6, ImageStays

\* What is read of the cluster x.
ReadCluster(x) ==
    [i \in {i \in 0 .. ClusterSize - 1 : x * ClusterSize + i < OrigSize} |-> disk[x * ClusterSize + i]]

\* The copy that protect_cluster makes of the cluster x, which holds what k did.
LEMMA CopyMade ==
    ASSUME WholeSectors, ConvInv, DataInside', DataAligned',
           NEW addr \in Nat, NEW counted, NEW n, n = addr \div ClusterSize,
           allocated' = allocated \cup {Allocation(addr, ClusterSize, "data", counted)},
           NEW x \in Nat, NEW k, Carries(x, k), disk' = Written(addr, ReadCluster(x))
    PROVE  Holds(n, k)'
<1> DEFINE a == Allocation(addr, ClusterSize, "data", counted)
<1>1. a \in allocated' /\ a.type = "data" /\ a.addr = addr /\ a.length = ClusterSize
    BY DEF Allocation
<1> HIDE DEF a
<1>2. addr = n * ClusterSize
    <2>1. addr % ClusterSize = 0
        BY <1>1 DEF DataAligned
    <2>2. addr = ClusterSize * (addr \div ClusterSize) + (addr % ClusterSize) /\ addr \div ClusterSize \in Int
        BY Division
    <2> QED BY <2>1, <2>2
<1>3. Extent(addr, ClusterSize) \subseteq DataGranted'
    BY <1>1 DEF DataGranted, DataAllocations
<1>4. DataGranted' \subseteq 0 .. DeviceSize - 1
    BY DEF DataInside
<1>5. DOMAIN disk = 0 .. DeviceSize - 1 /\ OrigSize = DeviceSize
    BY DEF WholeSectors, ConvInv, OnlyGrantedWritten
<1> DEFINE content == ReadCluster(x)
<1>6. ASSUME NEW i \in 0 .. ClusterSize - 1 PROVE x * ClusterSize + i < OrigSize
    <2>1. x * ClusterSize + i \in Extent(x * ClusterSize, ClusterSize)
        BY DEF Extent
    <2> QED BY <1>5, <2>1 DEF Carries
<1>7. DOMAIN content = 0 .. ClusterSize - 1
      /\ \A i \in 0 .. ClusterSize - 1 : content[i] = disk[x * ClusterSize + i]
    BY <1>6 DEF ReadCluster
<1> HIDE DEF content
<1>8. /\ DOMAIN disk' = DOMAIN disk
      /\ \A u \in DOMAIN disk :
            disk'[u] = IF u - addr \in DOMAIN content THEN content[u - addr] ELSE disk[u]
    BY WrittenUnits DEF content
<1>9. ASSUME NEW i \in 0 .. ClusterSize - 1
      PROVE  disk'[addr + i] = Ntfs((k * ClusterSize) + i)
    <2>1. addr + i \in DOMAIN disk
        <3>1. addr + i \in Extent(addr, ClusterSize)
            BY DEF Extent
        <3> QED BY <1>3, <1>4, <1>5, <3>1
    <2>2. (addr + i) - addr = i
        OBVIOUS
    <2>3. disk'[addr + i] = content[i]
        BY <1>7, <1>8, <2>1, <2>2
    <2> QED BY <1>7, <2>3 DEF Carries
<1>10. Extent(addr, ClusterSize) \subseteq DOMAIN disk'
    BY <1>3, <1>4, <1>5, <1>8
<1> QED BY <1>2, <1>3, <1>9, <1>10 DEF Holds, Carries, Ntfs

\* Moving a cluster: its entry says so, the copy has one of its own, and nothing is sent
\* to it any more.
LEMMA RelocateImage ==
    ASSUME WholeWords, ClusterBitmaps, WholeClusters, WholeBitmap, WholeSectors, SuperblockReserved,
           ConvInv, RunsInv, ImageInv, DataKept, DataInside', DataAligned', NoOverwrite',
           step = "protect", phase = "protect", todo # <<>>, step' = "protect", todo' = Tail(todo),
           Met(runs[SegmentOf(Head(todo))], Head(todo), 1) # {},
           AllocatorCall("data", DataChunkSize, ClusterSize, FALSE), phase' # "failed",
           Relocate(Head(todo))
    PROVE  ImageInv'
<1>0. PICK k : k = Head(todo)
    OBVIOUS
<1> DEFINE addr == Returned
           n == addr \div ClusterSize
           s == SegmentOf(k)
           U == ClustersInUse
           cut == [runs EXCEPT ![s] = Cut(runs[s], k, 1, dummy_inode, 0)]
           r == [old_start |-> k, new_start |-> n]
           copy == DataAlloc(n, 1, 0, 0, TRUE, FALSE)
<1>1. /\ relocs \in Seq(Relocations) /\ todo \in Seq(Nat)
      /\ Listed(runs, Segments, KnownClusters) /\ IInv /\ GrantedAbove
    BY DEF RunsInv, ConvInv
<1>2. k \in Nat /\ Range(todo) = {k} \cup Range(todo')
    BY <1>1, <1>0, RangeOfQueue, HeadAndTail
<1>3. /\ relocs' = Append(relocs, r)
      /\ runs' = [cut EXCEPT ![SegmentOf(n)] = Insert(cut[SegmentOf(n)], copy)]
      /\ disk' = Written(addr, ReadCluster(k))
    BY <1>0 DEF Relocate, ReadCluster
<1>4. /\ n \in Nat /\ KnownClusters \cap Extent(n, 1) = {}
      /\ KnownClusters \cup Extent(n, 1) \subseteq KnownClusters'
    <2>1. ClusterSize \div ClusterSize = 1
        OBVIOUS
    <2> QED BY <1>1, <2>1, DataReturned
<1>5. /\ addr \in Nat
      /\ allocated' = allocated \cup {Allocation(addr, ClusterSize, "data", FALSE)}
    BY <1>1, CallReturns
<1>6. s \in Segments
    BY <1>2 DEF ImageInv, ProtectPlaced
<1> HIDE DEF s
<1>7. k \in Covered(runs[s])
    <2>1. runs[s] \in Seq(Entries) /\ InOrder(runs[s])
        BY <1>1, <1>6 DEF Listed
    <2>2. Met(runs[s], k, 1) # {}
        BY <1>0 DEF s
    <2> QED BY <1>2, <2>1, <2>2, MetCovered
<1>8. k \in KnownClusters
    BY <1>1, <1>6, <1>7 DEF Listed
<1>9. U \in SUBSET KnownClusters /\ U \in SUBSET Nat /\ U' = U
    BY InUseKnown, SameUse DEF DataKept
<1>10. r \in Relocations /\ r.old_start = k /\ r.new_start = n
    BY <1>2, <1>4 DEF Relocations
<1>11. n \notin KnownClusters
    <2>1. n \in Extent(n, 1)
        BY <1>4 DEF Extent
    <2> QED BY <1>4, <2>1
<1> HIDE DEF U, n, addr, r
<1>12. Moved' = Moved \cup {k}
    BY <1>1, <1>3, <1>10, MovedOn
<1>13. MovesFresh'
    <2>1. Moved \subseteq KnownClusters /\ \A j \in Nat : Redirected(j) \notin Moved
        BY DEF ImageInv, MovesFresh
    <2>2. Moved' \subseteq KnownClusters'
        BY <1>4, <1>8, <1>12, <2>1
    <2>3. ASSUME NEW j \in Nat PROVE Redirected(j)' \notin Moved'
        <3>1. Redirected(j)' = IF k = Redirected(j) THEN n ELSE Redirected(j)
            BY <1>1, <1>3, <1>10, RedirectedOn
        <3>2. Redirected(j) \notin Moved
            BY <2>1
        <3> QED BY <1>8, <1>11, <1>12, <2>1, <3>1, <3>2
    <2> QED BY <2>2, <2>3 DEF MovesFresh
<1>14. CopiesKept'
    <2>1. ASSUME NEW x \in U, x \in Moved PROVE CopyKept(x)'
        <3>1. MovedTo(x)' = MovedTo(x)
            BY <1>1, <1>3, <1>10, <2>1, MovedToOn
        <3>2. MovedTo(x) \in Nat
            BY <1>1, <2>1, MovedToType
        <3>3. CopyKept(x)
            BY <2>1 DEF ImageInv, CopiesKept, U
        <3> QED BY <3>1, <3>2, <3>3, CopyStays
    <2>2. ASSUME k \in U, k \notin Moved PROVE CopyKept(k)'
        <3>1. MovedTo(k)' = n
            BY <1>1, <1>3, <1>10, <2>2, MovedToOn
        <3>2. Carries(k, k)
            BY <2>2, InUseHolds DEF U
        <3>3. PICK j : j = n
            OBVIOUS
        <3>4. FALSE \in BOOLEAN /\ j = addr \div ClusterSize
            BY <3>3 DEF n
        <3>5. Holds(j, k)'
            BY <1>2, <1>3, <1>5, <3>2, <3>4, CopyMade
        <3> QED BY <3>1, <3>3, <3>5 DEF CopyKept, Holds, Carries
    <2>3. \A x \in U \cap Moved' : CopyKept(x)'
        BY <1>12, <2>1, <2>2
    <2> QED BY <1>9, <2>3 DEF CopiesKept, U
<1>15. EntriesKept'
    <2>1. /\ AllCovered(runs, U) /\ EntriesTell(runs, U, Moved, TRUE)
        <3>1. step # "scan" /\ (step = "protect") = TRUE
            OBVIOUS
        <3>2. EntriesTell(runs, U, Moved, step = "protect") /\ AllCovered(runs, U)
            BY <3>1 DEF ImageInv, EntriesKept, U
        <3> QED BY <3>1, <3>2, Zenon
    <2>2. EntriesTell(cut, U, Moved \cup {k}, TRUE) /\ AllCovered(cut, U)
        BY <1>1, <1>2, <1>6, <1>7, <1>9, <2>1, EntriesMoved DEF s
    <2>3. Listed(cut, Segments, KnownClusters)
        <3>1. s \in Segments => ~ Torn(runs[s], k, 1)
            BY <1>1, <1>2, OneClusterWhole DEF Listed
        <3>2. dummy_inode \in Int /\ 0 \in Nat /\ 1 \in Nat \ {0}
            BY DEF dummy_inode
        <3> QED BY <1>1, <1>2, <3>1, <3>2, ListedCut
    <2>4. /\ copy \in Entries /\ copy.offset = n /\ copy.length = 1
          /\ copy.inode # dummy_inode /\ copy.relocated /\ ~ copy.not_in_img
        BY <1>4 DEF Entries, DataAlloc, dummy_inode
    <2> HIDE DEF cut, copy
    <2> DEFINE Q == [cut EXCEPT ![SegmentOf(n)] = Insert(cut[SegmentOf(n)], copy)]
    <2>5. TRUE \in BOOLEAN /\ KnownClusters \cap Extent(copy.offset, copy.length) = {}
        BY <1>4, <2>4
    <2>6. EntriesTell(Q, U, Moved \cup {k}, TRUE) /\ AllCovered(Q, U)
        BY <1>9, <2>2, <2>3, <2>4, <2>5, EntriesInserted
    <2>7. runs' = Q /\ U' = U /\ Moved' = Moved \cup {k} /\ (step' = "protect") = TRUE
        BY <1>3, <1>9, <1>12
    <2> HIDE DEF Q
    <2>8. AllCovered(runs', U') /\ EntriesTell(runs', U', Moved', step' = "protect")
        BY <2>6, <2>7, Zenon
    <2> QED BY <2>8 DEF EntriesKept, U
<1>16. WipedMoved'
    <2>1. ASSUME NEW x \in U \cap Wiped PROVE x \in Moved' \/ x \in Range(todo')
        <3>1. x \in Moved \/ x \in Range(todo)
            BY <2>1 DEF ImageInv, WipedMoved, U
        <3> QED BY <1>2, <1>12, <3>1
    <2>2. Wiped' = Wiped
        BY DEF Wiped
    <2> QED BY <1>9, <2>1, <2>2 DEF WipedMoved, U
<1>17. ProtectPlaced'
    <2>1. \A x \in Range(todo') : SegmentOf(x) \in Segments
        BY <1>2 DEF ImageInv, ProtectPlaced
    <2> QED BY <2>1 DEF ProtectPlaced, SegmentOf, Segments, ClustersPerChunk
<1>18. ImageMade'
    BY DEF ImageMade, ImageDone
<1> QED BY <1>13, <1>14, <1>15, <1>16, <1>17, <1>18 DEF ImageInv

LEMMA ProtectClusterImage ==
    ASSUME WholeWords, ClusterBitmaps, WholeClusters, WholeBitmap, WholeSectors, SuperblockReserved,
           ConvInv, RunsInv, ImageInv, DataKept, DataInside', DataAligned', NoOverwrite',
           ProtectCluster
    PROVE  ImageInv'
<1>1. /\ step = "protect" /\ phase = "protect" /\ todo # <<>> /\ step' = "protect"
      /\ todo' = Tail(todo)
    BY DEF ProtectCluster, ConvInv, StepPhase
<1>2. CASE Met(runs[SegmentOf(Head(todo))], Head(todo), 1) = {} /\ Stays /\ UNCHANGED vars
    BY <1>1, <1>2, ProtectClusterLeaves DEF Stays, memory
<1>3. CASE /\ Met(runs[SegmentOf(Head(todo))], Head(todo), 1) # {}
           /\ AllocateData(ClusterSize, FALSE)
           /\ IF phase' = "failed" THEN Stays
              ELSE /\ Relocate(Head(todo))
                   /\ UNCHANGED <<filed, fs_extents, img_extents, extent_items, runs2, csums>>
    <2>1. AllocatorCall("data", DataChunkSize, ClusterSize, FALSE)
        BY <1>1, <1>3, DataCalls
    <2>2. CASE phase' = "failed"
        BY <1>1, <1>3, <2>2, ProtectClusterLeaves DEF Stays, memory
    <2>3. CASE phase' # "failed"
        <3>1. Relocate(Head(todo)) /\ Met(runs[SegmentOf(Head(todo))], Head(todo), 1) # {}
            BY <1>3, <2>3
        <3> QED BY <1>1, <2>1, <2>3, <3>1, RelocateImage
    <2> QED BY <2>2, <2>3
<1> QED BY <1>2, <1>3 DEF ProtectCluster

\* When the files are done with, only the lists change, up to the making of the image.
LEMMA ListsChange ==
    ASSUME ImageInv, RunsInv, DataKept, step = "files", step' = "files", UNCHANGED relocs,
           AllCovered(runs', ClustersInUse), EntriesTell(runs', ClustersInUse, Moved, FALSE)
    PROVE  ImageInv'
<1>1. ClustersInUse' = ClustersInUse /\ UNCHANGED in_use
    BY SameUse DEF DataKept
<1>2. /\ Moved' = Moved
      /\ \A k : MovedTo(k)' = MovedTo(k)
      /\ \A k : Redirected(k)' = Redirected(k)
    BY SameMoves
<1>3. CopiesKept'
    <2>1. ASSUME NEW k \in ClustersInUse \cap Moved PROVE CopyKept(k)'
        <3>1. CopyKept(k)
            BY DEF ImageInv, CopiesKept
        <3> QED BY <1>2, <3>1, CopyStays, MovedToType DEF RunsInv
    <2> QED BY <1>1, <1>2, <2>1 DEF CopiesKept
<1>4. MovesFresh'
    <2>1. KnownClusters \subseteq KnownClusters'
        BY KnownGrows DEF DataKept
    <2> QED BY <1>2, <2>1 DEF ImageInv, MovesFresh
<1>5. EntriesKept'
    <2>1. (step' = "protect") = FALSE
        OBVIOUS
    <2>2. AllCovered(runs', ClustersInUse') /\ EntriesTell(runs', ClustersInUse', Moved', step' = "protect")
        BY <1>1, <1>2, <2>1, Zenon
    <2> QED BY <2>2 DEF EntriesKept
<1>6. WipedMoved'
    <2>1. Wiped' = Wiped
        BY DEF Wiped
    <2> QED BY <1>1, <1>2, <2>1 DEF ImageInv, WipedMoved
<1> QED BY <1>3, <1>4, <1>5, <1>6 DEF ImageInv, ProtectPlaced, ImageMade, ImageDone

\* The entries once all that has to be moved is moved.
LEMMA FiledEntries ==
    ASSUME ImageInv, step = "files"
    PROVE  AllCovered(runs, ClustersInUse) /\ EntriesTell(runs, ClustersInUse, Moved, FALSE)
<1>1. step # "scan" /\ (step = "protect") = FALSE
    OBVIOUS
<1>2. AllCovered(runs, ClustersInUse)
      /\ EntriesTell(runs, ClustersInUse, Moved, step = "protect")
    BY <1>1 DEF ImageInv, EntriesKept
<1> QED BY <1>1, <1>2, Zenon

LEMMA SplitRunsImage ==
    ASSUME WholeBitmap, WholeSectors, ConvInv, RunsInv, ImageInv, SplitRuns
    PROVE  ImageInv'
<1>1. /\ step = "files" /\ todo # <<>> /\ step' = "files"
      /\ UNCHANGED <<in_use, allocated, disk, relocs>>
    BY DEF SplitRuns
<1>2. Head(todo) \in ConvertedFiles
    BY <1>1, HeadAndTail DEF ConvInv, Queues
<1>3. PICK p \in FilePieces :
         LET list == runs[SegmentOf(p.lcn)] IN
              IF Torn(list, p.lcn, p.length)
              THEN phase' = "failed" /\ UNCHANGED runs
              ELSE /\ runs' = [runs EXCEPT ![SegmentOf(p.lcn)] =
                                  Cut(list, p.lcn, p.length, Head(todo).inode, p.vcn)]
                   /\ UNCHANGED phase
    BY DEF SplitRuns
<1> DEFINE f == Head(todo)
           t == SegmentOf(p.lcn)
           U == ClustersInUse
<1>4. f.inode \in Nat /\ f.mappings \in SUBSET [vcn : Nat, lcn : Nat, length : Nat \ {0}]
    BY <1>2 DEF ConvertedFiles, Files
<1>5. /\ p.vcn \in Nat /\ p.lcn \in Nat /\ p.length \in Nat \ {0}
      /\ \E k \in Nat : p.lcn = Redirected(k)
    <2>1. PICK m \in f.mappings : p \in Pieces(m)
        BY DEF FilePieces
    <2> HIDE DEF f
    <2>2. m \in [vcn : Nat, lcn : Nat, length : Nat \ {0}]
        BY <1>4
    <2>3. \E k \in m.lcn .. (m.lcn + m.length) - 1 : p.lcn = Redirected(k)
        BY <2>1 DEF Pieces
    <2> QED BY <2>1, <2>2, <2>3, PieceType DEF RunsInv
<1>6. p.lcn \notin Moved
    BY <1>5 DEF ImageInv, MovesFresh
<1>7. \/ UNCHANGED runs
      \/ /\ ~ Torn(runs[t], p.lcn, p.length)
         /\ runs' = [runs EXCEPT ![t] = Cut(runs[t], p.lcn, p.length, f.inode, p.vcn)]
    BY <1>3
<1>8. Listed(runs, Segments, KnownClusters) /\ U \in SUBSET Nat
    BY InUseKnown DEF RunsInv
<1>9. AllCovered(runs, U) /\ EntriesTell(runs, U, Moved, FALSE)
    BY <1>1, FiledEntries
<1> HIDE DEF f, t, U
<1>10. AllCovered(runs', U) /\ EntriesTell(runs', U, Moved, FALSE)
    <2>1. CASE UNCHANGED runs
        BY <1>9, <2>1
    <2>2. CASE /\ ~ Torn(runs[t], p.lcn, p.length)
               /\ runs' = [runs EXCEPT ![t] = Cut(runs[t], p.lcn, p.length, f.inode, p.vcn)]
        BY <1>4, <1>5, <1>6, <1>8, <1>9, <2>2, EntriesFiled
    <2> QED BY <1>7, <2>1, <2>2
<1>11. DataKept
    BY <1>1, SameDataKept
<1> QED BY <1>1, <1>10, <1>11, ListsChange DEF U

\* Data that is rewritten goes where nothing has an entry, and is not for the image.
LEMMA WriteDataImage ==
    ASSUME WholeWords, ClusterBitmaps, WholeClusters, WholeBitmap, WholeSectors,
           ConvInv, RunsInv, ImageInv, DataKept, DataAligned', NoOverwrite', WriteData
    PROVE  ImageInv'
<1> DEFINE f == Head(todo)
           U == ClustersInUse
<1>1. /\ step = "files" /\ step' = "files" /\ todo # <<>> /\ phase = "rewrite" /\ f.mappings = {}
    BY DEF WriteData, ConvInv, StepPhase
<1>2. f \in ConvertedFiles
    BY <1>1, HeadAndTail DEF ConvInv, Queues
<1>3. /\ AllocateData(f.length, TRUE)
      /\ IF phase' = "failed"
         THEN UNCHANGED <<runs, relocs>>
         ELSE LET addr == Returned IN
              /\ runs' = [runs EXCEPT ![addr \div DataChunkSize] =
                                Insert(@, DataAlloc(addr \div ClusterSize,
                                                    f.length \div ClusterSize, f.inode,
                                                    f.pos \div ClusterSize, FALSE, TRUE))]
              /\ UNCHANGED relocs
    BY DEF WriteData, Stays, memory
<1>4. UNCHANGED relocs
    BY <1>3
<1> HIDE DEF f
<1>5. f.length \in DataLengths /\ f.inode \in Nat \ {0} /\ f.pos \in Nat
    BY <1>1, <1>2 DEF ConvertedFiles, Files
<1>6. AllocatorCall("data", DataChunkSize, f.length, TRUE)
    BY <1>1, <1>3, <1>5, DataCalls
<1>7. Listed(runs, Segments, KnownClusters) /\ U \in SUBSET KnownClusters
    BY InUseKnown DEF RunsInv
<1>8. AllCovered(runs, U) /\ EntriesTell(runs, U, Moved, FALSE)
    BY <1>1, FiledEntries
<1> HIDE DEF U
<1>9. CASE phase' = "failed"
    BY <1>1, <1>3, <1>8, <1>9, ListsChange DEF U
<1>10. CASE phase' # "failed"
    <2> DEFINE n == Returned \div ClusterSize
               c == f.length \div ClusterSize
               t == Returned \div DataChunkSize
               pos == f.pos \div ClusterSize
               r == DataAlloc(n, c, f.inode, pos, FALSE, TRUE)
               Q == [runs EXCEPT ![t] = Insert(runs[t], r)]
    <2>1. n \in Nat /\ c \in Nat \ {0} /\ KnownClusters \cap Extent(n, c) = {}
        BY <1>6, <1>10, DataReturned DEF ConvInv
    <2>2. pos \in Nat
        BY <1>5
    <2>3. runs' = Q
        BY <1>3, <1>10
    <2> HIDE DEF n, c, t, pos
    <2>4. r \in Entries /\ r.offset = n /\ r.length = c /\ r.inode # dummy_inode /\ ~ r.relocated
        BY <1>5, <2>1, <2>2 DEF Entries, DataAlloc, dummy_inode
    <2>5. FALSE \in BOOLEAN /\ KnownClusters \cap Extent(r.offset, r.length) = {}
        BY <2>1, <2>4
    <2> HIDE DEF r
    <2>6. EntriesTell(Q, U, Moved, FALSE) /\ AllCovered(Q, U)
        BY <1>7, <1>8, <2>4, <2>5, EntriesInserted
    <2> HIDE DEF Q
    <2>7. EntriesTell(runs', U, Moved, FALSE) /\ AllCovered(runs', U)
        BY <2>3, <2>6
    <2> QED BY <1>1, <1>4, <2>7, ListsChange DEF U
<1> QED BY <1>9, <1>10

\* All other steps leave the lists and the relocations alone.
LEMMA OtherImage ==
    ASSUME ConvInv, RunsInv, ImageInv, DataKept,
           \/ Scan \/ CalcUsedSpace \/ MapFile \/ CreateImage \/ CreateDataExtentItems
           \/ JoinRun \/ CalcChecksums \/ LayOutBlock \/ LayoutDone \/ WriteTrees
           \/ TreesWritten \/ WriteSuperblock \/ ClearFirstCluster
           \/ UNCHANGED <<vars, cvars>>
    PROVE  ImageInv'
<1>0. relocs \in Seq(Relocations) /\ StepPhase
    BY DEF RunsInv, ConvInv
<1>1. ASSUME UNCHANGED <<runs, relocs>>, step # "protect", step' # "protect",
             step = "scan" <=> step' = "scan",
             ImageDone' => (ImageDone /\ UNCHANGED img_extents) \/ img_extents' = ImageItems
      PROVE  ImageInv'
    BY <1>0, <1>1, ImageStays
<1>2. CASE Scan
    BY <1>0, <1>1, <1>2 DEF Scan, cvars, memory, ImageDone
<1>3. CASE CalcUsedSpace
    <2>1. /\ UNCHANGED <<runs, relocs>> /\ step = "protect" /\ step' = "files" /\ phase # "failed"
          /\ todo = <<>>
        BY <1>0, <1>3 DEF CalcUsedSpace, NextPhase
    <2>2. Range(todo) = {}
        BY <2>1 DEF Range
    <2>3. ~ ImageDone'
        BY <2>1 DEF ImageDone
    <2> QED BY <1>0, <2>1, <2>2, <2>3, ImageStays
<1>4. CASE CreateImage
    <2>1. /\ UNCHANGED <<runs, relocs>> /\ step = "files" /\ step' = "extents"
          /\ img_extents' = ImageItems
        BY <1>4 DEF CreateImage, ImageItems
    <2> QED BY <1>1, <2>1
<1>5. CASE MapFile
    BY <1>1, <1>5 DEF MapFile, ImageDone
<1>6. CASE CreateDataExtentItems \/ JoinRun \/ CalcChecksums
    BY <1>1, <1>6 DEF CreateDataExtentItems, JoinRun, CalcChecksums, ImageDone
<1>7. CASE LayOutBlock \/ LayoutDone \/ WriteTrees \/ TreesWritten \/ WriteSuperblock
           \/ ClearFirstCluster
    BY <1>1, <1>7 DEF LayOutBlock, LayoutDone, WriteTrees, TreesWritten, WriteSuperblock,
                      ClearFirstCluster, cvars, memory, ImageDone
<1>8. CASE UNCHANGED <<vars, cvars>>
    <2>1. UNCHANGED <<runs, relocs, step, todo, phase, img_extents>>
        BY <1>8 DEF vars, cvars, memory
    <2>2. ImageDone' => ImageDone
        BY <2>1 DEF ImageDone
    <2>3. \A k \in ClustersInUse \cap Wiped :
             step = "protect" /\ (phase = "failed" \/ k \in Range(todo))
               => (step' = "protect" /\ (phase' = "failed" \/ k \in Range(todo')))
        BY <2>1
    <2> QED BY <1>0, <2>1, <2>2, <2>3, ImageStays
<1> QED BY <1>2, <1>3, <1>4, <1>5, <1>6, <1>7, <1>8

LEMMA ImageStep ==
    ASSUME WholeStripes, WholeWords, ClusterBitmaps, WholeClusters, BootInUse, WholeBitmap,
           WholeSectors, SuperblockReserved,
           ConvInv, GeometryInv, RunsInv, ImageInv, DataInside', DataAligned', NoOverwrite',
           [ConvNext]_<<vars, cvars>>
    PROVE  ImageInv'
<1>1. DataKept
    BY DataKeptNext
<1>2. IInv
    BY DEF ConvInv
<1>3. CASE ParseDataBitmap
    BY <1>2, <1>3, ParseDataBitmapImage
<1>4. CASE ProtectCluster
    BY <1>1, <1>4, ProtectClusterImage
<1>5. CASE SplitRuns
    BY <1>5, SplitRunsImage
<1>6. CASE WriteData
    BY <1>1, <1>6, WriteDataImage
<1> QED BY <1>1, <1>3, <1>4, <1>5, <1>6, OtherImage DEF ConvNext

-----------------------------------------------------------------------------
(* The image holds what NTFS held. *)

LEMMA NtfsNotGranted ==
    ASSUME WholeWords, ClusterBitmaps, WholeSectors, ConvInv, NEW u \in NtfsUnits
    PROVE  u \notin Granted
<1>1. TypeOK
    BY DEF ConvInv, IInv
<1>2. Granted \cap ClusterSpace(Located) = {}
    BY LocatedNotGranted DEF NoOverwrite, ConvInv
<1>3. PICK c \in in_use : u \in Extent(c, ClusterSize)
    BY DEF NtfsUnits, ClusterSpace
<1>4. u \in 0 .. DeviceSize - 1
    BY DEF NtfsUnits, ConvInv, OnlyGrantedWritten, WholeSectors
<1>5. c < DeviceSize
    BY <1>1, <1>3, <1>4 DEF Extent, TypeOK
<1>6. PICK s \in 0 .. DeviceSize : Base(s) < DeviceSize /\ c \in LocatedIn(s)
    BY <1>1, <1>5, AllLocated
<1>7. u \in ClusterSpace(Located)
    BY <1>3, <1>6 DEF Located, ClusterSpace
<1> QED BY <1>2, <1>7

\* A unit of a cluster is in the extent of an entry just if the cluster is in the entry.
LEMMA UnitInEntry ==
    ASSUME NEW r \in Entries, NEW k \in Nat, NEW u, u \in Extent(k * ClusterSize, ClusterSize)
    PROVE  u \in Extent(r.offset * ClusterSize, r.length * ClusterSize)
             <=> k \in Extent(r.offset, r.length)
<1> DEFINE CS == ClusterSize
           a == r.offset
           b == r.offset + r.length
<1>1. a \in Nat /\ b \in Nat /\ r.length \in Nat /\ CS \in Nat \ {0}
    BY EntryFields
<1>2. k * CS \in Nat /\ a * CS \in Nat /\ b * CS \in Nat /\ a * CS + r.length * CS = b * CS
    BY <1>1
<1>3. u \in Int /\ k * CS <= u /\ u < k * CS + CS
    BY <1>2 DEF Extent
<1>4. ASSUME NEW x \in Nat, NEW y \in Nat
      PROVE  /\ x <= y => x * CS <= y * CS
             /\ x < y => x * CS + CS <= y * CS
    <2>1. ASSUME x <= y PROVE x * CS <= y * CS
        <3>1. (y - x) * CS >= 0
            BY <1>1, <2>1
        <3> QED BY <1>1, <3>1
    <2>2. ASSUME x < y PROVE x * CS + CS <= y * CS
        <3>1. (y - (x + 1)) * CS >= 0
            BY <1>1, <2>2
        <3> QED BY <1>1, <3>1
    <2> QED BY <2>1, <2>2
<1>5. u \in Extent(a * CS, r.length * CS) <=> a * CS <= u /\ u < b * CS
    BY <1>1, <1>2, <1>3 DEF Extent
<1>6. k \in Extent(a, r.length) <=> a <= k /\ k < b
    BY <1>1 DEF Extent
<1> HIDE DEF CS, a, b
<1>7. ASSUME a <= k, k < b PROVE a * CS <= u /\ u < b * CS
    <2>1. a * CS <= k * CS
        BY <1>1, <1>4, <1>7
    <2>2. k * CS + CS <= b * CS
        BY <1>1, <1>4, <1>7
    <2> QED BY <1>1, <1>2, <1>3, <2>1, <2>2
<1>8. ASSUME a * CS <= u, u < b * CS PROVE a <= k /\ k < b
    <2>1. CASE k < a
        <3>1. k * CS + CS <= a * CS
            BY <1>1, <1>4, <2>1
        <3> QED BY <1>1, <1>2, <1>3, <1>8, <3>1
    <2>2. CASE b <= k
        <3>1. b * CS <= k * CS
            BY <1>1, <1>4, <2>2
        <3> QED BY <1>1, <1>2, <1>3, <1>8, <3>1
    <2> QED BY <1>1, <2>1, <2>2
<1> QED BY <1>5, <1>6, <1>7, <1>8 DEF a, CS

\* What a cluster that was not moved holds is still there in the end.
LEMMA InPlaceKept ==
    ASSUME WholeWords, ClusterBitmaps, WholeClusters, WholeSectors, SuperblockReserved, ConvInv,
           ImageInv, ImageDone, NEW k \in ClustersInUse, k \in Nat, k \notin Moved,
           NEW u \in NtfsUnits, u \in Extent(k * ClusterSize, ClusterSize)
    PROVE  disk[u] = Ntfs(u)
<1>1. k \notin Wiped
    BY DEF ImageInv, WipedMoved, ImageDone
<1>2. k * ClusterSize \in Nat /\ k * ClusterSize >= Reserved /\ k * ClusterSize \notin SuperAddrs
    BY <1>1 DEF Wiped
<1>3. u \notin Granted /\ u \in DOMAIN disk
    BY NtfsNotGranted DEF NtfsUnits
<1>4. u \notin SuperAddrs
    <2>1. CASE u \in SuperAddrs
        <3>1. u \in Nat /\ u % ClusterSize = 0
            BY <2>1 DEF WholeClusters
        <3>2. u \in k * ClusterSize .. k * ClusterSize + (ClusterSize - 1)
            BY <1>2 DEF Extent
        <3>3. Multiple(u, ClusterSize)
            BY <3>1 DEF Multiple
        <3>4. PICK p \in Int : u = p * ClusterSize
            BY <3>1, <3>3, MultipleWitness
        <3>5. p \in Nat
            <4>1. CASE p < 0
                <5>1. (-1 - p) * ClusterSize >= 0
                    BY <3>4, <4>1
                <5> QED BY <3>1, <3>4, <5>1
            <4> QED BY <3>4, <4>1
        <3>6. u \in Extent(p * ClusterSize, ClusterSize)
            BY <3>1, <3>4 DEF Extent
        <3>7. p = k
            BY <3>5, <3>6, OneCluster
        <3> QED BY <1>2, <2>1, <3>4, <3>7
    <2> QED BY <2>1
<1>5. ~ (u < ClusterSize)
    <2>1. CASE u < ClusterSize
        <3>1. 0 * ClusterSize = 0 /\ u \in Nat
            BY <1>2 DEF Extent
        <3>2. u \in Extent(0 * ClusterSize, ClusterSize)
            BY <2>1, <3>1 DEF Extent
        <3>3. k = 0
            BY <3>2, OneCluster
        <3>4. Reserved > 0
            BY DEF SuperblockReserved
        <3> QED BY <1>2, <3>1, <3>3, <3>4
    <2> QED BY <2>1
<1> QED BY <1>3, <1>4, <1>5 DEF ConvInv, OnlyGrantedWritten

LEMMA ImageHolds ==
    ASSUME WholeWords, ClusterBitmaps, WholeClusters, WholeBitmap, WholeSectors, BitsInBitmap,
           SuperblockReserved, ConvInv, RunsInv, ImageInv
    PROVE  ImageFaithful
<1> SUFFICES ASSUME ImageDone, NEW u \in NtfsUnits PROVE Reads(img_extents, Image, u, Ntfs(u))
    BY DEF ImageFaithful
<1> DEFINE U == ClustersInUse
           At(e) == e.addr + u - e.pos
           Found == {x \in img_extents : x.owner = Image /\ u \in Extent(x.pos, x.length)}
           Places == {At(e) : e \in Found}
<1>1. TypeOK /\ DOMAIN disk = 0 .. DeviceSize - 1 /\ u \in DOMAIN disk
    BY DEF ConvInv, IInv, OnlyGrantedWritten, WholeSectors, NtfsUnits
<1>2. PICK k \in U : k \in Nat /\ u \in Extent(k * ClusterSize, ClusterSize)
    <2>1. PICK c \in in_use : u \in Extent(c, ClusterSize)
        BY DEF NtfsUnits, ClusterSpace
    <2>2. c < DeviceSize
        BY <1>1, <2>1 DEF Extent, TypeOK
    <2> QED BY <1>1, <2>1, <2>2, InUseCluster
<1>3. /\ AllCovered(runs, U) /\ EntriesTell(runs, U, Moved, step = "protect")
      /\ img_extents = ImageItems
    BY DEF ImageInv, EntriesKept, ImageMade, ImageDone
<1> HIDE DEF U
<1> DEFINE s == SegmentOf(k)
<1>4. s \in Segments /\ k \in Covered(runs[s])
    BY <1>3 DEF AllCovered
<1>5. ASSUME NEW t \in Segments
      PROVE  runs[t] \in Seq(Entries) /\ InOrder(runs[t]) /\ Members(runs[t]) \subseteq Entries
    BY MemberEntries DEF RunsInv, Listed
<1>6. AllRuns = UNION {Members(runs[t]) : t \in Segments}
    BY DEF AllRuns, Members
<1> HIDE DEF s
<1>7. PICK r \in Members(runs[s]) : k \in Extent(r.offset, r.length)
    BY <1>4 DEF Covered
<1>8. /\ ~ r.relocated /\ ~ r.not_in_img /\ r \in Entries
      /\ k \in Moved => r.inode = dummy_inode
      /\ r.inode = dummy_inode => r.length = 1 /\ r.offset \in Moved
    BY <1>2, <1>3, <1>4, <1>5, <1>7 DEF EntriesTell, EntryTells, TellsOfUse, TellsOfMoves
<1>9. ASSUME NEW q \in AllRuns, ~ q.relocated, ~ q.not_in_img,
             u \in Extent(q.offset * ClusterSize, q.length * ClusterSize)
      PROVE  q = r
    <2>1. PICK t \in Segments : q \in Members(runs[t])
        BY <1>6
    <2>2. q \in Entries
        BY <1>5, <2>1
    <2>3. k \in Extent(q.offset, q.length)
        BY <1>2, <1>9, <2>2, UnitInEntry
    <2>4. s = t
        BY <1>2, <1>3, <2>1, <2>3 DEF EntriesTell, EntryTells, TellsOfUse, s
    <2> QED BY <1>2, <1>4, <1>5, <1>7, <2>1, <2>3, <2>4, OneEntry
<1> DEFINE e == ImageExtent(r)
           from == IF r.inode = dummy_inode THEN MovedTo(r.offset) ELSE r.offset
<1>10. /\ e.owner = Image /\ e.pos = r.offset * ClusterSize /\ e.length = r.length * ClusterSize
       /\ e.addr = from * ClusterSize
    BY DEF ImageExtent, Extents
<1>11. e \in Found
    <2>1. r \in AllRuns
        BY <1>4, <1>6, <1>7
    <2>2. e \in ImageItems
        BY <1>8, <2>1 DEF ImageItems
    <2>3. u \in Extent(e.pos, e.length)
        BY <1>2, <1>7, <1>8, <1>10, UnitInEntry
    <2> QED BY <1>3, <1>10, <2>2, <2>3
<1>12. Found = {e}
    <2>1. ASSUME NEW x \in Found PROVE x = e
        <3>1. PICK q \in AllRuns : ~ q.relocated /\ ~ q.not_in_img /\ x = ImageExtent(q)
            BY <1>3 DEF ImageItems
        <3>2. x.pos = q.offset * ClusterSize /\ x.length = q.length * ClusterSize
            BY <3>1 DEF ImageExtent, Extents
        <3>3. q = r
            BY <1>9, <3>1, <3>2
        <3> QED BY <3>1, <3>3
    <2> HIDE DEF Found, e
    <2> QED BY <1>11, <2>1
<1> HIDE DEF Found, e
<1>13. Places = {At(e)}
    BY <1>12
<1>14. At(e) \in DOMAIN disk /\ disk[At(e)] = Ntfs(u)
    <2>1. CASE r.inode = dummy_inode
        <3>1. r.offset = k /\ k \in Moved
            BY <1>2, <1>7, <1>8, <2>1, EntryFields DEF Extent
        <3> DEFINE i == u - k * ClusterSize
                   base == MovedTo(k) * ClusterSize
        <3>2. i \in 0 .. ClusterSize - 1 /\ k * ClusterSize + i = u
            BY <1>1, <1>2 DEF Extent
        <3>3. MovedTo(k) \in Nat /\ base \in Nat
            BY <3>1, MovedToType DEF RunsInv
        <3>4. At(e) = base + i
            BY <1>10, <2>1, <3>1
        <3>5. CopyKept(k)
            BY <3>1 DEF ImageInv, CopiesKept, U
        <3> HIDE DEF i
        <3>6. base + i \in Extent(base, ClusterSize)
            BY <3>2, <3>3 DEF Extent
        <3>7. base + i \in DOMAIN disk
            BY <3>5, <3>6 DEF CopyKept, Holds, Carries
        <3>8. disk[base + i] = Ntfs(k * ClusterSize + i)
            BY <3>2, <3>5 DEF CopyKept, Holds, Carries
        <3> QED BY <3>2, <3>4, <3>7, <3>8
    <2>2. CASE r.inode # dummy_inode
        <3>1. k \notin Moved
            BY <1>8, <2>2
        <3>2. At(e) = u
            <4>1. e.addr = r.offset * ClusterSize /\ e.pos = r.offset * ClusterSize
                BY <1>10, <2>2
            <4>2. r.offset * ClusterSize \in Int /\ u \in Int
                BY <1>1, <1>8, EntryFields
            <4> QED BY <4>1, <4>2
        <3>3. disk[u] = Ntfs(u)
            BY <1>2, <3>1, InPlaceKept DEF U
        <3> QED BY <1>1, <3>2, <3>3
    <2> QED BY <2>1, <2>2
<1>15. Cardinality(Places) = 1 /\ \A v \in Places : v \in DOMAIN disk /\ disk[v] = Ntfs(u)
    <2> DEFINE v == At(e)
    <2> HIDE DEF v, Places
    <2>1. Places = {v} /\ v \in DOMAIN disk /\ disk[v] = Ntfs(u)
        BY <1>13, <1>14 DEF v
    <2> QED BY <2>1, FS_Singleton
<1> QED BY <1>15 DEF Reads, Found

\* What is granted for data lies on the device, to the last unit: in a chunk made when
\* the segments were scanned, or in a whole segment.
LEMMA ConvDataInside ==
    ASSUME WholeStripes, WholeWords, ClusterBitmaps, BootInUse, EndClear
    PROVE  ConvSpec => [](GeometryInv /\ DataInside)
<1>1. ConvInit => GeometryInv /\ DeviceInv
    BY InitGeometry, InitDevice DEF ConvInit
<1>2. ConvInv /\ GeometryInv /\ [ConvNext]_<<vars, cvars>> => GeometryInv'
    BY ConvGeometry DEF ConvInv
<1>3. ConvInv /\ DeviceInv /\ [ConvNext]_<<vars, cvars>> => DeviceInv'
    BY DeviceStep
<1>4. GeometryInv /\ DeviceInv => DataInside
    BY DataGrantedOnDevice DEF GeometryInv, DeviceInv, IInv
<1> QED BY <1>1, <1>2, <1>3, <1>4, ConversionInvariant, PTL DEF ConvSpec

\* Once it is made ntfs.img holds every unit of every cluster that NTFS used, in one
\* place: where NTFS had it, or in the copy that was made of it before anything could be
\* written there.  It goes on holding it while the trees and superblocks are written and
\* the first cluster is cleared, and wherever the program is killed.
THEOREM ImageHoldsNtfs ==
    ASSUME WholeStripes, WholeWords, ClusterBitmaps, WholeClusters, BootInUse, WholeBitmap,
           WholeSectors, BitsInBitmap, SuperblockReserved, EndClear
    PROVE  ConvSpec => []ImageFaithful
<1>1. ConvInit => AlignedInv /\ RunsInv /\ ImageInv
    BY InitAligned, InitRuns, InitImage DEF ConvInit
<1>2. ConvInv /\ AlignedInv /\ [ConvNext]_<<vars, cvars>> => AlignedInv'
    BY ConvAligned
<1>3. ConvInv => NoOverwrite
    BY LocatedNotGranted DEF ConvInv
<1>4. AlignedInv => DataAligned
    BY DEF AlignedInv
<1>5. /\ ConvInv /\ RunsInv /\ DataAligned' /\ NoOverwrite' /\ [ConvNext]_<<vars, cvars>>
      => RunsInv'
    BY RunsStep
<1>6. /\ ConvInv /\ GeometryInv /\ RunsInv /\ ImageInv /\ DataInside' /\ DataAligned'
      /\ NoOverwrite' /\ [ConvNext]_<<vars, cvars>>
      => ImageInv'
    BY ImageStep
<1>7. ConvInv /\ RunsInv /\ ImageInv => ImageFaithful
    BY ImageHolds
<1> QED BY <1>1, <1>2, <1>3, <1>4, <1>5, <1>6, <1>7, ConversionInvariant, ConvDataInside, PTL
        DEF ConvSpec

-----------------------------------------------------------------------------
(* The pieces of a mapping. *)

Mappings == [vcn : Nat, lcn : Nat, length : Nat \ {0}]

\* From k on n clusters of the mapping make a piece: it is broken at both ends, and
\* nowhere between.
MakesPiece(m, k, n) ==
    /\ m.lcn # 0 /\ m.lcn <= k /\ k + n <= m.lcn + m.length
    /\ k = m.lcn \/ Broken(k)
    /\ k + n = m.lcn + m.length \/ Broken(k + n)
    /\ \A d \in Nat : k < d /\ d < k + n => ~ Broken(d)

PieceAt(m, k, n) == [vcn |-> m.vcn + (k - m.lcn), lcn |-> Redirected(k), length |-> n]

\* The pieces of a mapping are just those.
LEMMA PiecesMade ==
    ASSUME NEW m \in Mappings, NEW p
    PROVE  p \in Pieces(m) <=> \E k \in Nat, n \in Nat \ {0} :
                                  MakesPiece(m, k, n) /\ p = PieceAt(m, k, n)
<1> DEFINE end == m.lcn + m.length
           Starts == {k \in m.lcn .. end - 1 : k = m.lcn \/ Broken(k)}
           Following(k) == CHOOSE e \in Starts \cup {end} :
                              e > k /\ \A d \in Starts : d > k => e <= d
           Length(k) == Following(k) - k
<1>1. m.vcn \in Nat /\ m.lcn \in Nat /\ m.length \in Nat \ {0} /\ end \in Nat /\ m.lcn < end
    BY DEF Mappings
<1>2. \A k : k \in Starts <=> k \in Nat /\ m.lcn <= k /\ k < end /\ (k = m.lcn \/ Broken(k))
    BY <1>1
<1>3. m.lcn = 0 => Pieces(m) = {}
    BY DEF Pieces
<1>4. m.lcn # 0 => Pieces(m) = {PieceAt(m, k, Length(k)) : k \in Starts}
    BY DEF Pieces, PieceAt
<1>5. end = m.lcn + m.length
    OBVIOUS
<1> HIDE DEF Starts, end
<1>6. ASSUME NEW k \in Starts
      PROVE  /\ Following(k) \in Starts \cup {end} /\ Following(k) > k
             /\ \A d \in Starts : d > k => Following(k) <= d
    <2> DEFINE Later == {e \in Starts \cup {end} : e > k}
    <2>1. Later \in SUBSET Nat /\ end \in Later
        BY <1>1, <1>2
    <2>2. PICK e \in Later : \A d \in Later : e <= d
        BY <2>1, LeastNatural
    <2>3. e \in Starts \cup {end} /\ e > k /\ \A d \in Starts : d > k => e <= d
        BY <2>2
    <2> QED BY <2>3, Zenon
<1> HIDE DEF Following
<1>7. ASSUME NEW k \in Starts, m.lcn # 0
      PROVE  Length(k) \in Nat \ {0} /\ MakesPiece(m, k, Length(k))
    <2>1. Following(k) \in Nat /\ Following(k) <= end /\ k \in Nat /\ Following(k) > k
        BY <1>1, <1>2, <1>6
    <2>2. Length(k) \in Nat \ {0} /\ k + Length(k) = Following(k)
        BY <2>1
    <2>3. Following(k) = end \/ Broken(Following(k))
        BY <1>2, <1>6
    <2>4. ASSUME NEW d \in Nat, k < d, d < Following(k) PROVE ~ Broken(d)
        <3>1. d \notin Starts
            BY <1>6, <2>1, <2>4
        <3> QED BY <1>1, <1>2, <2>1, <2>4, <3>1
    <2> HIDE DEF Length
    <2> QED BY <1>2, <1>5, <1>7, <2>1, <2>2, <2>3, <2>4 DEF MakesPiece
<1>8. ASSUME NEW k \in Nat, NEW n \in Nat \ {0}, MakesPiece(m, k, n)
      PROVE  k \in Starts /\ n = Length(k)
    <2>1. k \in Starts
        BY <1>1, <1>2, <1>5, <1>8 DEF MakesPiece
    <2>2. Following(k) \in Nat /\ Following(k) <= end /\ Following(k) > k
        BY <1>1, <1>2, <1>6, <2>1
    <2>3. ~ (Following(k) < k + n)
        <3>1. ASSUME Following(k) < k + n PROVE FALSE
            <4>1. Following(k) # end
                BY <1>1, <1>5, <1>8, <2>2, <3>1 DEF MakesPiece
            <4>2. Broken(Following(k)) \/ Following(k) = m.lcn
                BY <1>2, <1>6, <2>1, <4>1
            <4> QED BY <1>1, <1>8, <2>2, <3>1, <4>2 DEF MakesPiece
        <3> QED BY <3>1
    <2>4. ~ (k + n < Following(k))
        <3>1. ASSUME k + n < Following(k) PROVE FALSE
            <4>1. Broken(k + n) /\ k + n < end /\ m.lcn <= k + n /\ k + n \in Nat
                BY <1>1, <1>5, <1>8, <2>2, <3>1 DEF MakesPiece
            <4>2. k + n \in Starts
                BY <1>2, <4>1
            <4>3. Following(k) <= k + n
                BY <1>6, <2>1, <4>2
            <4> QED BY <2>2, <3>1, <4>3
        <3> QED BY <3>1
    <2> QED BY <2>1, <2>2, <2>3, <2>4
<1> HIDE DEF Length
<1>9. CASE m.lcn = 0
    BY <1>3, <1>9 DEF MakesPiece
<1>10. CASE m.lcn # 0
    <2>1. ASSUME p \in Pieces(m)
          PROVE  \E k \in Nat, n \in Nat \ {0} : MakesPiece(m, k, n) /\ p = PieceAt(m, k, n)
        <3>1. PICK k \in Starts : p = PieceAt(m, k, Length(k))
            BY <1>4, <1>10, <2>1
        <3>2. k \in Nat /\ Length(k) \in Nat \ {0} /\ MakesPiece(m, k, Length(k))
            BY <1>2, <1>7, <1>10
        <3> QED BY <3>1, <3>2
    <2>2. ASSUME NEW k \in Nat, NEW n \in Nat \ {0}, MakesPiece(m, k, n), p = PieceAt(m, k, n)
          PROVE  p \in Pieces(m)
        <3>1. k \in Starts /\ n = Length(k)
            BY <1>8, <2>2
        <3> QED BY <1>4, <1>10, <2>2, <3>1
    <2> QED BY <2>1, <2>2
<1> QED BY <1>9, <1>10

\* Every cluster of a mapping that is not a hole is in one of them.
LEMMA PieceOfCluster ==
    ASSUME NEW m \in Mappings, m.lcn # 0, NEW c \in Nat, m.lcn <= c, c < m.lcn + m.length
    PROVE  \E k \in Nat, n \in Nat \ {0} : MakesPiece(m, k, n) /\ k <= c /\ c < k + n
<1> DEFINE end == m.lcn + m.length
           Starts == {k \in m.lcn .. end - 1 : k = m.lcn \/ Broken(k)}
           Back == {b \in Nat : c - b \in Starts}
           Next0 == {e \in Nat : e > c /\ (e = end \/ e \in Starts)}
<1>1. m.vcn \in Nat /\ m.lcn \in Nat /\ m.length \in Nat \ {0} /\ end \in Nat /\ m.lcn < end
    BY DEF Mappings
<1>2. \A k : k \in Starts <=> k \in Nat /\ m.lcn <= k /\ k < end /\ (k = m.lcn \/ Broken(k))
    BY <1>1
<1>3. end = m.lcn + m.length
    OBVIOUS
<1> HIDE DEF Starts, end
<1>4. PICK b \in Back : \A d \in Back : b <= d
    <2>1. c - m.lcn \in Back
        <3>1. c - (c - m.lcn) = m.lcn /\ c - m.lcn \in Nat
            BY <1>1
        <3>2. m.lcn \in Starts
            BY <1>1, <1>2
        <3> QED BY <3>1, <3>2
    <2> QED BY <2>1, LeastNatural
<1>5. PICK e \in Next0 : \A d \in Next0 : e <= d
    <2>1. end \in Next0
        BY <1>1, <1>3
    <2> QED BY <2>1, LeastNatural
<1> DEFINE k == c - b
           n == e - k
<1>6. k \in Starts /\ k \in Nat /\ k <= c /\ m.lcn <= k /\ (k = m.lcn \/ Broken(k))
    <2>1. c - b \in Starts /\ b \in Nat
        OBVIOUS
    <2> QED BY <1>2, <2>1
<1>7. e \in Nat /\ e > c /\ (e = end \/ e \in Starts) /\ e <= end
    BY <1>1, <1>2
<1>8. n \in Nat \ {0} /\ k + n = e
    BY <1>6, <1>7
<1>9. ASSUME NEW d \in Nat, k < d, d < e PROVE ~ Broken(d)
    <2>1. CASE d <= c
        <3>1. c - (c - d) = d /\ c - d \in Nat /\ ~ (b <= c - d)
            BY <1>6, <1>9, <2>1
        <3>2. d \notin Starts
            BY <1>4, <3>1
        <3> QED BY <1>1, <1>2, <1>6, <1>7, <1>9, <2>1, <3>2
    <2>2. CASE d > c
        <3>1. d \notin Starts
            BY <1>5, <1>7, <1>9, <2>2
        <3> QED BY <1>1, <1>2, <1>6, <1>7, <1>9, <2>2, <3>1
    <2> QED BY <2>1, <2>2
<1> HIDE DEF k, n, Back, Next0
<1>10. MakesPiece(m, k, n)
    BY <1>2, <1>3, <1>6, <1>7, <1>8, <1>9 DEF MakesPiece
<1> QED BY <1>6, <1>7, <1>8, <1>10

\* The clusters of a piece go where the piece goes, one after the other.
LEMMA PieceSends ==
    ASSUME NEW m \in Mappings, NEW k \in Nat, NEW n \in Nat \ {0}, MakesPiece(m, k, n),
           NEW c \in Nat, k <= c, c < k + n
    PROVE  Redirected(c) = Redirected(k) + (c - k) \/ (c = k)
<1>1. CASE c = k
    BY <1>1
<1>2. CASE c # k
    <2>1. ~ Broken(c) /\ ~ Broken(k + 1)
        BY <1>2 DEF MakesPiece
    <2>2. Redirected(c) = c
        BY <2>1 DEF Broken
    <2>3. (k + 1) - 1 = k
        OBVIOUS
    <2>4. Redirected(k) = k
        BY <2>1, <2>3 DEF Broken
    <2> QED BY <2>2, <2>4
<1> QED BY <1>1, <1>2

\* Two pieces of a mapping share no cluster.
LEMMA PiecesApart ==
    ASSUME NEW m \in Mappings, NEW j \in Nat, NEW i \in Nat \ {0}, MakesPiece(m, j, i),
           NEW k \in Nat, NEW n \in Nat \ {0}, MakesPiece(m, k, n), j < k
    PROVE  j + i <= k
<1>1. Broken(k)
    BY DEF MakesPiece, Mappings
<1> QED BY <1>1 DEF MakesPiece

-----------------------------------------------------------------------------
(* What is at the place a file is sent to. *)

\* A cluster that was not moved is where it was.  The place of one that was moved, which
\* may have been moved again, is a copy of it.
SentKept ==
    /\ \A k \in Nat : k \notin Moved => Redirected(k) = k
    /\ \A k \in ClustersInUse \cap Moved : Holds(Redirected(k), k)

LEMMA InitSent ==
    ASSUME ConvInit
    PROVE  SentKept
<1>1. relocs = <<>> /\ relocs \in Seq(Relocations) /\ Len(relocs) = 0 /\ DOMAIN relocs = {}
    BY DEF ConvInit
<1>2. Moved = {}
    BY <1>1 DEF Moved
<1>3. ASSUME NEW k \in Nat PROVE Redirected(k) = k
    <2>1. 0 \in 0 .. Len(relocs)
        BY <1>1
    <2>2. SentOn(k)[0] = k
        BY <1>1, <2>1, SentOnStep
    <2> QED BY <1>1, <2>2 DEF Redirected
<1> QED BY <1>2, <1>3 DEF SentKept

LEMMA SentStays ==
    ASSUME WholeBitmap, WholeSectors, SentKept, relocs \in Seq(Relocations), DataKept,
           UNCHANGED relocs
    PROVE  SentKept'
<1>1. /\ Moved' = Moved /\ ClustersInUse' = ClustersInUse
      /\ \A k : Redirected(k)' = Redirected(k)
    BY SameMoves, SameUse DEF DataKept
<1>2. ASSUME NEW k \in ClustersInUse, k \in Moved PROVE Holds(Redirected(k), k)'
    <2>1. k \in Nat
        BY InUseClusters
    <2>2. PICK m \in Nat : m = Redirected(k)
        BY <2>1, RedirectedType
    <2>3. Holds(m, k)
        BY <1>2, <2>2 DEF SentKept
    <2>4. Holds(m, k)'
        BY <2>3, HeldStays
    <2>5. Redirected(k)' = m
        BY <1>1, <2>2
    <2> QED BY <2>4, <2>5 DEF Holds, Carries
<1> QED BY <1>1, <1>2 DEF SentKept

\* One more relocation: what was sent to the cluster goes to the copy.
LEMMA RelocateSends ==
    ASSUME WholeWords, ClusterBitmaps, WholeClusters, WholeBitmap, WholeSectors,
           ConvInv, RunsInv, SentKept, DataKept, DataInside', DataAligned', NoOverwrite',
           step = "protect", todo # <<>>,
           AllocatorCall("data", DataChunkSize, ClusterSize, FALSE), phase' # "failed",
           Relocate(Head(todo))
    PROVE  SentKept'
<1>0. PICK k : k = Head(todo)
    OBVIOUS
<1>1. /\ relocs \in Seq(Relocations) /\ todo \in Seq(Nat) /\ IInv /\ GrantedAbove
    BY DEF RunsInv, ConvInv
<1>2. k \in Nat
    BY <1>1, <1>0, HeadAndTail
<1>3. PICK addr : addr = Returned
    OBVIOUS
<1>4. PICK n : n = addr \div ClusterSize
    OBVIOUS
<1> DEFINE r == [old_start |-> k, new_start |-> n]
<1>5. relocs' = Append(relocs, r) /\ disk' = Written(addr, ReadCluster(k))
    BY <1>0, <1>3, <1>4 DEF Relocate, ReadCluster
<1>6. n \in Nat /\ KnownClusters \cap Extent(n, 1) = {}
    <2>1. ClusterSize \div ClusterSize = 1
        OBVIOUS
    <2>2. LET j == Returned \div ClusterSize
              c == ClusterSize \div ClusterSize
          IN  /\ j \in Nat /\ c \in Nat \ {0}
              /\ KnownClusters \cap Extent(j, c) = {}
              /\ KnownClusters \cup Extent(j, c) \subseteq KnownClusters'
        BY <1>1, DataReturned
    <2> QED BY <1>3, <1>4, <2>1, <2>2
<1>7. /\ addr \in Nat
      /\ allocated' = allocated \cup {Allocation(addr, ClusterSize, "data", FALSE)}
    BY <1>1, <1>3, CallReturns
<1>8. r \in Relocations /\ r.old_start = k /\ r.new_start = n
    BY <1>2, <1>6 DEF Relocations
<1> HIDE DEF r
<1>9. Moved' = Moved \cup {k} /\ ClustersInUse' = ClustersInUse
    BY <1>1, <1>5, <1>8, MovedOn, SameUse DEF DataKept
<1>10. \A j \in Nat : Redirected(j)' = IF k = Redirected(j) THEN n ELSE Redirected(j)
    BY <1>1, <1>5, <1>8, RedirectedOn
<1>11. ASSUME NEW j \in Nat, j \notin Moved' PROVE Redirected(j)' = j
    <2>1. j \notin Moved /\ j # k
        BY <1>9, <1>11
    <2>2. Redirected(j) = j
        BY <2>1 DEF SentKept
    <2> QED BY <1>10, <2>1, <2>2
<1>12. ASSUME NEW j \in ClustersInUse, j \in Moved' PROVE Holds(Redirected(j), j)'
    <2>1. j \in Nat
        BY InUseClusters
    <2>2. PICK m \in Nat : m = Redirected(j)
        BY <1>1, <2>1, RedirectedType
    <2>3. CASE m # k
        <3>1. j \in Moved
            BY <1>9, <1>12, <2>1, <2>2, <2>3 DEF SentKept
        <3>2. Holds(m, j)
            BY <2>2, <3>1 DEF SentKept
        <3>3. Holds(m, j)'
            BY <3>2, HeldStays
        <3>4. Redirected(j)' = m
            BY <1>10, <2>1, <2>2, <2>3
        <3> QED BY <3>3, <3>4 DEF Holds, Carries
    <2>4. CASE m = k
        <3>1. Carries(k, j)
            <4>1. CASE j \in Moved
                BY <2>2, <2>4, <4>1 DEF SentKept, Holds
            <4>2. CASE j \notin Moved
                <5>1. j = k
                    BY <2>1, <2>2, <2>4, <4>2 DEF SentKept
                <5> QED BY <5>1, InUseHolds
            <4> QED BY <4>1, <4>2
        <3>2. FALSE \in BOOLEAN
            OBVIOUS
        <3>3. Holds(n, j)'
            BY <1>2, <1>4, <1>5, <1>7, <3>1, <3>2, CopyMade
        <3>4. Redirected(j)' = n
            BY <1>10, <2>1, <2>2, <2>4
        <3> QED BY <3>3, <3>4 DEF Holds, Carries
    <2> QED BY <2>3, <2>4
<1> QED BY <1>9, <1>11, <1>12 DEF SentKept

LEMMA OthersKeepRelocs ==
    ASSUME [ConvNext]_<<vars, cvars>>, ~ ProtectCluster
    PROVE  UNCHANGED relocs
BY DEF ConvNext, cvars, memory, Scan, ParseDataBitmap, CalcUsedSpace, SplitRuns, MapFile,
       WriteData, Stays, CreateImage, CreateDataExtentItems, JoinRun, CalcChecksums,
       LayOutBlock, LayoutDone, WriteTrees, TreesWritten, WriteSuperblock, ClearFirstCluster

LEMMA SentStep ==
    ASSUME WholeWords, ClusterBitmaps, WholeClusters, WholeBitmap, WholeSectors,
           SuperblockReserved, ConvInv, GeometryInv, RunsInv, SentKept,
           DataInside', DataAligned', NoOverwrite', [ConvNext]_<<vars, cvars>>
    PROVE  SentKept'
<1>1. DataKept /\ relocs \in Seq(Relocations)
    BY DataKeptNext DEF RunsInv
<1>2. CASE UNCHANGED relocs
    BY <1>1, <1>2, SentStays
<1>3. CASE ProtectCluster
    <2>1. step = "protect" /\ phase = "protect" /\ todo # <<>>
        BY <1>3 DEF ProtectCluster, ConvInv, StepPhase
    <2>2. CASE Stays
        BY <1>1, <2>2, SentStays DEF Stays, memory
    <2>3. CASE ~ Stays
        <3>1. AllocateData(ClusterSize, FALSE) /\ phase' # "failed" /\ Relocate(Head(todo))
            BY <1>3, <2>3 DEF ProtectCluster
        <3>2. AllocatorCall("data", DataChunkSize, ClusterSize, FALSE)
            BY <2>1, <3>1, DataCalls
        <3> QED BY <1>1, <2>1, <3>1, <3>2, RelocateSends
    <2> QED BY <2>2, <2>3
<1> QED BY <1>2, <1>3, OthersKeepRelocs

\* Where a file is sent to finds what was in the cluster, from when files are converted on.
LEMMA SentCarries ==
    ASSUME WholeWords, ClusterBitmaps, WholeClusters, WholeBitmap, WholeSectors,
           SuperblockReserved, ConvInv, ImageInv, SentKept, step = "files" \/ ImageDone,
           NEW k \in ClustersInUse
    PROVE  Carries(Redirected(k), k)
<1>1. k \in Nat /\ k * ClusterSize \in in_use /\ k * ClusterSize < DeviceSize
    BY InUseClusters
<1>2. CASE k \in Moved
    BY <1>2 DEF SentKept, Holds
<1>3. CASE k \notin Moved
    <2>1. Redirected(k) = k
        BY <1>1, <1>3 DEF SentKept
    <2>2. CASE step = "files"
        BY <2>1, <2>2, InUseHolds
    <2>3. CASE ImageDone
        <3>1. (k * ClusterSize) + ClusterSize <= DeviceSize
            BY <1>1, ClusterOnDevice
        <3>2. DOMAIN disk = 0 .. DeviceSize - 1
            BY DEF WholeSectors, ConvInv, OnlyGrantedWritten
        <3>3. Extent(k * ClusterSize, ClusterSize) \subseteq DOMAIN disk
            BY <1>1, <3>1, <3>2 DEF Extent
        <3>4. ASSUME NEW i \in 0 .. ClusterSize - 1
              PROVE  disk[(k * ClusterSize) + i] = Ntfs((k * ClusterSize) + i)
            <4>1. PICK u : u = (k * ClusterSize) + i
                OBVIOUS
            <4>2. u \in Extent(k * ClusterSize, ClusterSize)
                BY <1>1, <4>1 DEF Extent
            <4>3. u \in NtfsUnits
                BY <1>1, <3>3, <4>2 DEF NtfsUnits, ClusterSpace
            <4>4. disk[u] = Ntfs(u)
                BY <1>1, <1>3, <2>3, <4>2, <4>3, InPlaceKept
            <4> QED BY <4>1, <4>4
        <3> QED BY <2>1, <3>3, <3>4 DEF Carries
    <2> QED BY <2>2, <2>3
<1> QED BY <1>2, <1>3

-----------------------------------------------------------------------------
(* Positions in a file, by clusters and by units. *)

LEMMA ScaledOrder ==
    ASSUME NEW a \in Nat, NEW b \in Nat, a <= b
    PROVE  a * ClusterSize <= b * ClusterSize
<1>1. (b - a) * ClusterSize >= 0
    OBVIOUS
<1> QED BY <1>1

LEMMA ScaledInside ==
    ASSUME NEW a \in Nat, NEW b \in Nat, NEW c \in Nat, NEW d \in Nat, a <= c, c + d <= a + b
    PROVE  Extent(c * ClusterSize, d * ClusterSize) \subseteq Extent(a * ClusterSize, b * ClusterSize)
<1>1. a * ClusterSize <= c * ClusterSize
    BY ScaledOrder
<1>2. (c + d) * ClusterSize <= (a + b) * ClusterSize
    <2>1. c + d \in Nat /\ a + b \in Nat
        OBVIOUS
    <2> QED BY <2>1, ScaledOrder
<1>3. /\ (c + d) * ClusterSize = c * ClusterSize + d * ClusterSize
      /\ (a + b) * ClusterSize = a * ClusterSize + b * ClusterSize
      /\ a * ClusterSize \in Nat /\ b * ClusterSize \in Nat
      /\ c * ClusterSize \in Nat /\ d * ClusterSize \in Nat
    OBVIOUS
<1> QED BY <1>1, <1>2, <1>3 DEF Extent

LEMMA ScaledApart ==
    ASSUME NEW a \in Nat, NEW b \in Nat, NEW c \in Nat, NEW d \in Nat, a + b <= c
    PROVE  Extent(a * ClusterSize, b * ClusterSize) \cap Extent(c * ClusterSize, d * ClusterSize) = {}
<1>1. (a + b) * ClusterSize <= c * ClusterSize
    <2>1. a + b \in Nat
        OBVIOUS
    <2> QED BY <2>1, ScaledOrder
<1>2. /\ (a + b) * ClusterSize = a * ClusterSize + b * ClusterSize
      /\ a * ClusterSize \in Nat /\ b * ClusterSize \in Nat
      /\ c * ClusterSize \in Nat /\ d * ClusterSize \in Nat
    OBVIOUS
<1> QED BY <1>1, <1>2 DEF Extent

-----------------------------------------------------------------------------
(* The extents of a file. *)

Laid(f) == {m \in f.mappings : m.lcn # 0}

\* The units of a file that are on the device, or will be.
Positions(f) ==
    (UNION {Extent(m.vcn * ClusterSize, m.length * ClusterSize) : m \in Laid(f)})
      \cup Extent(f.pos, f.length)

\* Nothing in a file has two places on the volume.
FilesApart ==
    /\ \A i \in DOMAIN files : \A m, o \in Laid(files[i]) :
          m # o => Extent(m.vcn, m.length) \cap Extent(o.vcn, o.length) = {}
    /\ \A i, j \in DOMAIN files :
          i # j /\ files[i].inode = files[j].inode => Positions(files[i]) \cap Positions(files[j]) = {}

PieceExtent(f, p) ==
    Extents(f.inode, p.vcn * ClusterSize, p.lcn * ClusterSize, p.length * ClusterSize)

\* The extent of rewritten data, which is what was to be written.
DataWritten(e, f) ==
    /\ e = Extents(f.inode, f.pos, e.addr, f.length)
    /\ e.addr \in Nat /\ Extent(e.addr, f.length) \subseteq DataGranted \cap DOMAIN disk
    /\ \A i \in 0 .. f.length - 1 : disk[e.addr + i] = Data(f.inode, f.pos + i)

IsExtentOf(e, f) ==
    \/ \E m \in f.mappings : \E p \in Pieces(m) : e = PieceExtent(f, p)
    \/ f.mappings = {} /\ DataWritten(e, f)

\* The extent of the piece of m that is made by n clusters from k on.
PieceShape(e, f, m, k, n) ==
    /\ e.owner = f.inode /\ e.addr = Redirected(k) * ClusterSize
    /\ \E v \in Nat : /\ v = m.vcn + (k - m.lcn) /\ m.vcn <= v /\ v + n <= m.vcn + m.length
                      /\ e.pos = v * ClusterSize /\ e.length = n * ClusterSize

LEMMA PieceExtentShape ==
    ASSUME NEW f, NEW m \in Mappings, NEW k \in Nat, NEW n \in Nat \ {0}, MakesPiece(m, k, n)
    PROVE  PieceShape(PieceExtent(f, PieceAt(m, k, n)), f, m, k, n)
<1> DEFINE v == m.vcn + (k - m.lcn)
           e == PieceExtent(f, PieceAt(m, k, n))
<1>1. m.vcn \in Nat /\ m.lcn \in Nat /\ m.length \in Nat /\ m.lcn <= k /\ k + n <= m.lcn + m.length
    BY DEF Mappings, MakesPiece
<1>2. v \in Nat /\ m.vcn <= v /\ v + n <= m.vcn + m.length
    BY <1>1
<1>3. /\ e.owner = f.inode /\ e.addr = Redirected(k) * ClusterSize
      /\ e.pos = v * ClusterSize /\ e.length = n * ClusterSize
    BY DEF PieceExtent, PieceAt, Extents
<1> HIDE DEF v, e
<1>4. v = m.vcn + (k - m.lcn)
    BY DEF v
<1>5. PieceShape(e, f, m, k, n)
    BY <1>2, <1>3, <1>4 DEF PieceShape
<1> QED BY <1>5 DEF e

LEMMA ExtentPositions ==
    ASSUME NEW f \in Files, NEW e, IsExtentOf(e, f), relocs \in Seq(Relocations)
    PROVE  e.owner = f.inode /\ Extent(e.pos, e.length) \subseteq Positions(f)
<1>1. CASE f.mappings = {} /\ DataWritten(e, f)
    BY <1>1 DEF DataWritten, Extents, Positions
<1>2. CASE \E m \in f.mappings : \E p \in Pieces(m) : e = PieceExtent(f, p)
    <2>1. PICK m \in f.mappings : \E p \in Pieces(m) : e = PieceExtent(f, p)
        BY <1>2
    <2>2. PICK p \in Pieces(m) : e = PieceExtent(f, p)
        BY <2>1
    <2>3. m \in Mappings
        BY DEF Files, Mappings
    <2>4. PICK k \in Nat, n \in Nat \ {0} : MakesPiece(m, k, n) /\ p = PieceAt(m, k, n)
        BY <2>3, PiecesMade
    <2>5. PieceShape(e, f, m, k, n)
        BY <2>2, <2>3, <2>4, PieceExtentShape
    <2>6. PICK v \in Nat : /\ e.owner = f.inode /\ e.pos = v * ClusterSize /\ e.length = n * ClusterSize
                           /\ m.vcn <= v /\ v + n <= m.vcn + m.length
        BY <2>5, Zenon DEF PieceShape
    <2>7. m \in Laid(f)
        BY <2>4 DEF Laid, MakesPiece
    <2>8. Extent(e.pos, e.length) \subseteq Extent(m.vcn * ClusterSize, m.length * ClusterSize)
        BY <2>3, <2>6, ScaledInside DEF Mappings
    <2> QED BY <2>6, <2>7, <2>8 DEF Positions
<1> QED BY <1>1, <1>2 DEF IsExtentOf

LEMMA ShiftedOrder ==
    ASSUME NEW a \in Nat, NEW b \in Nat, NEW k \in Nat, NEW n \in Nat, NEW j \in Nat, k + n <= j
    PROVE  (a + (k - b)) + n <= a + (j - b)
OBVIOUS

\* Two pieces of a file share no unit of it.
LEMMA PieceExtentsApart ==
    ASSUME NEW f \in Files, relocs \in Seq(Relocations),
           \A m, o \in Laid(f) : m # o => Extent(m.vcn, m.length) \cap Extent(o.vcn, o.length) = {},
           NEW m \in f.mappings, NEW p \in Pieces(m), NEW o \in f.mappings, NEW q \in Pieces(o),
           PieceExtent(f, p) # PieceExtent(f, q)
    PROVE  LET d == PieceExtent(f, p)
               e == PieceExtent(f, q)
           IN  Extent(d.pos, d.length) \cap Extent(e.pos, e.length) = {}
<1> DEFINE d == PieceExtent(f, p)
           e == PieceExtent(f, q)
<1>1. m \in Mappings /\ o \in Mappings
    BY DEF Files, Mappings
<1>2. PICK k \in Nat, n \in Nat \ {0} : MakesPiece(m, k, n) /\ p = PieceAt(m, k, n)
    BY <1>1, PiecesMade
<1>3. PICK j \in Nat, i \in Nat \ {0} : MakesPiece(o, j, i) /\ q = PieceAt(o, j, i)
    BY <1>1, PiecesMade
<1>9. PieceShape(d, f, m, k, n) /\ PieceShape(e, f, o, j, i)
    BY <1>1, <1>2, <1>3, PieceExtentShape
<1> HIDE DEF d, e
<1>4. PICK v \in Nat : /\ v = m.vcn + (k - m.lcn) /\ m.vcn <= v /\ v + n <= m.vcn + m.length
                       /\ d.pos = v * ClusterSize /\ d.length = n * ClusterSize
    BY <1>9, Zenon DEF PieceShape
<1>5. PICK w \in Nat : /\ w = o.vcn + (j - o.lcn) /\ o.vcn <= w /\ w + i <= o.vcn + o.length
                       /\ e.pos = w * ClusterSize /\ e.length = i * ClusterSize
    BY <1>9, Zenon DEF PieceShape
<1>10. /\ v = m.vcn + (k - m.lcn) /\ m.vcn <= v /\ v + n <= m.vcn + m.length
       /\ w = o.vcn + (j - o.lcn) /\ o.vcn <= w /\ w + i <= o.vcn + o.length
       /\ m.vcn \in Nat /\ m.lcn \in Nat /\ m.length \in Nat
       /\ o.vcn \in Nat /\ o.lcn \in Nat /\ o.length \in Nat
    BY <1>1, <1>4, <1>5 DEF Mappings
<1>6. v + n <= w \/ w + i <= v
    <2>1. CASE m = o
        <3>1. k # j
            <4>1. ASSUME k = j PROVE FALSE
                <5>1. n = i
                    BY <1>1, <1>2, <1>3, <2>1, <4>1 DEF MakesPiece, Mappings
                <5>2. p = q
                    BY <1>2, <1>3, <2>1, <4>1, <5>1
                <5> QED BY <5>2
            <4> QED BY <4>1
        <3>2. CASE k < j
            <4>1. k + n <= j
                BY <1>1, <1>2, <1>3, <2>1, <3>2, PiecesApart
            <4>2. v + n <= w
                BY <1>10, <2>1, <4>1, ShiftedOrder
            <4> QED BY <4>2
        <3>3. CASE j < k
            <4>1. j + i <= k
                BY <1>1, <1>2, <1>3, <2>1, <3>3, PiecesApart
            <4>2. w + i <= v
                BY <1>10, <2>1, <4>1, ShiftedOrder
            <4> QED BY <4>2
        <3> QED BY <3>1, <3>2, <3>3
    <2>2. CASE m # o
        <3>1. m \in Laid(f) /\ o \in Laid(f)
            BY <1>2, <1>3 DEF Laid, MakesPiece
        <3>2. Extent(m.vcn, m.length) \cap Extent(o.vcn, o.length) = {}
            BY <2>2, <3>1
        <3>3. PICK a \in Nat, l \in Nat, b \in Nat, h \in Nat :
                 a = m.vcn /\ l = m.length /\ b = o.vcn /\ h = o.length
            BY <1>10
        <3>4. Extent(a, l) \cap Extent(b, h) = {}
            BY <3>2, <3>3
        <3>5. a <= v /\ v + n <= a + l /\ b <= w /\ w + i <= b + h
            BY <1>10, <3>3
        <3>6. CASE v <= w
            <4>1. w < v + n => w \in Extent(a, l) /\ w \in Extent(b, h)
                BY <3>5, <3>6 DEF Extent
            <4> QED BY <3>4, <4>1
        <3>7. CASE w < v
            <4>1. v < w + i => v \in Extent(a, l) /\ v \in Extent(b, h)
                BY <3>5, <3>7 DEF Extent
            <4> QED BY <3>4, <4>1
        <3> QED BY <3>6, <3>7
    <2> QED BY <2>1, <2>2
<1>7. Extent(v * ClusterSize, n * ClusterSize) \cap Extent(w * ClusterSize, i * ClusterSize) = {}
    BY <1>4, <1>5, <1>6, ScaledApart
<1>8. Extent(d.pos, d.length) \cap Extent(e.pos, e.length) = {}
    BY <1>4, <1>5, <1>7
<1> QED BY <1>8 DEF d, e

-----------------------------------------------------------------------------
(* The files, one after the other. *)

\* A file that has mappings has no data to be written, and lies in clusters that are in
\* use.
FilesMarked ==
    \A i \in DOMAIN files :
        /\ files[i].mappings # {} => files[i].length = 0
        /\ \A m \in Laid(files[i]) : \A k \in Extent(m.lcn, m.length) :
              k * ClusterSize \in in_use /\ k * ClusterSize < DeviceSize

FilesSound == FilesMarked /\ FilesApart

Opened == (step = "files" /\ phase # "failed") \/ ImageDone

\* How many files are done with.
Processed ==
    IF step = "files" THEN Len(files) - Len(todo) ELSE IF ImageDone THEN Len(files) ELSE 0

\* What is left to do are the last files.
QueueLeft ==
    step = "files" =>
        /\ Len(todo) <= Len(files)
        /\ \A j \in DOMAIN todo : todo[j] = files[(Len(files) - Len(todo)) + j]

FileMade(f) ==
    /\ \A m \in f.mappings : \A p \in Pieces(m) : PieceExtent(f, p) \in fs_extents
    /\ f.mappings = {} => \E e \in fs_extents : DataWritten(e, f)

ExtentsApart(E) ==
    \A d, e \in E : d # e /\ d.owner = e.owner =>
        Extent(d.pos, d.length) \cap Extent(e.pos, e.length) = {}

\* The first n files have their extents, nothing else has any, and no two of them are of
\* the same unit of a file.
ExtentsMade(n) ==
    /\ \A i \in 1 .. n : FileMade(files[i])
    /\ \A e \in fs_extents : \E i \in 1 .. n : IsExtentOf(e, files[i])
    /\ FilesApart => ExtentsApart(fs_extents)

FilesInv ==
    /\ step \in {"scan", "protect"} => fs_extents = {}
    /\ QueueLeft
    /\ Opened => ExtentsMade(Processed)

LEMMA InitFiles == ConvInit => FilesInv
BY DEF ConvInit, FilesInv, QueueLeft, Opened, ImageDone

LEMMA SamePieces ==
    ASSUME UNCHANGED relocs, NEW m
    PROVE  Pieces(m)' = Pieces(m)
<1>1. \A k : Broken(k)' <=> Broken(k)
    BY SameMoves DEF Broken
<1>2. \A k : Redirected(k)' = Redirected(k)
    BY SameMoves
<1> QED BY <1>1, <1>2 DEF Pieces

LEMMA WrittenStays ==
    ASSUME DataKept, NEW e, NEW f \in Files, DataWritten(e, f)
    PROVE  DataWritten(e, f)'
<1>1. e.addr \in Nat /\ f.length \in Nat
    BY DEF DataWritten, Files
<1>2. Extent(e.addr, f.length) \subseteq DataGranted \cap DOMAIN disk
    BY DEF DataWritten
<1>3. Extent(e.addr, f.length) \subseteq DataGranted' \cap DOMAIN disk'
    BY <1>2 DEF DataKept
<1>4. ASSUME NEW i \in 0 .. f.length - 1
      PROVE  disk'[e.addr + i] = Data(f.inode, f.pos + i)
    <2>1. e.addr + i \in Extent(e.addr, f.length)
        BY <1>1 DEF Extent
    <2>2. disk'[e.addr + i] = disk[e.addr + i]
        BY <1>2, <2>1 DEF DataKept
    <2> QED BY <2>2 DEF DataWritten
<1>5. e = Extents(f.inode, f.pos, e.addr, f.length)
    BY DEF DataWritten
<1> QED BY <1>1, <1>3, <1>4, <1>5 DEF DataWritten, Extents, Data

LEMMA ExtentStays ==
    ASSUME DataKept, UNCHANGED relocs, NEW e, NEW f \in Files, IsExtentOf(e, f)
    PROVE  IsExtentOf(e, f)'
<1>1. CASE f.mappings = {} /\ DataWritten(e, f)
    BY <1>1, WrittenStays DEF IsExtentOf
<1>2. CASE \E m \in f.mappings : \E p \in Pieces(m) : e = PieceExtent(f, p)
    <2>1. PICK m \in f.mappings : \E p \in Pieces(m) : e = PieceExtent(f, p)
        BY <1>2
    <2>2. PICK p \in Pieces(m) : e = PieceExtent(f, p)
        BY <2>1
    <2>3. p \in Pieces(m)'
        BY SamePieces
    <2> QED BY <2>2, <2>3 DEF IsExtentOf, PieceExtent, Extents
<1> QED BY <1>1, <1>2 DEF IsExtentOf

LEMMA MadeStays ==
    ASSUME DataKept, UNCHANGED relocs, fs_extents \subseteq fs_extents', NEW f \in Files, FileMade(f)
    PROVE  FileMade(f)'
<1>1. ASSUME NEW m \in f.mappings, NEW p \in Pieces(m)' PROVE PieceExtent(f, p) \in fs_extents'
    <2>1. p \in Pieces(m)
        BY SamePieces
    <2> QED BY <2>1 DEF FileMade
<1>2. ASSUME f.mappings = {} PROVE (\E e \in fs_extents : DataWritten(e, f))'
    <2>1. PICK e \in fs_extents : DataWritten(e, f)
        BY <1>2 DEF FileMade
    <2>2. DataWritten(e, f)'
        BY <2>1, WrittenStays
    <2> QED BY <2>1, <2>2
<1> QED BY <1>1, <1>2 DEF FileMade, PieceExtent, Extents

LEMMA SameApart ==
    ASSUME UNCHANGED files
    PROVE  FilesApart' <=> FilesApart
BY DEF FilesApart, Laid, Positions

\* The next file is done: its extents are added.
LEMMA FileAdded ==
    ASSUME files \in Seq(ConvertedFiles), relocs \in Seq(Relocations), DataKept,
           UNCHANGED <<files, relocs>>,
           NEW n \in Nat, n + 1 \in DOMAIN files, ExtentsMade(n),
           NEW f \in ConvertedFiles, f = files[n + 1], NEW New, fs_extents' = fs_extents \cup New,
           FileMade(f)', \A e \in New : IsExtentOf(e, f)',
           \A e \in New : e.owner = f.inode /\ Extent(e.pos, e.length) \subseteq Positions(f),
           FilesApart => ExtentsApart(New)
    PROVE  ExtentsMade(n + 1)'
<1>1. /\ DOMAIN files = 1 .. Len(files) /\ n + 1 <= Len(files)
      /\ \A i \in 1 .. n : i \in DOMAIN files /\ files[i] \in Files /\ i # n + 1
      /\ \A i \in 1 .. n + 1 : i \in 1 .. n \/ i = n + 1
    BY DEF ConvertedFiles
<1>2. ASSUME NEW i \in 1 .. n + 1 PROVE FileMade(files[i])'
    <2>1. PICK g : g = files[i]
        OBVIOUS
    <2>2. CASE i = n + 1
        BY <2>2 DEF FileMade
    <2>3. CASE i \in 1 .. n
        <3>1. FileMade(g) /\ g \in Files
            BY <1>1, <2>1, <2>3 DEF ExtentsMade
        <3>2. FileMade(g)'
            BY <3>1, MadeStays
        <3> QED BY <2>1, <3>2 DEF FileMade
    <2> QED BY <1>1, <2>2, <2>3
<1>3. ASSUME NEW e \in fs_extents PROVE \E i \in 1 .. n : IsExtentOf(e, files[i])
    BY DEF ExtentsMade
<1>4. ASSUME NEW e \in fs_extents' PROVE (\E i \in 1 .. n + 1 : IsExtentOf(e, files[i]))'
    <2>1. CASE e \in New
        <3>1. IsExtentOf(e, f)' /\ n + 1 \in 1 .. n + 1 /\ files'[n + 1] = f
            BY <2>1
        <3> QED BY <3>1 DEF IsExtentOf
    <2>2. CASE e \in fs_extents
        <3>1. PICK i \in 1 .. n : IsExtentOf(e, files[i])
            BY <1>3, <2>2
        <3>2. PICK g \in Files : g = files[i]
            BY <1>1
        <3>3. IsExtentOf(e, g)
            BY <3>1, <3>2
        <3>4. IsExtentOf(e, g)'
            BY <3>2, <3>3, ExtentStays
        <3>5. i \in 1 .. n + 1 /\ files'[i] = g
            BY <3>2
        <3> QED BY <3>4, <3>5 DEF IsExtentOf
    <2> QED BY <2>1, <2>2
<1>5. ASSUME FilesApart, NEW d \in fs_extents, NEW e \in New, d.owner = e.owner
      PROVE  Extent(d.pos, d.length) \cap Extent(e.pos, e.length) = {}
    <2>1. PICK i \in 1 .. n : IsExtentOf(d, files[i])
        BY <1>3
    <2>2. d.owner = files[i].inode /\ Extent(d.pos, d.length) \subseteq Positions(files[i])
        BY <1>1, <2>1, ExtentPositions
    <2>3. Positions(files[i]) \cap Positions(f) = {}
        BY <1>1, <1>5, <2>2 DEF FilesApart
    <2> QED BY <2>2, <2>3
<1>6. ASSUME FilesApart PROVE ExtentsApart(fs_extents')
    <2>1. ExtentsApart(New) /\ ExtentsApart(fs_extents)
        BY <1>6 DEF ExtentsMade
    <2>2. ASSUME NEW d \in fs_extents', NEW e \in fs_extents', d # e, d.owner = e.owner
          PROVE  Extent(d.pos, d.length) \cap Extent(e.pos, e.length) = {}
        <3>1. CASE d \in fs_extents /\ e \in fs_extents
            BY <2>1, <2>2, <3>1 DEF ExtentsApart
        <3>2. CASE d \in New /\ e \in New
            BY <2>1, <2>2, <3>2 DEF ExtentsApart
        <3>3. CASE d \in fs_extents /\ e \in New
            BY <1>5, <1>6, <2>2, <3>3
        <3>4. CASE d \in New /\ e \in fs_extents
            <4>1. Extent(e.pos, e.length) \cap Extent(d.pos, d.length) = {}
                BY <1>5, <1>6, <2>2, <3>4
            <4> QED BY <4>1
        <3> QED BY <3>1, <3>2, <3>3, <3>4
    <2> QED BY <2>2 DEF ExtentsApart
<1>7. (FilesApart => ExtentsApart(fs_extents))'
    BY <1>6, SameApart DEF ExtentsApart
<1> QED BY <1>2, <1>4, <1>7 DEF ExtentsMade

\* Where the extents are left alone, and no more files are done with, nothing changes.
LEMMA FilesStay ==
    ASSUME FilesInv, files \in Seq(ConvertedFiles), DataKept,
           UNCHANGED <<files, fs_extents>>, Opened' => UNCHANGED relocs,
           step' \in {"scan", "protect"} => step \in {"scan", "protect"},
           QueueLeft', Opened' => Opened /\ Processed' = Processed /\ Processed \in 0 .. Len(files)
    PROVE  FilesInv'
<1>1. step' \in {"scan", "protect"} => fs_extents' = {}
    BY DEF FilesInv
<1>2. ASSUME Opened' PROVE ExtentsMade(Processed)'
    <2>1. PICK n \in 0 .. Len(files) : n = Processed
        BY <1>2
    <2>2. ExtentsMade(n) /\ Processed' = n /\ UNCHANGED relocs
        BY <1>2, <2>1 DEF FilesInv
    <2>3. \A i \in 1 .. n : files[i] \in Files
        BY DEF ConvertedFiles
    <2>4. ASSUME NEW i \in 1 .. n PROVE FileMade(files[i])'
        <3>1. PICK g \in Files : g = files[i]
            BY <2>3
        <3>2. FileMade(g)
            BY <2>2, <3>1 DEF ExtentsMade
        <3>3. FileMade(g)'
            BY <2>2, <3>2, MadeStays
        <3> QED BY <3>1, <3>3 DEF FileMade
    <2>5. ASSUME NEW e \in fs_extents' PROVE (\E i \in 1 .. n : IsExtentOf(e, files[i]))'
        <3>1. PICK i \in 1 .. n : IsExtentOf(e, files[i])
            BY <2>2 DEF ExtentsMade
        <3>2. PICK g \in Files : g = files[i]
            BY <2>3
        <3>3. IsExtentOf(e, g)'
            BY <2>2, <3>1, <3>2, ExtentStays
        <3> QED BY <3>2, <3>3 DEF IsExtentOf
    <2>6. (FilesApart => ExtentsApart(fs_extents))'
        BY <2>2, SameApart DEF ExtentsMade, ExtentsApart
    <2>7. ExtentsMade(n)'
        BY <2>4, <2>5, <2>6 DEF ExtentsMade
    <2> QED BY <2>2, <2>7 DEF ExtentsMade
<1> QED BY <1>1, <1>2 DEF FilesInv

LEMMA NextFile ==
    ASSUME files \in Seq(ConvertedFiles), todo \in Seq(ConvertedFiles), todo # <<>>, QueueLeft,
           step = "files", step' = "files", todo' = Tail(todo), UNCHANGED files
    PROVE  /\ QueueLeft'
           /\ Processed \in Nat /\ Processed + 1 \in DOMAIN files
           /\ Head(todo) = files[Processed + 1] /\ Processed' = Processed + 1
<1>1. /\ Len(todo) \in Nat \ {0} /\ Len(files) \in Nat /\ DOMAIN files = 1 .. Len(files)
      /\ DOMAIN todo = 1 .. Len(todo) /\ Head(todo) = todo[1]
    OBVIOUS
<1>2. /\ Len(todo') = Len(todo) - 1 /\ DOMAIN todo' = 1 .. Len(todo) - 1
      /\ \A j \in 1 .. Len(todo) - 1 : todo'[j] = todo[j + 1]
    OBVIOUS
<1>3. /\ Len(todo) <= Len(files)
      /\ \A j \in 1 .. Len(todo) : todo[j] = files[(Len(files) - Len(todo)) + j]
    BY <1>1 DEF QueueLeft
<1>4. Processed = Len(files) - Len(todo) /\ Processed' = Len(files) - Len(todo')
    BY DEF Processed
<1>5. Head(todo) = files[Processed + 1]
    BY <1>1, <1>3, <1>4
<1>6. ASSUME NEW j \in DOMAIN todo' PROVE todo'[j] = files'[(Len(files') - Len(todo')) + j]
    <2>1. j + 1 \in 1 .. Len(todo)
        BY <1>1, <1>2
    <2>2. (Len(files) - Len(todo)) + (j + 1) = (Len(files) - Len(todo')) + j
        BY <1>1, <1>2
    <2> QED BY <1>2, <1>3, <2>1, <2>2
<1>7. QueueLeft'
    BY <1>1, <1>2, <1>3, <1>6 DEF QueueLeft
<1> QED BY <1>1, <1>2, <1>3, <1>4, <1>5, <1>7

LEMMA MapFileExtents ==
    ASSUME ConvInv, RunsInv, FilesInv, DataKept, MapFile
    PROVE  FilesInv'
<1>1. /\ step = "files" /\ step' = "files" /\ phase # "failed" /\ phase' = phase /\ todo # <<>>
      /\ todo' = Tail(todo) /\ UNCHANGED <<files, relocs>> /\ filed = FilePieces
      /\ files \in Seq(ConvertedFiles) /\ todo \in Seq(ConvertedFiles)
      /\ relocs \in Seq(Relocations)
    BY DEF MapFile, vars, ConvInv, Queues, RunsInv
<1>2. /\ QueueLeft' /\ Processed \in Nat /\ Processed + 1 \in DOMAIN files
      /\ Head(todo) = files[Processed + 1] /\ Processed' = Processed + 1
    BY <1>1, NextFile DEF FilesInv
<1>3. PICK n \in Nat : n = Processed
    BY <1>2
<1>4. PICK f \in ConvertedFiles : f = Head(todo)
    BY <1>1, HeadAndTail
<1> DEFINE New == UNION {{PieceExtent(f, p) : p \in Pieces(m)} : m \in f.mappings}
<1>5. fs_extents' = fs_extents \cup New
    <2>1. filed = UNION {Pieces(m) : m \in f.mappings}
        BY <1>1, <1>4 DEF FilePieces
    <2>2. fs_extents' = fs_extents \cup {PieceExtent(f, p) : p \in filed}
        BY <1>4 DEF MapFile, PieceExtent
    <2>3. {PieceExtent(f, p) : p \in filed} = New
        BY <2>1
    <2> QED BY <2>2, <2>3
<1>6. ExtentsMade(n)
    BY <1>1, <1>3 DEF FilesInv, Opened
<1>7. f.mappings # {} /\ f \in Files
    BY <1>4 DEF MapFile, ConvertedFiles
<1>8. ASSUME NEW m \in f.mappings, NEW p \in Pieces(m)' PROVE PieceExtent(f, p) \in fs_extents'
    <2>1. p \in Pieces(m)
        BY <1>1, SamePieces
    <2> QED BY <1>5, <2>1
<1>9. FileMade(f)'
    BY <1>7, <1>8 DEF FileMade, PieceExtent, Extents
<1>10. ASSUME NEW e \in New
       PROVE  /\ IsExtentOf(e, f)' /\ e.owner = f.inode
              /\ Extent(e.pos, e.length) \subseteq Positions(f)
    <2>1. IsExtentOf(e, f)
        BY DEF IsExtentOf
    <2> HIDE DEF New
    <2>2. IsExtentOf(e, f)'
        BY <1>1, <1>7, <2>1, ExtentStays
    <2>3. e.owner = f.inode /\ Extent(e.pos, e.length) \subseteq Positions(f)
        BY <1>1, <1>7, <2>1, ExtentPositions
    <2> QED BY <2>2, <2>3
<1>11. ASSUME FilesApart PROVE ExtentsApart(New)
    <2>1. \A m, o \in Laid(f) : m # o => Extent(m.vcn, m.length) \cap Extent(o.vcn, o.length) = {}
        BY <1>2, <1>4, <1>11 DEF FilesApart
    <2>2. ASSUME NEW d \in New, NEW e \in New, d # e
          PROVE  Extent(d.pos, d.length) \cap Extent(e.pos, e.length) = {}
        <3>1. PICK m \in f.mappings : \E p \in Pieces(m) : d = PieceExtent(f, p)
            OBVIOUS
        <3>2. PICK o \in f.mappings : \E q \in Pieces(o) : e = PieceExtent(f, q)
            OBVIOUS
        <3> HIDE DEF New
        <3>3. PICK p \in Pieces(m) : d = PieceExtent(f, p)
            BY <3>1
        <3>4. PICK q \in Pieces(o) : e = PieceExtent(f, q)
            BY <3>2
        <3>5. PieceExtent(f, p) # PieceExtent(f, q)
            BY <2>2, <3>3, <3>4
        <3>6. LET x == PieceExtent(f, p)
                  y == PieceExtent(f, q)
              IN  Extent(x.pos, x.length) \cap Extent(y.pos, y.length) = {}
            BY <1>1, <1>7, <2>1, <3>5, PieceExtentsApart
        <3> QED BY <3>3, <3>4, <3>6
    <2> HIDE DEF New
    <2> QED BY <2>2 DEF ExtentsApart
<1> HIDE DEF New
<1>12. f = files[n + 1] /\ n + 1 \in DOMAIN files
    BY <1>2, <1>3, <1>4
<1>13. ExtentsMade(n + 1)'
    BY <1>1, <1>5, <1>6, <1>9, <1>10, <1>11, <1>12, FileAdded
<1>14. ExtentsMade(Processed)'
    BY <1>2, <1>3, <1>13 DEF ExtentsMade
<1> QED BY <1>1, <1>2, <1>14 DEF FilesInv

\* Rewritten data is in one new extent, to the last unit.
LEMMA WriteDataExtent ==
    ASSUME WholeSectors, ConvInv, RunsInv, FilesInv, DataKept, DataInside', WriteData
    PROVE  FilesInv'
<1>1. /\ step = "files" /\ step' = "files" /\ phase = "rewrite" /\ todo # <<>>
      /\ todo' = Tail(todo) /\ UNCHANGED files /\ files \in Seq(ConvertedFiles)
      /\ todo \in Seq(ConvertedFiles) /\ relocs \in Seq(Relocations)
      /\ IInv /\ GrantedAbove
    BY DEF WriteData, ConvInv, StepPhase, Queues, RunsInv
<1>2. /\ QueueLeft' /\ Processed \in Nat /\ Processed + 1 \in DOMAIN files
      /\ Head(todo) = files[Processed + 1] /\ Processed' = Processed + 1
    BY <1>1, NextFile DEF FilesInv
<1>3. PICK n \in Nat : n = Processed
    BY <1>2
<1>4. PICK f \in ConvertedFiles : f = Head(todo)
    BY <1>1, HeadAndTail
<1>5. f.mappings = {} /\ f \in Files /\ f.length \in DataLengths /\ f.inode \in Nat /\ f.pos \in Nat
      /\ f.length \in Nat \ {0}
    BY <1>4 DEF WriteData, ConvertedFiles, Files
<1>6. AllocateData(f.length, TRUE)
    BY <1>4 DEF WriteData
<1>7. AllocatorCall("data", DataChunkSize, f.length, TRUE)
    BY <1>1, <1>5, <1>6, DataCalls
<1>8. CASE phase' = "failed"
    <2>1. UNCHANGED <<relocs, fs_extents>>
        BY <1>8 DEF WriteData, Stays, memory
    <2>2. ~ Opened'
        BY <1>1, <1>8 DEF Opened, ImageDone
    <2> QED BY <1>1, <1>2, <2>1, <2>2, FilesStay
<1>9. CASE phase' # "failed"
    <2>1. PICK addr : addr = Returned
        OBVIOUS
    <2> DEFINE content == [i \in 0 .. f.length - 1 |-> Data(f.inode, f.pos + i)]
               e == Extents(f.inode, f.pos, addr, f.length)
               a == Allocation(addr, f.length, "data", TRUE)
    <2>2. /\ UNCHANGED relocs /\ disk' = Written(addr, content)
          /\ fs_extents' = fs_extents \cup {e}
        BY <1>4, <1>9, <2>1 DEF WriteData
    <2>3. addr \in Nat /\ allocated' = allocated \cup {a}
        BY <1>1, <1>7, <1>9, <2>1, CallReturns
    <2>4. a.type = "data" /\ a.addr = addr /\ a.length = f.length
        BY DEF Allocation
    <2>5. e.owner = f.inode /\ e.pos = f.pos /\ e.addr = addr /\ e.length = f.length
        BY DEF Extents
    <2>6. DOMAIN content = 0 .. f.length - 1
          /\ \A i \in 0 .. f.length - 1 : content[i] = Data(f.inode, f.pos + i)
        OBVIOUS
    <2>7. e = Extents(f.inode, f.pos, addr, f.length)
        OBVIOUS
    <2> HIDE DEF content, e, a
    <2>8. Extent(addr, f.length) \subseteq DataGranted'
        BY <2>3, <2>4 DEF DataGranted, DataAllocations
    <2>9. DOMAIN disk = 0 .. DeviceSize - 1 /\ DataGranted' \subseteq 0 .. DeviceSize - 1
        BY DEF WholeSectors, ConvInv, OnlyGrantedWritten, DataInside
    <2>10. /\ DOMAIN disk' = DOMAIN disk
           /\ \A u \in DOMAIN disk :
                 disk'[u] = IF u - addr \in DOMAIN content THEN content[u - addr] ELSE disk[u]
        BY <2>2, WrittenUnits
    <2>11. ASSUME NEW i \in 0 .. f.length - 1 PROVE disk'[addr + i] = Data(f.inode, f.pos + i)
        <3>1. addr + i \in Extent(addr, f.length)
            BY <1>5, <2>3 DEF Extent
        <3>2. addr + i \in DOMAIN disk /\ (addr + i) - addr = i
            BY <2>3, <2>8, <2>9, <3>1
        <3> QED BY <2>6, <2>10, <3>2
    <2>12. DataWritten(e, f)'
        <3>1. e.addr = addr /\ Extent(addr, f.length) \subseteq DataGranted' \cap DOMAIN disk'
            BY <2>5, <2>8, <2>9, <2>10
        <3> QED BY <2>3, <2>5, <2>7, <2>11, <3>1 DEF DataWritten, Extents, Data
    <2>13. IsExtentOf(e, f)' /\ FileMade(f)'
        BY <1>5, <2>2, <2>12 DEF IsExtentOf, FileMade
    <2>14. e.owner = f.inode /\ Extent(e.pos, e.length) \subseteq Positions(f)
        BY <2>5 DEF Positions
    <2>15. ExtentsApart({e})
        BY DEF ExtentsApart
    <2>16. ExtentsMade(n)
        BY <1>1, <1>3 DEF FilesInv, Opened
    <2>17. f = files[n + 1] /\ n + 1 \in DOMAIN files
        BY <1>2, <1>3, <1>4
    <2> DEFINE New == {e}
    <2>18. /\ \A x \in New : IsExtentOf(x, f)'
           /\ \A x \in New : x.owner = f.inode /\ Extent(x.pos, x.length) \subseteq Positions(f)
           /\ fs_extents' = fs_extents \cup New /\ ExtentsApart(New)
        BY <2>2, <2>13, <2>14, <2>15
    <2> HIDE DEF New
    <2>19. ExtentsMade(n + 1)'
        BY <1>1, <2>2, <2>13, <2>16, <2>17, <2>18, FileAdded
    <2>20. ExtentsMade(Processed)'
        BY <1>2, <1>3, <2>19 DEF ExtentsMade
    <2> QED BY <1>1, <1>2, <2>20 DEF FilesInv
<1> QED BY <1>8, <1>9

\* All other steps leave the extents of the files alone.
LEMMA OtherFiles ==
    ASSUME ConvInv, FilesInv, DataKept, [ConvNext]_<<vars, cvars>>, ~ MapFile, ~ WriteData
    PROVE  FilesInv'
<1>1. /\ files \in Seq(ConvertedFiles) /\ StepPhase /\ UNCHANGED <<files, fs_extents>>
      /\ step = "files" => todo \in Seq(ConvertedFiles) /\ Len(todo) <= Len(files)
    BY DEF ConvInv, Queues, FilesInv, QueueLeft, ConvNext, vars, cvars, memory, Stays, Scan,
           ParseDataBitmap, ProtectCluster, CalcUsedSpace, SplitRuns, CreateImage,
           CreateDataExtentItems, JoinRun, CalcChecksums, LayOutBlock, LayoutDone, WriteTrees,
           TreesWritten, WriteSuperblock, ClearFirstCluster
<1>2. Processed \in 0 .. Len(files)
    BY <1>1 DEF Processed
<1>3. ASSUME step' \in {"scan", "protect"}, step \in {"scan", "protect"} PROVE FilesInv'
    <2>1. QueueLeft' /\ ~ Opened'
        BY <1>3 DEF QueueLeft, Opened, ImageDone
    <2> QED BY <1>1, <1>3, <2>1, FilesStay
<1>4. ASSUME step \notin {"scan", "protect"}, step' \notin {"scan", "protect"},
             UNCHANGED relocs, QueueLeft', Opened' => Opened /\ Processed' = Processed
      PROVE  FilesInv'
    BY <1>1, <1>2, <1>4, FilesStay
<1>5. CASE CalcUsedSpace
    <2>1. /\ step = "protect" /\ step' = "files" /\ todo' = files /\ UNCHANGED files
        BY <1>5 DEF CalcUsedSpace
    <2>2. fs_extents' = {}
        BY <1>1, <2>1 DEF FilesInv
    <2>3. Len(files) \in Nat /\ Len(files) - Len(files) = 0 /\ DOMAIN files = 1 .. Len(files)
        BY <1>1
    <2>4. Processed' = 0
        BY <2>1, <2>3 DEF Processed
    <2>5. QueueLeft'
        <3>1. \A j \in DOMAIN files : 0 + j = j
            BY <2>3
        <3> QED BY <2>1, <2>3, <3>1 DEF QueueLeft
    <2>6. ExtentsMade(0)'
        BY <2>2 DEF ExtentsMade, ExtentsApart
    <2> QED BY <2>1, <2>4, <2>5, <2>6 DEF FilesInv, ExtentsMade
<1>6. CASE Scan \/ ParseDataBitmap \/ ProtectCluster
    <2>1. step' \in {"scan", "protect"} /\ step \in {"scan", "protect"}
        BY <1>6 DEF Scan, cvars, ParseDataBitmap, ProtectCluster
    <2> QED BY <1>3, <2>1
<1>7. CASE SplitRuns
    <2>1. /\ step = "files" /\ step' = "files" /\ phase # "failed"
          /\ UNCHANGED <<todo, files, relocs>>
        BY <1>7 DEF SplitRuns
    <2>2. QueueLeft' /\ (Opened' => Opened /\ Processed' = Processed)
        BY <2>1 DEF FilesInv, QueueLeft, Opened, Processed
    <2> QED BY <1>4, <2>1, <2>2
<1>8. CASE CreateImage
    <2>1. /\ step = "files" /\ step' = "extents" /\ phase # "failed" /\ todo = <<>>
          /\ UNCHANGED <<files, relocs>>
        BY <1>8 DEF CreateImage
    <2>2. Len(todo) = 0 /\ Len(files) - 0 = Len(files)
        BY <1>1, <2>1
    <2>3. Opened /\ Processed' = Processed
        BY <2>1, <2>2 DEF Opened, Processed, ImageDone
    <2> QED BY <1>4, <2>1, <2>3 DEF QueueLeft
<1>9. ASSUME ImageDone, ImageDone', step # "files", step' # "files", UNCHANGED relocs
      PROVE  FilesInv'
    <2>1. QueueLeft' /\ Opened /\ Processed' = Processed
        BY <1>1, <1>9 DEF QueueLeft, Opened, Processed
    <2>2. step \notin {"scan", "protect"} /\ step' \notin {"scan", "protect"}
        BY <1>9 DEF ImageDone
    <2> QED BY <1>4, <1>9, <2>1, <2>2
<1>10. CASE CreateDataExtentItems \/ JoinRun \/ CalcChecksums
    BY <1>9, <1>10 DEF CreateDataExtentItems, JoinRun, CalcChecksums, ImageDone
<1>11. CASE LayOutBlock \/ LayoutDone \/ WriteTrees \/ TreesWritten \/ WriteSuperblock
            \/ ClearFirstCluster
    BY <1>9, <1>11 DEF LayOutBlock, LayoutDone, WriteTrees, TreesWritten, WriteSuperblock,
                       ClearFirstCluster, cvars, memory, ImageDone
<1>12. CASE UNCHANGED <<vars, cvars>>
    <2>1. UNCHANGED <<step, phase, todo, files, relocs>>
        BY <1>12 DEF vars, cvars, memory
    <2>2. QueueLeft' /\ (Opened' => Opened) /\ Processed' = Processed
        BY <2>1 DEF FilesInv, QueueLeft, Opened, Processed, ImageDone
    <2> QED BY <1>1, <1>2, <2>1, <2>2, FilesStay
<1> QED BY <1>5, <1>6, <1>7, <1>8, <1>10, <1>11, <1>12 DEF ConvNext

LEMMA FilesStep ==
    ASSUME WholeClusters, WholeSectors, SuperblockReserved, ConvInv, GeometryInv, RunsInv,
           FilesInv, DataInside', [ConvNext]_<<vars, cvars>>
    PROVE  FilesInv'
<1>1. DataKept
    BY DataKeptNext
<1> QED BY <1>1, MapFileExtents, WriteDataExtent, OtherFiles

-----------------------------------------------------------------------------
(* A file that is done with reads as it did. *)

LEMMA OnePlace ==
    ASSUME NEW E, ExtentsApart(E), NEW e \in E, NEW pos, pos \in Extent(e.pos, e.length),
           NEW place, place = e.addr + (pos - e.pos), NEW content,
           place \in DOMAIN disk, disk[place] = content
    PROVE  Reads(E, e.owner, pos, content)
<1> DEFINE At(x) == x.addr + (pos - x.pos)
           Found == {x \in E : x.owner = e.owner /\ pos \in Extent(x.pos, x.length)}
           Places == {At(x) : x \in Found}
<1>1. e \in Found
    OBVIOUS
<1>2. ASSUME NEW x \in Found PROVE x = e
    <2>1. x \in E /\ x.owner = e.owner /\ pos \in Extent(x.pos, x.length)
        OBVIOUS
    <2> QED BY <2>1 DEF ExtentsApart
<1>3. At(e) = place
    OBVIOUS
<1> HIDE DEF Found, At
<1>4. Places = {place}
    BY <1>1, <1>2, <1>3
<1> HIDE DEF Places
<1>5. Cardinality(Places) = 1 /\ \A v \in Places : v \in DOMAIN disk /\ disk[v] = content
    BY <1>4, FS_Singleton
<1> QED BY <1>5 DEF Reads, Places, Found, At

\* Unit q of cluster c of the mapping, which is in the piece of n clusters from k on, is
\* in the extent of the piece, and in the cluster that is as far on from r, where the
\* piece is, as c is from k.
UnitPlaced(m, k, n, c, r, q) ==
    LET start == (m.vcn + (k - m.lcn)) * ClusterSize
        pos == m.vcn * ClusterSize + ((c - m.lcn) * ClusterSize + q)
    IN  /\ pos \in Extent(start, n * ClusterSize)
        /\ r * ClusterSize + (pos - start) = (r + (c - k)) * ClusterSize + q

LEMMA PieceUnits ==
    ASSUME NEW m \in Mappings, NEW k \in Nat, NEW n \in Nat \ {0}, MakesPiece(m, k, n),
           NEW c \in Nat, k <= c, c < k + n, NEW r \in Nat, NEW q \in 0 .. ClusterSize - 1
    PROVE  UnitPlaced(m, k, n, c, r, q)
<1>1. PICK vcn \in Nat, lcn \in Nat : vcn = m.vcn /\ lcn = m.lcn
    BY DEF Mappings
<1> DEFINE start == (vcn + (k - lcn)) * ClusterSize
           pos == vcn * ClusterSize + ((c - lcn) * ClusterSize + q)
<1>2. /\ start = (vcn * ClusterSize + k * ClusterSize) - lcn * ClusterSize
      /\ pos = (vcn * ClusterSize + c * ClusterSize) + (q - lcn * ClusterSize)
      /\ (r + (c - k)) * ClusterSize = (r * ClusterSize + c * ClusterSize) - k * ClusterSize
    OBVIOUS
<1>3. /\ vcn * ClusterSize \in Int /\ lcn * ClusterSize \in Int /\ k * ClusterSize \in Int
      /\ c * ClusterSize \in Int /\ r * ClusterSize \in Int /\ n * ClusterSize \in Int
    OBVIOUS
<1>4. k * ClusterSize <= c * ClusterSize
    BY ScaledOrder
<1>5. c * ClusterSize + ClusterSize <= k * ClusterSize + n * ClusterSize
    <2>1. (c + 1) * ClusterSize <= (k + n) * ClusterSize
        <3>1. c + 1 \in Nat /\ k + n \in Nat /\ c + 1 <= k + n
            OBVIOUS
        <3> QED BY <3>1, ScaledOrder
    <2>2. /\ (c + 1) * ClusterSize = c * ClusterSize + ClusterSize
          /\ (k + n) * ClusterSize = k * ClusterSize + n * ClusterSize
        OBVIOUS
    <2> QED BY <2>1, <2>2
<1>6. q \in Int /\ 0 <= q /\ q < ClusterSize
    OBVIOUS
<1>7. /\ pos \in Extent(start, n * ClusterSize)
      /\ r * ClusterSize + (pos - start) = (r + (c - k)) * ClusterSize + q
    <2> HIDE DEF start, pos
    <2> QED BY <1>2, <1>3, <1>4, <1>5, <1>6 DEF Extent
<1> QED BY <1>1, <1>7 DEF UnitPlaced

LEMMA MappingReads ==
    ASSUME WholeWords, ClusterBitmaps, WholeClusters, WholeBitmap, WholeSectors, BitsInBitmap,
           SuperblockReserved, ConvInv, RunsInv, ImageInv, SentKept, step = "files" \/ ImageDone,
           FilesMarked, NEW i \in DOMAIN files, FileMade(files[i]), ExtentsApart(fs_extents),
           NEW m \in files[i].mappings, m.lcn # 0, NEW u \in 0 .. m.length * ClusterSize - 1
    PROVE  Reads(fs_extents, files[i].inode, m.vcn * ClusterSize + u, Ntfs(m.lcn * ClusterSize + u))
<1> DEFINE d == u \div ClusterSize
           q == u % ClusterSize
           c == m.lcn + d
<1>1. PICK f \in Files : f = files[i]
    BY DEF ConvInv, Queues, ConvertedFiles
<1>2. m \in Mappings /\ m.vcn \in Nat /\ m.lcn \in Nat /\ m.length \in Nat \ {0}
    BY <1>1 DEF Files, Mappings
<1>3. /\ u \in Nat /\ u = ClusterSize * d + q /\ d \in Nat /\ q \in 0 .. ClusterSize - 1
    <2>1. u \in Nat /\ ClusterSize \in Nat \ {0}
        BY <1>2
    <2>2. u = ClusterSize * d + q /\ d \in Int /\ q \in 0 .. ClusterSize - 1
        BY <2>1, Division
    <2>3. d >= 0
        BY <2>1
    <2> QED BY <2>1, <2>2, <2>3
<1> HIDE DEF d, q
<1>4. d < m.length
    <2>1. ASSUME m.length <= d PROVE FALSE
        <3>1. m.length * ClusterSize <= d * ClusterSize
            BY <1>2, <1>3, <2>1, ScaledOrder
        <3>2. m.length * ClusterSize \in Int /\ d * ClusterSize \in Int
            BY <1>2, <1>3
        <3> QED BY <1>3, <3>1, <3>2
    <2> QED BY <1>2, <1>3, <2>1
<1>5. c \in Nat /\ m.lcn <= c /\ c < m.lcn + m.length /\ c - m.lcn = d
    BY <1>2, <1>3, <1>4
<1> HIDE DEF c
<1>6. c \in ClustersInUse
    <2>1. c \in Extent(m.lcn, m.length)
        BY <1>2, <1>5 DEF Extent
    <2>2. c * ClusterSize \in in_use /\ c * ClusterSize < DeviceSize
        BY <1>1, <2>1 DEF FilesMarked, Laid
    <2>3. PICK k \in ClustersInUse : k \in Nat /\ c * ClusterSize = k * ClusterSize
        BY <2>2, InUseCluster DEF ConvInv, IInv
    <2>4. c * ClusterSize \in Extent(c * ClusterSize, ClusterSize)
        BY <1>5 DEF Extent
    <2>5. c = k
        BY <1>5, <2>3, <2>4, OneCluster
    <2> QED BY <2>5
<1>7. PICK k \in Nat, n \in Nat \ {0} : MakesPiece(m, k, n) /\ k <= c /\ c < k + n
    BY <1>2, <1>5, PieceOfCluster
<1> DEFINE e == PieceExtent(f, PieceAt(m, k, n))
<1>8. e \in fs_extents
    <2>1. PieceAt(m, k, n) \in Pieces(m)
        BY <1>2, <1>7, PiecesMade
    <2> QED BY <1>1, <2>1 DEF FileMade
<1>9. PieceShape(e, f, m, k, n)
    BY <1>2, <1>7, PieceExtentShape
<1> HIDE DEF e
<1>10. PICK r \in Nat : r = Redirected(k)
    BY RedirectedType DEF RunsInv
<1>11. /\ e.owner = f.inode /\ e.addr = r * ClusterSize
       /\ e.pos = (m.vcn + (k - m.lcn)) * ClusterSize /\ e.length = n * ClusterSize
    BY <1>9, <1>10 DEF PieceShape
<1>12. Redirected(c) = r + (c - k)
    BY <1>5, <1>7, <1>10, PieceSends, <1>2
<1> DEFINE pos == m.vcn * ClusterSize + ((c - m.lcn) * ClusterSize + q)
           place == (r + (c - k)) * ClusterSize + q
<1>13. pos = m.vcn * ClusterSize + u
    BY <1>2, <1>3, <1>5
<1>14. m.lcn <= k
    BY <1>7 DEF MakesPiece
<1>15. pos \in Extent(e.pos, e.length) /\ e.addr + (pos - e.pos) = place
    <2>1. pos = m.vcn * ClusterSize + ((c - m.lcn) * ClusterSize + q)
        OBVIOUS
    <2>2. place = (r + (c - k)) * ClusterSize + q
        OBVIOUS
    <2> HIDE DEF pos, place
    <2>3. UnitPlaced(m, k, n, c, r, q)
        BY <1>2, <1>3, <1>5, <1>7, PieceUnits
    <2>4. PICK start : start = (m.vcn + (k - m.lcn)) * ClusterSize
        OBVIOUS
    <2>5. pos \in Extent(start, n * ClusterSize) /\ r * ClusterSize + (pos - start) = place
        BY <2>1, <2>2, <2>3, <2>4 DEF UnitPlaced
    <2> QED BY <1>11, <2>4, <2>5
<1>16. Carries(Redirected(c), c)
    BY <1>6, SentCarries
<1>17. place \in DOMAIN disk /\ disk[place] = Ntfs(c * ClusterSize + q)
    <2> DEFINE base == (r + (c - k)) * ClusterSize
    <2>1. base \in Int
        BY <1>5, <1>7
    <2> HIDE DEF base
    <2>2. base + q \in Extent(base, ClusterSize)
        BY <1>3, <2>1 DEF Extent
    <2>3. Carries(r + (c - k), c)
        BY <1>12, <1>16
    <2> QED BY <1>3, <2>2, <2>3 DEF Carries, base
<1>18. c * ClusterSize + q = m.lcn * ClusterSize + u
    <2>1. c = m.lcn + d
        BY DEF c
    <2>2. c * ClusterSize = m.lcn * ClusterSize + d * ClusterSize
        BY <1>2, <1>3, <2>1
    <2> QED BY <1>2, <1>3, <2>2
<1> HIDE DEF pos, place
<1>19. place = e.addr + (pos - e.pos)
    BY <1>15
<1>20. Reads(fs_extents, e.owner, pos, Ntfs(c * ClusterSize + q))
    BY <1>8, <1>15, <1>17, <1>19, OnePlace
<1> QED BY <1>1, <1>11, <1>13, <1>18, <1>20

LEMMA DataReads ==
    ASSUME ConvInv, FilesMarked, NEW i \in DOMAIN files, FileMade(files[i]), ExtentsApart(fs_extents),
           NEW pos \in Extent(files[i].pos, files[i].length)
    PROVE  Reads(fs_extents, files[i].inode, pos, Data(files[i].inode, pos))
<1>1. PICK f \in Files : f = files[i]
    BY DEF ConvInv, Queues, ConvertedFiles
<1>2. f.pos \in Nat /\ f.length \in Nat /\ pos \in Extent(f.pos, f.length)
    BY <1>1 DEF Files
<1>3. f.mappings = {}
    <2>1. f.length # 0
        BY <1>2 DEF Extent
    <2> QED BY <1>1, <2>1 DEF FilesMarked
<1>4. PICK e \in fs_extents : DataWritten(e, f)
    BY <1>1, <1>3 DEF FileMade
<1>5. e.owner = f.inode /\ e.pos = f.pos /\ e.length = f.length /\ e.addr \in Nat
    BY <1>4 DEF DataWritten, Extents
<1> DEFINE j == pos - f.pos
<1>6. j \in 0 .. f.length - 1 /\ f.pos + j = pos /\ e.addr + (pos - e.pos) = e.addr + j
    BY <1>2, <1>5 DEF Extent
<1> HIDE DEF j
<1>7. e.addr + j \in Extent(e.addr, f.length)
    BY <1>2, <1>5, <1>6 DEF Extent
<1>8. e.addr + j \in DOMAIN disk /\ disk[e.addr + j] = Data(f.inode, pos)
    BY <1>4, <1>6, <1>7 DEF DataWritten
<1>9. Reads(fs_extents, e.owner, pos, Data(f.inode, pos))
    BY <1>2, <1>5, <1>6, <1>8, OnePlace
<1> QED BY <1>1, <1>5, <1>9

LEMMA FilesHold ==
    ASSUME WholeWords, ClusterBitmaps, WholeClusters, WholeBitmap, WholeSectors, BitsInBitmap,
           SuperblockReserved, ConvInv, RunsInv, ImageInv, SentKept, FilesInv, FilesSound
    PROVE  FilesFaithful
<1> SUFFICES ASSUME phase # "failed", ImageDone \/ step = "files", NEW i \in DOMAIN files,
                    i <= Len(files) - (IF step = "files" THEN Len(todo) ELSE 0)
             PROVE  FileFaithful(files[i])
    BY DEF FilesFaithful
<1>1. Opened /\ FilesMarked /\ FilesApart
    BY DEF Opened, FilesSound
<1>2. i \in 1 .. Processed
    <2>1. files \in Seq(ConvertedFiles) /\ (step = "files" => todo \in Seq(ConvertedFiles))
        BY DEF ConvInv, Queues
    <2>2. ImageDone => step # "files"
        BY DEF ImageDone
    <2> QED BY <2>1, <2>2 DEF Processed
<1>3. FileMade(files[i]) /\ ExtentsApart(fs_extents)
    BY <1>1, <1>2 DEF FilesInv, ExtentsMade
<1>4. ASSUME NEW m \in files[i].mappings, m.lcn # 0, NEW u \in 0 .. m.length * ClusterSize - 1
      PROVE  Reads(fs_extents, files[i].inode, m.vcn * ClusterSize + u,
                   Ntfs(m.lcn * ClusterSize + u))
    BY <1>1, <1>3, <1>4, MappingReads
<1>5. ASSUME NEW pos \in Extent(files[i].pos, files[i].length)
      PROVE  Reads(fs_extents, files[i].inode, pos, Data(files[i].inode, pos))
    BY <1>1, <1>3, <1>5, DataReads
<1> QED BY <1>4, <1>5 DEF FileFaithful

\* From when it is converted on a file reads as it did, to the last unit, through the
\* ends of segments and through relocations of what was relocated before, and rewritten
\* data reads as it was written; whatever is converted or written after it.  The files
\* are taken to lie in clusters that NTFS marks in use, and no position of a file to be
\* in two places.
THEOREM FilesReadBack ==
    ASSUME WholeStripes, WholeWords, ClusterBitmaps, WholeClusters, BootInUse, WholeBitmap,
           WholeSectors, BitsInBitmap, SuperblockReserved, EndClear
    PROVE  ConvSpec => [](FilesSound => FilesFaithful)
<1>1. ConvInit => AlignedInv /\ RunsInv /\ ImageInv /\ SentKept /\ FilesInv
    BY InitAligned, InitRuns, InitImage, InitSent, InitFiles DEF ConvInit
<1>2. ConvInv /\ AlignedInv /\ [ConvNext]_<<vars, cvars>> => AlignedInv'
    BY ConvAligned
<1>3. ConvInv => NoOverwrite
    BY LocatedNotGranted DEF ConvInv
<1>4. AlignedInv => DataAligned
    BY DEF AlignedInv
<1>5. /\ ConvInv /\ RunsInv /\ DataAligned' /\ NoOverwrite' /\ [ConvNext]_<<vars, cvars>>
      => RunsInv'
    BY RunsStep
<1>6. /\ ConvInv /\ GeometryInv /\ RunsInv /\ ImageInv /\ DataInside' /\ DataAligned'
      /\ NoOverwrite' /\ [ConvNext]_<<vars, cvars>>
      => ImageInv'
    BY ImageStep
<1>7. /\ ConvInv /\ GeometryInv /\ RunsInv /\ SentKept /\ DataInside' /\ DataAligned'
      /\ NoOverwrite' /\ [ConvNext]_<<vars, cvars>>
      => SentKept'
    BY SentStep
<1>8. /\ ConvInv /\ GeometryInv /\ RunsInv /\ FilesInv /\ DataInside' /\ [ConvNext]_<<vars, cvars>>
      => FilesInv'
    BY FilesStep
<1>9. ConvInv /\ RunsInv /\ ImageInv /\ SentKept /\ FilesInv => (FilesSound => FilesFaithful)
    BY FilesHold
<1> QED BY <1>1, <1>2, <1>3, <1>4, <1>5, <1>6, <1>7, <1>8, <1>9, ConversionInvariant,
           ConvDataInside, PTL DEF ConvSpec

=============================================================================
