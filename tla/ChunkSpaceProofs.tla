-------------------------- MODULE ChunkSpaceProofs --------------------------
(***************************************************************************)
(* For every volume and every geometry: the allocators never hand out a    *)
(* unit twice, nor a cluster in use that the bitmap scan puts in the right *)
(* place.  Then where the chunks lie, and what lies in them: chunks never  *)
(* overlap, and, on a device of whole stripes, every allocation is inside  *)
(* a chunk of its type, clear of the superblocks and of the reserved area, *)
(* and counted there.  On a volume whose bitmap is read in whole words     *)
(* nothing is lost either, and no allocation touches any cluster in use.   *)
(* Last, where free space starts: data chunks start where segments do,     *)
(* which the run lists rely on to find the chunk of an address, and data   *)
(* starts on a cluster, which the numbers of relocated clusters rely on.   *)
(***************************************************************************)
EXTENDS ChunkSpace, SpaceTheorems

USE ChunkSpaceAssumption, BitmapAssumption

-----------------------------------------------------------------------------
(* The bitmap scan. *)

\* Byte i of a word is never stepped over by the byte loop, nor is any before it,
\* so pos is right when it is reached.
LEMMA WordPositions ==
    ASSUME NEW B, NEW n \in Nat, NEW i \in 0 .. WordPart(n) - 1
    PROVE  /\ ~ Skipped(B, n, i)
           /\ PosAt(B, n, i) = ByteBits * i
<1>1. WordPart(n) \in Int
    BY DEF WordPart
<1>2. {j \in 0 .. i - 1 : Skipped(B, n, j)} = {}
    BY <1>1 DEF Skipped
<1>3. Cardinality({j \in 0 .. i - 1 : Skipped(B, n, j)}) = 0
    BY <1>2, FS_EmptySet
<1>4. PosAt(B, n, i) = ByteBits * i
    BY <1>1, <1>3 DEF PosAt
<1> QED BY <1>1, <1>4 DEF Skipped

\* A set bit that is read as part of a word is reported where it is.
LEMMA WordsExact ==
    ASSUME NEW B, NEW n \in Nat, NEW k \in WordClusters(n), k \in B
    PROVE  k \in ScannedUsed(B, n)
<1>1. PICK i \in 0 .. WordPart(n) - 1, b \in 0 .. ByteBits - 1 : k = ByteBits * i + b
    BY DEF WordClusters
<1>2. WordPart(n) \in Int /\ WordPart(n) <= n
    BY DEF WordPart
<1>3. i \in 0 .. n - 1
    BY <1>2
<1>4. b \in ByteOf(B, i)
    BY <1>1 DEF ByteOf
<1>5. k \in UsedInByte(B, n, i)
    BY <1>1, <1>4, WordPositions DEF UsedInByte
<1> QED BY <1>3, <1>5 DEF ScannedUsed

\* No cluster is reported beyond the last bit examined.
LEMMA ScanBounded ==
    ASSUME NEW B, NEW n \in Nat, NEW k \in ScannedUsed(B, n)
    PROVE  k \in Int /\ k < ByteBits * n
<1>1. PICK i \in 0 .. n - 1 : k \in UsedInByte(B, n, i)
    BY DEF ScannedUsed
<1> DEFINE C == Cardinality({j \in 0 .. i - 1 : Skipped(B, n, j)})
<1>2. C \in Nat
    <2>1. IsFiniteSet(0 .. i - 1)
        BY FS_Interval
    <2> QED BY <2>1, FS_Subset, FS_CardinalityType
<1>3. (ByteBits - 1) * C \in Nat
    <2> HIDE DEF C
    <2> QED BY <1>2
<1>4. PosAt(B, n, i) \in Int /\ PosAt(B, n, i) <= ByteBits * i
    BY <1>3 DEF PosAt
<1>5. PICK b \in 0 .. ByteBits - 1 : k = PosAt(B, n, i) \/ k = PosAt(B, n, i) + b
    BY <1>1 DEF UsedInByte, ByteOf
<1>6. ByteBits * i + ByteBits <= ByteBits * n
    <2>1. i + 1 <= n
        OBVIOUS
    <2>2. ByteBits * (i + 1) <= ByteBits * n
        BY <2>1
    <2> QED BY <2>2
<1>7. ByteBits * i \in Int /\ ByteBits * n \in Int
    OBVIOUS
<1> QED BY <1>4, <1>5, <1>6, <1>7

-----------------------------------------------------------------------------
(* The segments. *)

\* Segments start at natural addresses, and there are as many addresses below one
\* as its number at least: data_chunk_size is not 0.
LEMMA BaseType ==
    ASSUME NEW s \in Nat
    PROVE  /\ Base(s) \in Nat
           /\ Base(s + 1) = Base(s) + DataChunkSize
           /\ DataChunkSize > 0
           /\ s <= Base(s)
BY DEF Base

\* A later segment starts after an earlier one ends: offset grows by
\* data_chunk_size each time round the loop of create_data_chunks.
LEMMA BaseMonotone ==
    ASSUME NEW s \in Nat, NEW t \in Nat, s < t
    PROVE  Base(s) + DataChunkSize <= Base(t)
<1>1. s + 1 <= t
    OBVIOUS
<1>2. (s + 1) * DataChunkSize <= t * DataChunkSize
    BY <1>1
<1> QED BY <1>2 DEF Base

\* The length of a chunk is that of its segment rounded down to a whole stripe.
LEMMA SegmentFacts ==
    ASSUME NEW s \in Nat, Base(s) < DeviceSize
    PROVE  /\ SegLength(s) \in 1 .. DataChunkSize
           /\ Base(s) + SegLength(s) <= DeviceSize
           /\ ChunkLength(s) \in 1 .. SegLength(s)
           /\ SegLength(s) - ChunkLength(s) < StripeLen
           /\ SegLength(s) = DataChunkSize => ChunkLength(s) = SegLength(s)
           /\ SegLength(s) < DataChunkSize => Base(s) + SegLength(s) = DeviceSize
           /\ s \in 0 .. DeviceSize
<1>1. Base(s) \in Nat /\ DataChunkSize > 0 /\ s \in 0 .. DeviceSize
    BY BaseType
<1>2. /\ SegLength(s) \in 1 .. DataChunkSize
      /\ Base(s) + SegLength(s) <= DeviceSize
      /\ SegLength(s) < DataChunkSize => Base(s) + SegLength(s) = DeviceSize
    BY <1>1 DEF SegLength, Lesser
<1>3. SegLength(s) >= StripeLen
    BY <1>1, LastSegmentAssumption
<1>4. SegLength(s) % StripeLen \in 0 .. StripeLen - 1
    BY <1>2
<1>5. SegLength(s) = DataChunkSize => SegLength(s) % StripeLen = 0
    OBVIOUS
<1> QED BY <1>1, <1>2, <1>3, <1>4, <1>5 DEF ChunkLength

\* The first chunk is long enough to give up the reserved area.
LEMMA ChunkStart ==
    ASSUME NEW s \in Nat, Base(s) < DeviceSize
    PROVE  /\ Shift(s) \in Nat
           /\ Shift(s) <= ChunkLength(s)
<1>1. CASE s = 0
    <2>1. Base(s) = 0 /\ Shift(s) = Reserved
        BY <1>1 DEF Base, Shift
    <2>2. SegLength(s) \in Nat /\ Reserved <= SegLength(s)
        BY <2>1, SegmentFacts DEF SegLength, Lesser
    <2>3. Reserved <= SegLength(s) - (SegLength(s) % StripeLen)
        BY <2>2
    <2> QED BY <2>1, <2>3 DEF ChunkLength
<1>2. CASE s # 0
    <2>1. Base(0) + DataChunkSize <= Base(s)
        BY <1>2, BaseMonotone
    <2>2. Base(0) = 0
        BY DEF Base
    <2>3. Shift(s) = 0
        BY <2>1, <2>2, BaseType DEF Shift
    <2> QED BY <2>3, SegmentFacts
<1> QED BY <1>1, <1>2

\* The bits examined stand for clusters of the segment.
LEMMA ExaminedFits ==
    ASSUME NEW s \in Nat, Base(s) < DeviceSize, NEW k \in Nat,
           k < ByteBits * Examined(s)
    PROVE  /\ Examined(s) \in Nat
           /\ ClusterAddr(s, k) \in Nat
           /\ Base(s) <= ClusterAddr(s, k)
           /\ ClusterAddr(s, k) + ClusterSize <= Base(s) + SegLength(s)
<1> DEFINE clusters == SegLength(s) \div ClusterSize
<1>1. SegLength(s) \in Nat /\ Base(s) \in Nat
    BY SegmentFacts, BaseType
<1>2. clusters \in Nat /\ clusters * ClusterSize <= SegLength(s)
    BY <1>1
<1>3. Examined(s) \in Nat /\ ByteBits * Examined(s) <= clusters
    BY <1>2 DEF Examined
<1>4. (k + 1) * ClusterSize <= clusters * ClusterSize
    <2> HIDE DEF clusters
    <2>1. k + 1 <= clusters
        BY <1>2, <1>3
    <2> QED BY <2>1, <1>2
<1>5. k * ClusterSize \in Nat /\ (k + 1) * ClusterSize = k * ClusterSize + ClusterSize
    OBVIOUS
<1> QED BY <1>1, <1>2, <1>3, <1>4, <1>5 DEF ClusterAddr

\* Every cluster the bitmap says is in use and that a whole word stands for is in
\* one of the runs create_data_chunks leaves out of the free list.
LEMMA LocatedIsUsed ==
    ASSUME NEW s \in Nat, Base(s) < DeviceSize, NEW c \in LocatedIn(s)
    PROVE  /\ \E k \in UsedClusters(s) : c = ClusterAddr(s, k)
           /\ c \in Nat
           /\ Base(s) <= c
           /\ c + ClusterSize <= Base(s) + SegLength(s)
<1>1. PICK k \in WordClusters(Examined(s)) : c = ClusterAddr(s, k) /\ c \in in_use
    BY DEF LocatedIn
<1>2. Examined(s) \in Nat
    BY SegmentFacts DEF Examined
<1>3. k \in 0 .. ByteBits * Examined(s) - 1
    <2>1. PICK i \in 0 .. WordPart(Examined(s)) - 1, b \in 0 .. ByteBits - 1 :
              k = ByteBits * i + b
        BY <1>1 DEF WordClusters
    <2>2. WordPart(Examined(s)) \in Int /\ WordPart(Examined(s)) <= Examined(s)
        BY <1>2 DEF WordPart
    <2>3. i \in Nat /\ i + 1 <= Examined(s)
        BY <1>2, <2>2
    <2>4. ByteBits * (i + 1) <= ByteBits * Examined(s)
        BY <1>2, <2>3
    <2>5. ByteBits * i \in Nat /\ ByteBits * Examined(s) \in Nat
        BY <1>2, <2>3
    <2> QED BY <2>1, <2>3, <2>4, <2>5
<1>4. k \in Bits(s)
    BY <1>1, <1>3 DEF Bits
<1>5. k \in UsedClusters(s)
    BY <1>1, <1>2, <1>4, WordsExact DEF UsedClusters
<1>6. k \in Nat /\ k < ByteBits * Examined(s)
    BY <1>2, <1>3
<1> QED BY <1>1, <1>5, <1>6, ExaminedFits

\* The free list of a new data chunk stays within the segment, and away from the
\* clusters in use that are located.
LEMMA UnusedFacts ==
    ASSUME NEW s \in Nat, Base(s) < DeviceSize
    PROVE  /\ Unused(s) \subseteq Base(s) .. (Base(s) + SegLength(s) - 1)
           /\ Unused(s) \cap ClusterSpace(LocatedIn(s)) = {}
<1>1. Base(s) \in Nat /\ SegLength(s) \in Nat /\ ChunkLength(s) \in Nat
      /\ ChunkLength(s) <= SegLength(s)
    BY BaseType, SegmentFacts
<1>2. ASSUME NEW u \in Unused(s)
      PROVE  u \in Base(s) .. (Base(s) + SegLength(s) - 1)
    <2>1. u \in Base(s) .. DeviceSize - 1
        BY DEF Unused
    <2>2. CASE u < Base(s) + ChunkLength(s)
        BY <1>1, <2>1, <2>2
    <2>3. CASE \E k \in UsedClusters(s) : u < ClusterAddr(s, k)
        <3>1. PICK k \in UsedClusters(s) : u < ClusterAddr(s, k)
            BY <2>3
        <3>2. Examined(s) \in Nat
            BY <1>1 DEF Examined
        <3>3. k \in Int /\ k < ByteBits * Examined(s)
            BY <3>2, ScanBounded DEF UsedClusters
        <3>4. CASE k >= 0
            <4>1. ClusterAddr(s, k) + ClusterSize <= Base(s) + SegLength(s)
                  /\ ClusterAddr(s, k) \in Nat
                BY <3>3, <3>4, ExaminedFits
            <4> QED BY <1>1, <2>1, <3>1, <4>1
        <3>5. CASE k < 0
            <4>1. k * ClusterSize <= 0 /\ k * ClusterSize \in Int
                BY <3>3, <3>5
            <4> QED BY <1>1, <2>1, <3>1, <4>1 DEF ClusterAddr
        <3> QED BY <3>3, <3>4, <3>5
    <2> QED BY <2>2, <2>3 DEF Unused
<1>3. ASSUME NEW c \in LocatedIn(s), NEW u \in Extent(c, ClusterSize)
      PROVE  u \notin Unused(s)
    BY LocatedIsUsed DEF Unused, UsedSpace
<1> QED BY <1>2, <1>3 DEF ClusterSpace

-----------------------------------------------------------------------------
(* The part of the space list that chunks are made of. *)

\* What is usable of a free list is free.
LEMMA UsableWithin ==
    ASSUME NEW F \in SUBSET Nat
    PROVE  Usable(F) \subseteq F
BY DEF Usable, Fits

\* space_list_remove makes nothing usable.
LEMMA UsableMonotone ==
    ASSUME NEW F \in SUBSET Nat, NEW G \in SUBSET F
    PROVE  Usable(G) \subseteq Usable(F)
BY DEF Usable, Fits

\* Space for any chunk is usable.
LEMMA ChunkIsUsable ==
    ASSUME NEW F \in SUBSET Nat, NEW n \in Nat, n >= SystemChunkSize,
           NEW a \in Fits(F, n)
    PROVE  Extent(a, n) \subseteq Usable(F)
<1> SUFFICES ASSUME NEW u \in Extent(a, n) PROVE u \in Usable(F)
    OBVIOUS
<1>1. a \in Nat /\ Extent(a, n) \subseteq F /\ SystemChunkSize > 0
    BY DEF Fits
<1> DEFINE w == IF u + SystemChunkSize <= a + n THEN u ELSE a + n - SystemChunkSize
<1>2. u \in Extent(w, SystemChunkSize)
      /\ Extent(w, SystemChunkSize) \subseteq Extent(a, n)
    BY <1>1 DEF Extent
<1>3. w \in Extent(w, SystemChunkSize)
    BY <1>1 DEF Extent
<1>4. w \in Fits(F, SystemChunkSize)
    BY <1>1, <1>2, <1>3 DEF Fits
<1> QED BY <1>2, <1>4 DEF Usable

\* Once a segment is taken out of the list no part of it can be in a chunk made
\* later: what the rounding to a stripe leaves of it is at the end of the list.
LEMMA SegmentUnusable ==
    ASSUME NEW s \in Nat, Base(s) < DeviceSize,
           NEW F \in SUBSET Extent(Reserved, DeviceSize)
    PROVE  Usable(SpaceListRemove(F, Base(s), ChunkLength(s)))
             \cap (Base(s) .. (Base(s) + SegLength(s) - 1)) = {}
<1> DEFINE G == SpaceListRemove(F, Base(s), ChunkLength(s))
<1> SUFFICES ASSUME NEW a \in Fits(G, SystemChunkSize),
                    NEW u \in Extent(a, SystemChunkSize),
                    u \in Base(s) .. (Base(s) + SegLength(s) - 1)
             PROVE  FALSE
    BY DEF Usable
<1>1. /\ Base(s) \in Nat /\ SegLength(s) \in Nat
      /\ ChunkLength(s) \in 1 .. SegLength(s)
      /\ SegLength(s) - ChunkLength(s) < StripeLen
      /\ SegLength(s) = DataChunkSize => ChunkLength(s) = SegLength(s)
      /\ SegLength(s) <= DataChunkSize
      /\ SegLength(s) < DataChunkSize => Base(s) + SegLength(s) = DeviceSize
    BY BaseType, SegmentFacts
<1>2. /\ a \in Int
      /\ \A v \in Extent(a, SystemChunkSize) :
            /\ v \in Reserved .. (Reserved + DeviceSize - 1)
            /\ v \notin Base(s) .. (Base(s) + ChunkLength(s) - 1)
    BY DEF Fits, SpaceListRemove, Extent
<1>3. u >= Base(s) + ChunkLength(s)
    BY <1>1, <1>2
<1>4. a >= Base(s) + ChunkLength(s)
    <2>1. SUFFICES ASSUME a < Base(s) PROVE FALSE
        <3>1. a \in Extent(a, SystemChunkSize)
            BY <1>2 DEF Extent
        <3> QED BY <1>1, <1>2, <2>1, <3>1
    <2>2. Base(s) \in Extent(a, SystemChunkSize)
        BY <1>1, <1>2, <1>3, <2>1 DEF Extent
    <2> QED BY <1>1, <1>2, <2>2
<1>5. a + SystemChunkSize - 1 \in Extent(a, SystemChunkSize)
    BY <1>2 DEF Extent
<1>6. a + SystemChunkSize <= Reserved + DeviceSize
    BY <1>2, <1>5
<1>7. SegLength(s) < DataChunkSize
    BY <1>1, <1>3
<1> QED BY <1>1, <1>2, <1>4, <1>6, <1>7

-----------------------------------------------------------------------------
(* The inductive invariant. *)

\* The invariant holds of the space list convert starts with.
LEMMA InitIInv == Init => IInv
<1> SUFFICES ASSUME Init PROVE IInv
    OBVIOUS
<1>1. TypeOK
    BY DEF Init, TypeOK, Extent, Types
<1>2. ScanProgress
    BY DEF Init, ScanProgress
<1>3. NtfsKept
    BY DEF Init, NtfsKept, SegmentsDone
<1>4. FreeApart
    BY DEF Init, FreeApart, Granted
<1>5. AllocationsDisjoint
    BY DEF Init, AllocationsDisjoint
<1> QED BY <1>1, <1>2, <1>3, <1>4, <1>5 DEF IInv

\* Clusters located in a segment that has been scanned lie below the next one.
LEMMA DoneBelow ==
    ASSUME TypeOK, NEW s \in SegmentsDone, NEW u \in ClusterSpace(LocatedIn(s))
    PROVE  u \in Nat /\ u < Base(seg)
<1>1. s \in Nat /\ seg \in Nat /\ s < seg /\ Base(s) < DeviceSize
    BY DEF TypeOK, SegmentsDone
<1>2. PICK c \in LocatedIn(s) : u \in Extent(c, ClusterSize)
    BY DEF ClusterSpace
<1>3. c \in Nat /\ c + ClusterSize <= Base(s) + SegLength(s)
    BY <1>1, <1>2, LocatedIsUsed
<1>4. SegLength(s) \in Nat /\ SegLength(s) <= DataChunkSize
    BY <1>1, SegmentFacts
<1>5. Base(s) + DataChunkSize <= Base(seg) /\ Base(s) \in Nat /\ Base(seg) \in Nat
    BY <1>1, BaseMonotone, BaseType
<1> QED BY <1>2, <1>3, <1>4, <1>5 DEF Extent

\* create_data_chunks makes a well-formed chunk, with its free space after the
\* reserved area.
LEMMA SegmentChunkFacts ==
    ASSUME TypeOK, Base(seg) < DeviceSize
    PROVE  /\ SegmentChunk(seg) \in Chunks
           /\ SegmentChunk(seg).free \subseteq Unused(seg)
<1>1. seg \in Nat
    BY DEF TypeOK
<1>2. Base(seg) \in Nat /\ ChunkLength(seg) \in Nat /\ Shift(seg) \in Nat
      /\ Shift(seg) <= ChunkLength(seg)
    BY <1>1, BaseType, SegmentFacts, ChunkStart
<1>3. Unused(seg) \subseteq Nat
    BY <1>2 DEF Unused
<1> QED BY <1>2, <1>3 DEF SegmentChunk, Chunk, SpaceListRemove, Types, Chunks

\* A pass of the loop of create_data_chunks keeps the invariant: the free list of
\* the new chunk leaves out the segment's clusters in use, and the segment is taken
\* out of the space list.
LEMMA ScanSegmentStep ==
    ASSUME IInv, ScanSegment
    PROVE  IInv'
<1> USE DEF ScanSegment
<1>1. /\ TypeOK /\ ScanProgress /\ NtfsKept /\ FreeApart
      /\ seg \in Nat /\ Base(seg) < DeviceSize
      /\ allocated = {} /\ allocated' = {}
      /\ chunks \in Seq(Chunks)
      /\ \A i \in DOMAIN chunks : \A u \in chunks[i].free : u \in Nat /\ u < Base(seg)
      /\ space_list \in SUBSET Extent(Reserved, DeviceSize)
      /\ space_list \in SUBSET Nat
    <2>1. TypeOK /\ ScanProgress /\ NtfsKept /\ FreeApart
        BY DEF IInv
    <2>2. /\ allocated = {}
          /\ \A i \in DOMAIN chunks : \A u \in chunks[i].free : u < Base(seg)
          /\ space_list \in SUBSET Extent(Reserved, DeviceSize)
        BY <2>1 DEF ScanProgress
    <2>3. chunks \in Seq(Chunks)
        BY <2>1 DEF TypeOK
    <2>4. \A i \in DOMAIN chunks : chunks[i].free \subseteq Nat
        <3>1. \A c \in Chunks : c.free \subseteq Nat
            BY DEF Chunks
        <3> QED BY <2>3, <3>1
    <2>5. seg \in Nat /\ space_list \in SUBSET Nat
        BY <2>1 DEF TypeOK
    <2> QED BY <2>1, <2>2, <2>3, <2>4, <2>5
<1>2. /\ Base(seg) \in Nat /\ Base(seg') = Base(seg) + DataChunkSize
      /\ SegLength(seg) \in 1 .. DataChunkSize
    BY <1>1, BaseType, SegmentFacts
<1>3. Granted' = {}
    BY <1>1 DEF Granted
<1>4. SegmentsDone' \subseteq SegmentsDone \cup {seg}
    BY <1>1 DEF SegmentsDone
<1>5. /\ \A s : LocatedIn(s)' = LocatedIn(s)
      /\ AllocationsDisjoint'
    BY <1>1 DEF LocatedIn, AllocationsDisjoint
<1>6. CASE UsedClusters(seg) = {} /\ UNCHANGED <<space_list, chunks>>
    <2>1. TypeOK'
        BY <1>1, <1>6 DEF TypeOK
    <2>2. ScanProgress'
        <3>1. ASSUME NEW i \in DOMAIN chunks, NEW u \in chunks[i].free
              PROVE  u < Base(seg')
            <4>1. u \in Nat /\ u < Base(seg)
                BY <1>1
            <4> QED BY <1>2, <4>1
        <3> QED BY <1>1, <1>6, <3>1 DEF ScanProgress
    <2>3. LocatedIn(seg) = {}
        BY <1>1, <1>6, LocatedIsUsed
    <2>4. NtfsKept'
        <3> SUFFICES ASSUME NEW s \in SegmentsDone'
                     PROVE  /\ Usable(space_list) \cap ClusterSpace(LocatedIn(s)) = {}
                            /\ \A i \in DOMAIN chunks :
                                  chunks[i].free \cap ClusterSpace(LocatedIn(s)) = {}
            BY <1>3, <1>5, <1>6 DEF NtfsKept, ClusterSpace
        <3>1. CASE s = seg
            BY <2>3, <3>1 DEF ClusterSpace
        <3>2. CASE s \in SegmentsDone
            BY <1>1, <3>2 DEF NtfsKept
        <3> QED BY <1>4, <3>1, <3>2
    <2>5. FreeApart'
        BY <1>1, <1>3, <1>6 DEF FreeApart
    <2> QED BY <1>5, <2>1, <2>2, <2>4, <2>5 DEF IInv
<1>7. CASE /\ space_list' = SpaceListRemove(space_list, Base(seg), ChunkLength(seg))
           /\ chunks' = Append(chunks, SegmentChunk(seg))
    <2>1. /\ SegmentChunk(seg) \in Chunks
          /\ SegmentChunk(seg).free \subseteq Unused(seg)
          /\ Unused(seg) \subseteq Base(seg) .. (Base(seg) + SegLength(seg) - 1)
          /\ Unused(seg) \cap ClusterSpace(LocatedIn(seg)) = {}
        BY <1>1, SegmentChunkFacts, UnusedFacts
    <2>2. /\ space_list' \in SUBSET space_list
          /\ Usable(space_list') \subseteq Usable(space_list)
          /\ Usable(space_list')
               \cap (Base(seg) .. (Base(seg) + SegLength(seg) - 1)) = {}
        BY <1>1, <1>7, UsableMonotone, SegmentUnusable DEF SpaceListRemove
    <2>3. /\ DOMAIN chunks' = 1 .. Len(chunks) + 1
          /\ DOMAIN chunks = 1 .. Len(chunks) /\ Len(chunks) \in Nat
          /\ \A i \in DOMAIN chunks : chunks'[i] = chunks[i]
          /\ chunks'[Len(chunks) + 1] = SegmentChunk(seg)
        BY <1>1, <1>7
    <2>4. TypeOK'
        <3>1. chunks' \in Seq(Chunks)
            BY <1>1, <1>7, <2>1
        <3>2. space_list' \subseteq Nat
            BY <1>1, <2>2
        <3> QED BY <1>1, <3>1, <3>2 DEF TypeOK
    <2>5. ScanProgress'
        <3>1. \A i \in DOMAIN chunks' : \A u \in chunks'[i].free : u < Base(seg')
            <4> SUFFICES ASSUME NEW i \in DOMAIN chunks', NEW u \in chunks'[i].free
                         PROVE  u < Base(seg')
                OBVIOUS
            <4>1. CASE i \in DOMAIN chunks
                <5>1. u \in chunks[i].free
                    BY <2>3, <4>1
                <5>2. u \in Nat /\ u < Base(seg)
                    BY <1>1, <4>1, <5>1
                <5> QED BY <1>2, <5>2
            <4>2. CASE i = Len(chunks) + 1
                <5>1. u \in Base(seg) .. (Base(seg) + SegLength(seg) - 1)
                    BY <2>1, <2>3, <4>2
                <5> QED BY <1>2, <5>1
            <4> QED BY <2>3, <4>1, <4>2
        <3> QED BY <1>1, <2>2, <3>1 DEF ScanProgress
    <2>6. NtfsKept'
        <3> SUFFICES ASSUME NEW s \in SegmentsDone'
                     PROVE  /\ Usable(space_list') \cap ClusterSpace(LocatedIn(s)) = {}
                            /\ \A i \in DOMAIN chunks' :
                                  chunks'[i].free \cap ClusterSpace(LocatedIn(s)) = {}
            BY <1>3, <1>5 DEF NtfsKept, ClusterSpace
        <3>1. CASE s = seg
            <4>1. \A u \in ClusterSpace(LocatedIn(seg)) :
                      u \in Base(seg) .. (Base(seg) + SegLength(seg) - 1)
                <5> SUFFICES ASSUME NEW c \in LocatedIn(seg), NEW u \in Extent(c, ClusterSize)
                             PROVE  u \in Base(seg) .. (Base(seg) + SegLength(seg) - 1)
                    BY DEF ClusterSpace
                <5>1. c \in Nat /\ Base(seg) <= c
                      /\ c + ClusterSize <= Base(seg) + SegLength(seg)
                    BY <1>1, LocatedIsUsed
                <5> QED BY <1>2, <5>1 DEF Extent
            <4>2. \A i \in DOMAIN chunks' :
                      chunks'[i].free \cap ClusterSpace(LocatedIn(seg)) = {}
                <5> SUFFICES ASSUME NEW i \in DOMAIN chunks'
                             PROVE  chunks'[i].free \cap ClusterSpace(LocatedIn(seg)) = {}
                    OBVIOUS
                <5>1. CASE i \in DOMAIN chunks
                    <6>1. \A u \in chunks'[i].free : u < Base(seg)
                        BY <1>1, <2>3, <5>1
                    <6>2. \A u \in ClusterSpace(LocatedIn(seg)) : ~ (u < Base(seg))
                        BY <1>2, <4>1
                    <6> QED BY <6>1, <6>2
                <5>2. CASE i = Len(chunks) + 1
                    BY <2>1, <2>3, <5>2
                <5> QED BY <2>3, <5>1, <5>2
            <4> QED BY <2>2, <3>1, <4>1, <4>2
        <3>2. CASE s \in SegmentsDone
            <4>1. \A i \in DOMAIN chunks' :
                      chunks'[i].free \cap ClusterSpace(LocatedIn(s)) = {}
                <5> SUFFICES ASSUME NEW i \in DOMAIN chunks'
                             PROVE  chunks'[i].free \cap ClusterSpace(LocatedIn(s)) = {}
                    OBVIOUS
                <5>1. CASE i \in DOMAIN chunks
                    BY <1>1, <2>3, <3>2, <5>1 DEF NtfsKept
                <5>2. CASE i = Len(chunks) + 1
                    <6>1. \A u \in chunks'[i].free : u >= Base(seg)
                        BY <1>2, <2>1, <2>3, <5>2
                    <6>2. \A u \in ClusterSpace(LocatedIn(s)) : u \in Nat /\ u < Base(seg)
                        BY <1>1, <3>2, DoneBelow
                    <6> QED BY <1>2, <6>1, <6>2
                <5> QED BY <2>3, <5>1, <5>2
            <4> QED BY <1>1, <2>2, <3>2, <4>1 DEF NtfsKept
        <3> QED BY <1>4, <3>1, <3>2
    <2>7. FreeApart'
        <3>1. \A i \in DOMAIN chunks' : chunks'[i].free \cap Usable(space_list') = {}
            <4> SUFFICES ASSUME NEW i \in DOMAIN chunks'
                         PROVE  chunks'[i].free \cap Usable(space_list') = {}
                OBVIOUS
            <4>1. CASE i \in DOMAIN chunks
                BY <1>1, <2>2, <2>3, <4>1 DEF FreeApart
            <4>2. CASE i = Len(chunks) + 1
                BY <2>1, <2>2, <2>3, <4>2
            <4> QED BY <2>3, <4>1, <4>2
        <3>2. \A i \in DOMAIN chunks :
                 chunks[i].free \cap SegmentChunk(seg).free = {}
            <4> SUFFICES ASSUME NEW i \in DOMAIN chunks,
                                NEW u \in chunks[i].free, u \in SegmentChunk(seg).free
                         PROVE  FALSE
                OBVIOUS
            <4>1. u < Base(seg)
                BY <1>1
            <4>2. u \in Base(seg) .. (Base(seg) + SegLength(seg) - 1)
                BY <2>1
            <4> QED BY <1>2, <4>1, <4>2
        <3>3. ASSUME NEW i \in DOMAIN chunks', NEW j \in DOMAIN chunks', i # j
              PROVE  chunks'[i].free \cap chunks'[j].free = {}
            <4>1. CASE i \in DOMAIN chunks /\ j \in DOMAIN chunks
                BY <1>1, <2>3, <3>3, <4>1 DEF FreeApart
            <4>2. CASE i = Len(chunks) + 1 /\ j \in DOMAIN chunks
                BY <2>3, <3>2, <4>2
            <4>3. CASE i \in DOMAIN chunks /\ j = Len(chunks) + 1
                BY <2>3, <3>2, <4>3
            <4> QED BY <2>3, <3>3, <4>1, <4>2, <4>3
        <3> QED BY <1>3, <3>1, <3>3 DEF FreeApart
    <2> QED BY <1>5, <2>4, <2>5, <2>6, <2>7 DEF IInv
<1> QED BY <1>6, <1>7

\* What an allocation adds to the history.
LEMMA GrantedGrows ==
    ASSUME NEW a, allocated' = allocated \cup {a}
    PROVE  Granted' = Granted \cup Extent(a.addr, a.length)
BY DEF Granted

\* An allocation of units not granted before meets no other.
LEMMA StillDisjoint ==
    ASSUME AllocationsDisjoint, NEW a, allocated' = allocated \cup {a},
           Extent(a.addr, a.length) \cap Granted = {}
    PROVE  AllocationsDisjoint'
<1> SUFFICES ASSUME NEW b \in allocated', NEW c \in allocated', b # c
             PROVE  Extent(b.addr, b.length) \cap Extent(c.addr, c.length) = {}
    BY DEF AllocationsDisjoint
<1>1. \A d \in allocated : Extent(d.addr, d.length) \subseteq Granted
    BY DEF Granted
<1>2. CASE b \in allocated /\ c \in allocated
    BY <1>2 DEF AllocationsDisjoint
<1>3. CASE b = a /\ c \in allocated
    BY <1>1, <1>3
<1>4. CASE b \in allocated /\ c = a
    BY <1>1, <1>4
<1> QED BY <1>2, <1>3, <1>4

\* The record kept of an allocation is well formed.
LEMMA AllocationType ==
    ASSUME NEW addr \in Nat, NEW length \in Nat \ {0}, NEW type \in Types,
           NEW counted \in BOOLEAN
    PROVE  /\ Allocation(addr, length, type, counted)
                \in [addr : Nat, length : Nat \ {0}, type : Types, counted : BOOLEAN]
           /\ Allocation(addr, length, type, counted).addr = addr
           /\ Allocation(addr, length, type, counted).length = length
BY DEF Allocation

\* Taking space from a chunk leaves a well-formed chunk, without that space.
LEMMA TakeType ==
    ASSUME NEW c \in Chunks, NEW addr \in Nat, NEW length \in Nat, NEW counted \in BOOLEAN
    PROVE  /\ Take(c, addr, length, counted) \in Chunks
           /\ Take(c, addr, length, counted).free = c.free \ Extent(addr, length)
<1> DEFINE left == c.free \ Extent(addr, length)
           counts == IF counted THEN c.used + length ELSE c.used
<1>1. left \in SUBSET Nat /\ counts \in Nat
    BY DEF Chunks
<1>2. Take(c, addr, length, counted) = [c EXCEPT !.free = left, !.used = counts]
    BY DEF Take, SpaceListRemove
<1> HIDE DEF left, counts
<1>3. [c EXCEPT !.free = left, !.used = counts] \in Chunks
    BY <1>1 DEF Chunks
<1>4. [c EXCEPT !.free = left, !.used = counts].free = left
    BY DEF Chunks
<1> QED BY <1>2, <1>3, <1>4 DEF left

\* A new chunk is well formed, and removing the superblocks adds nothing to its
\* free space.
LEMMA ChunkType ==
    ASSUME NEW start \in Nat, NEW length \in Nat, NEW type \in Types,
           NEW free \in SUBSET Nat
    PROVE  /\ Chunk(start, length, type, free) \in Chunks
           /\ Chunk(start, length, type, free).free \subseteq free
BY DEF Chunk, Chunks

\* The search through the chunks ends at one with room.
LEMMA FirstWithRoomFacts ==
    ASSUME TypeOK, NEW type, NEW length \in Nat, ChunksWithRoom(type, length) # {}
    PROVE  LET i == FirstWithRoom(type, length)
           IN  /\ i \in DOMAIN chunks
               /\ chunks[i] \in Chunks
               /\ FirstFit(chunks[i].free, length) \in Nat
               /\ Extent(FirstFit(chunks[i].free, length), length) \subseteq chunks[i].free
<1>1. chunks \in Seq(Chunks)
    BY DEF TypeOK
<1>2. ChunksWithRoom(type, length) \in SUBSET Nat
    BY <1>1 DEF ChunksWithRoom
<1>3. \E k \in ChunksWithRoom(type, length) :
          \A j \in ChunksWithRoom(type, length) : k <= j
    BY <1>2, LeastNatural
<1>4. FirstWithRoom(type, length) \in ChunksWithRoom(type, length)
    BY <1>3 DEF FirstWithRoom
<1> DEFINE i == FirstWithRoom(type, length)
<1>5. i \in DOMAIN chunks /\ Fits(chunks[i].free, length) # {}
    BY <1>4 DEF ChunksWithRoom
<1> HIDE DEF i
<1>6. chunks[i] \in Chunks
    BY <1>1, <1>5
<1>7. chunks[i].free \in SUBSET Nat
    BY <1>6 DEF Chunks
<1>8. FirstFit(chunks[i].free, length) \in Fits(chunks[i].free, length)
    BY <1>5, <1>7, FirstFitFits
<1>9. /\ FirstFit(chunks[i].free, length) \in Nat
      /\ Extent(FirstFit(chunks[i].free, length), length) \subseteq chunks[i].free
    BY <1>7, <1>8 DEF Fits
<1> QED BY <1>5, <1>6, <1>9 DEF i

\* An allocation from a chunk moves free units of that chunk to the history.
LEMMA FromChunkStep ==
    ASSUME IInv, phase # "scan",
           NEW type \in Types, NEW length \in Nat \ {0}, NEW counted \in BOOLEAN,
           FromChunk(type, length, counted)
    PROVE  IInv'
<1>1. /\ TypeOK /\ ScanProgress /\ NtfsKept /\ FreeApart /\ AllocationsDisjoint
      /\ chunks \in Seq(Chunks)
      /\ UNCHANGED <<in_use, phase, seg, space_list>>
    BY DEF IInv, TypeOK, FromChunk
<1> DEFINE i == FirstWithRoom(type, length)
           addr == FirstFit(chunks[i].free, length)
           E == Extent(addr, length)
           a == Allocation(addr, length, type, counted)
           c == Take(chunks[i], addr, length, counted)
<1>2. ChunksWithRoom(type, length) # {}
    BY DEF FromChunk
<1>3. chunks' = [chunks EXCEPT ![i] = c] /\ allocated' = allocated \cup {a}
    BY DEF FromChunk
<1>4. i \in DOMAIN chunks /\ chunks[i] \in Chunks /\ addr \in Nat /\ E \subseteq chunks[i].free
    BY <1>1, <1>2, FirstWithRoomFacts
<1> HIDE DEF i, addr
<1>5. c \in Chunks /\ c.free = chunks[i].free \ E
    BY <1>4, TakeType
<1>6. /\ a \in [addr : Nat, length : Nat \ {0}, type : Types, counted : BOOLEAN]
      /\ a.addr = addr /\ a.length = length
    BY <1>4, AllocationType
<1> HIDE DEF c, a
<1>7. /\ chunks' \in Seq(Chunks) /\ DOMAIN chunks' = DOMAIN chunks
      /\ chunks'[i].free = chunks[i].free \ E
      /\ \A k \in DOMAIN chunks : k # i => chunks'[k] = chunks[k]
      /\ \A k \in DOMAIN chunks : chunks'[k].free \subseteq chunks[k].free
    BY <1>1, <1>3, <1>4, <1>5
<1>8. Granted' = Granted \cup E
    BY <1>3, <1>6, GrantedGrows
<1> HIDE DEF E
<1>9. TypeOK'
    BY <1>1, <1>3, <1>6, <1>7 DEF TypeOK
<1>10. ScanProgress'
    BY <1>1, <1>7 DEF ScanProgress
<1>11. NtfsKept'
    <2>1. SegmentsDone' = SegmentsDone /\ \A s : LocatedIn(s)' = LocatedIn(s)
        BY <1>1 DEF SegmentsDone, LocatedIn
    <2> SUFFICES ASSUME NEW s \in SegmentsDone
                 PROVE  /\ Usable(space_list) \cap ClusterSpace(LocatedIn(s)) = {}
                        /\ \A k \in DOMAIN chunks' :
                              chunks'[k].free \cap ClusterSpace(LocatedIn(s)) = {}
                        /\ Granted' \cap ClusterSpace(LocatedIn(s)) = {}
        BY <1>1, <2>1 DEF NtfsKept, ClusterSpace
    <2> QED BY <1>1, <1>4, <1>7, <1>8 DEF NtfsKept
<1>12. FreeApart'
    <2>1. \A k \in DOMAIN chunks' : chunks'[k].free \cap Granted' = {}
        <3> SUFFICES ASSUME NEW k \in DOMAIN chunks'
                     PROVE  chunks'[k].free \cap Granted' = {}
            OBVIOUS
        <3>1. CASE k = i
            BY <1>1, <1>4, <1>7, <1>8, <3>1 DEF FreeApart
        <3>2. CASE k # i
            BY <1>1, <1>4, <1>7, <1>8, <3>2 DEF FreeApart
        <3> QED BY <3>1, <3>2
    <2>2. Usable(space_list) \cap Granted' = {}
        BY <1>1, <1>4, <1>8 DEF FreeApart
    <2>3. \A k \in DOMAIN chunks' : chunks'[k].free \cap Usable(space_list) = {}
        BY <1>1, <1>7 DEF FreeApart
    <2>4. \A j, k \in DOMAIN chunks' : j # k => chunks'[j].free \cap chunks'[k].free = {}
        BY <1>1, <1>7 DEF FreeApart
    <2> QED BY <1>1, <2>1, <2>2, <2>3, <2>4 DEF FreeApart
<1>13. AllocationsDisjoint'
    <2>1. Extent(a.addr, a.length) \cap Granted = {}
        BY <1>1, <1>4, <1>6 DEF FreeApart, E
    <2> QED BY <1>1, <1>3, <2>1, StillDisjoint
<1> QED BY <1>9, <1>10, <1>11, <1>12, <1>13 DEF IInv

\* A new chunk is made of usable space: that space is in no chunk, not granted and
\* not in use, and no longer usable.
LEMMA NewChunkStep ==
    ASSUME IInv, phase # "scan",
           NEW type \in Types, NEW size \in Nat, size >= SystemChunkSize,
           NEW length \in Nat \ {0}, NEW counted \in BOOLEAN,
           NewChunk(type, size, length, counted)
    PROVE  IInv'
<1> DEFINE start == FirstFit(space_list, size)
           S == Extent(start, size)
           c == Chunk(start, size, type, S)
           addr == FirstFit(c.free, length)
           E == Extent(addr, length)
           a == Allocation(addr, length, type, counted)
<1>1. /\ TypeOK /\ ScanProgress /\ NtfsKept /\ FreeApart /\ AllocationsDisjoint
      /\ chunks \in Seq(Chunks) /\ space_list \in SUBSET Nat
      /\ UNCHANGED <<in_use, seg>>
      /\ space_list' = space_list \ S
      /\ space_list' \in SUBSET space_list
    BY DEF IInv, TypeOK, NewChunk, SpaceListRemove
<1>2. start \in Nat /\ start \in Fits(space_list, size)
    BY <1>1, FirstFitFits DEF NewChunk, Fits
<1>3. S \subseteq Usable(space_list) /\ S \in SUBSET Nat
    BY <1>1, <1>2, ChunkIsUsable DEF Fits
<1>4. c \in Chunks /\ c.free \subseteq S /\ c.free \in SUBSET Nat
    BY <1>2, <1>3, ChunkType DEF Chunks
<1>5. PICK new \in Chunks, got \in SUBSET S :
          /\ chunks' = Append(chunks, new)
          /\ new.free \subseteq S \ got
          /\ Granted' = Granted \cup got
          /\ allocated' \subseteq [addr : Nat, length : Nat \ {0}, type : Types,
                                   counted : BOOLEAN]
          /\ AllocationsDisjoint'
          /\ phase' \in {phase, "failed"}
    <2>1. allocated \subseteq [addr : Nat, length : Nat \ {0}, type : Types,
                               counted : BOOLEAN]
        BY <1>1 DEF TypeOK
    <2>2. CASE /\ Fits(c.free, length) # {}
               /\ chunks' = Append(chunks, Take(c, addr, length, counted))
               /\ allocated' = allocated \cup {a}
               /\ UNCHANGED phase
        <3>1. addr \in Nat /\ E \subseteq c.free
            <4>1. addr \in Fits(c.free, length)
                BY <1>4, <2>2, FirstFitFits
            <4> QED BY <1>4, <4>1 DEF Fits
        <3>2. /\ Take(c, addr, length, counted) \in Chunks
              /\ Take(c, addr, length, counted).free = c.free \ E
            BY <1>4, <3>1, TakeType
        <3>3. /\ a \in [addr : Nat, length : Nat \ {0}, type : Types, counted : BOOLEAN]
              /\ a.addr = addr /\ a.length = length
            BY <3>1, AllocationType
        <3>4. Granted' = Granted \cup E
            BY <2>2, <3>3, GrantedGrows
        <3>5. Extent(a.addr, a.length) \cap Granted = {}
            BY <1>1, <1>3, <1>4, <3>1, <3>3 DEF FreeApart
        <3>6. AllocationsDisjoint'
            BY <1>1, <2>2, <3>5, StillDisjoint
        <3>7. E \in SUBSET S /\ c.free \ E \subseteq S \ E
            BY <1>4, <3>1
        <3> HIDE DEF S, c, addr, E, a
        <3> QED BY <2>1, <2>2, <3>2, <3>3, <3>4, <3>6, <3>7
    <2>3. CASE /\ chunks' = Append(chunks, c)
               /\ phase' = "failed"
               /\ UNCHANGED allocated
        <3>1. Granted' = Granted \cup {} /\ AllocationsDisjoint'
            BY <1>1, <2>3 DEF Granted, AllocationsDisjoint
        <3>2. {} \in SUBSET S /\ c.free \subseteq S \ {}
            BY <1>4
        <3>3. phase' \in {phase, "failed"} /\ allocated' = allocated
            BY <2>3
        <3> HIDE DEF S, c, addr, E, a
        <3> QED BY <1>4, <2>1, <2>3, <3>1, <3>2, <3>3
    <2> QED BY <2>2, <2>3 DEF NewChunk
<1> HIDE DEF start, S, c, addr, E, a
<1>6. /\ DOMAIN chunks' = 1 .. Len(chunks) + 1
      /\ DOMAIN chunks = 1 .. Len(chunks) /\ Len(chunks) \in Nat
      /\ chunks' \in Seq(Chunks)
      /\ \A k \in DOMAIN chunks : chunks'[k] = chunks[k]
      /\ chunks'[Len(chunks) + 1] = new
    BY <1>1, <1>5
<1>7. /\ Usable(space_list') \subseteq Usable(space_list)
      /\ Usable(space_list') \subseteq space_list'
    BY <1>1, UsableMonotone, UsableWithin
<1>8. phase' # "scan" /\ Base(seg) >= DeviceSize
    BY <1>1, <1>5 DEF ScanProgress
<1>9. TypeOK'
    BY <1>1, <1>5, <1>6 DEF TypeOK
<1>10. ScanProgress'
    BY <1>1, <1>8 DEF ScanProgress
<1>11. NtfsKept'
    <2>1. SegmentsDone' = SegmentsDone /\ \A s : LocatedIn(s)' = LocatedIn(s)
        BY <1>1 DEF SegmentsDone, LocatedIn
    <2> SUFFICES ASSUME NEW s \in SegmentsDone
                 PROVE  /\ Usable(space_list') \cap ClusterSpace(LocatedIn(s)) = {}
                        /\ \A k \in DOMAIN chunks' :
                              chunks'[k].free \cap ClusterSpace(LocatedIn(s)) = {}
                        /\ Granted' \cap ClusterSpace(LocatedIn(s)) = {}
        BY <2>1 DEF NtfsKept, ClusterSpace
    <2>2. S \cap ClusterSpace(LocatedIn(s)) = {}
        BY <1>1, <1>3 DEF NtfsKept
    <2>3. \A k \in DOMAIN chunks' : chunks'[k].free \cap ClusterSpace(LocatedIn(s)) = {}
        BY <1>1, <1>5, <1>6, <2>2 DEF NtfsKept
    <2> QED BY <1>1, <1>5, <1>7, <2>2, <2>3 DEF NtfsKept
<1>12. FreeApart'
    <2>1. \A k \in DOMAIN chunks : chunks[k].free \cap S = {}
        BY <1>1, <1>3 DEF FreeApart
    <2>2. S \cap Granted = {} /\ S \cap Usable(space_list') = {}
        BY <1>1, <1>3, <1>7 DEF FreeApart
    <2>3. ASSUME NEW k \in DOMAIN chunks'
          PROVE  /\ chunks'[k].free \cap Usable(space_list') = {}
                 /\ chunks'[k].free \cap Granted' = {}
        <3>1. CASE k \in DOMAIN chunks
            BY <1>1, <1>5, <1>6, <1>7, <2>1, <3>1 DEF FreeApart
        <3>2. CASE k = Len(chunks) + 1
            <4>1. chunks'[k].free \subseteq S \ got
                BY <1>5, <1>6, <3>2
            <4> QED BY <1>5, <2>2, <4>1
        <3> QED BY <1>6, <3>1, <3>2
    <2>4. Usable(space_list') \cap Granted' = {}
        BY <1>1, <1>5, <1>7, <2>2 DEF FreeApart
    <2>5. ASSUME NEW j \in DOMAIN chunks', NEW k \in DOMAIN chunks', j # k
          PROVE  chunks'[j].free \cap chunks'[k].free = {}
        <3>1. CASE j \in DOMAIN chunks /\ k \in DOMAIN chunks
            BY <1>1, <1>6, <2>5, <3>1 DEF FreeApart
        <3>2. CASE j = Len(chunks) + 1 /\ k \in DOMAIN chunks
            BY <1>5, <1>6, <2>1, <3>2
        <3>3. CASE j \in DOMAIN chunks /\ k = Len(chunks) + 1
            BY <1>5, <1>6, <2>1, <3>3
        <3> QED BY <1>6, <2>5, <3>1, <3>2, <3>3
    <2> QED BY <2>3, <2>4, <2>5 DEF FreeApart
<1> QED BY <1>5, <1>9, <1>10, <1>11, <1>12 DEF IInv

\* Nothing but the phase changes.
LEMMA PhaseStep ==
    ASSUME IInv, phase' \in {"protect", "rewrite", "trees", "failed"},
           phase # "scan" \/ Base(seg) >= DeviceSize,
           UNCHANGED <<in_use, seg, space_list, chunks, allocated>>
    PROVE  IInv'
<1>1. TypeOK /\ ScanProgress /\ NtfsKept /\ FreeApart /\ AllocationsDisjoint
    BY DEF IInv
<1>2. TypeOK'
    BY <1>1 DEF TypeOK
<1>3. ScanProgress'
    BY <1>1 DEF ScanProgress
<1>4. NtfsKept'
    BY <1>1 DEF NtfsKept, SegmentsDone, LocatedIn, ClusterSpace, Granted
<1>5. FreeApart'
    BY <1>1 DEF FreeApart, Granted
<1>6. AllocationsDisjoint'
    BY <1>1 DEF AllocationsDisjoint
<1> QED BY <1>2, <1>3, <1>4, <1>5, <1>6 DEF IInv

\* allocate_data and allocate_metadata keep the invariant, whichever of their three
\* ways they return.
LEMMA AllocateStep ==
    ASSUME IInv, phase # "scan",
           NEW type \in Types, NEW size \in Nat, size >= SystemChunkSize,
           NEW length \in Nat \ {0}, NEW counted \in BOOLEAN,
           Allocate(type, size, length, counted)
    PROVE  IInv'
<1>1. CASE FromChunk(type, length, counted)
    BY <1>1, FromChunkStep
<1>2. CASE NewChunk(type, size, length, counted)
    BY <1>2, NewChunkStep
<1>3. CASE NoSpace(type, size, length)
    BY <1>3, PhaseStep DEF NoSpace
<1> QED BY <1>1, <1>2, <1>3 DEF Allocate

\* A step that changes nothing keeps the invariant.
LEMMA StutterStep ==
    ASSUME IInv, UNCHANGED vars
    PROVE  IInv'
<1>1. TypeOK /\ ScanProgress /\ NtfsKept /\ FreeApart /\ AllocationsDisjoint
    BY DEF IInv
<1>2. TypeOK'
    BY <1>1 DEF TypeOK, vars
<1>3. ScanProgress'
    BY <1>1 DEF ScanProgress, vars
<1>4. NtfsKept'
    BY <1>1 DEF NtfsKept, SegmentsDone, LocatedIn, ClusterSpace, Granted, vars
<1>5. FreeApart'
    BY <1>1 DEF FreeApart, Granted, vars
<1>6. AllocationsDisjoint'
    BY <1>1 DEF AllocationsDisjoint, vars
<1> QED BY <1>2, <1>3, <1>4, <1>5, <1>6 DEF IInv

\* Every step of the conversion keeps the invariant.
LEMMA NextIInv == IInv /\ [Next]_vars => IInv'
<1> SUFFICES ASSUME IInv, [Next]_vars PROVE IInv'
    OBVIOUS
<1>1. CASE ScanSegment
    BY <1>1, ScanSegmentStep
<1>2. CASE NextPhase
    BY <1>2, PhaseStep DEF NextPhase
<1>3. CASE phase = "protect" /\ AllocateData(ClusterSize, FALSE)
    BY <1>3, AllocateStep DEF AllocateData, Types
<1>4. CASE phase = "rewrite" /\ \E length \in DataLengths : AllocateData(length, TRUE)
    BY <1>4, AllocateStep DEF AllocateData, Types
<1>5. CASE phase = "trees" /\ \E system_chunk \in BOOLEAN : AllocateMetadata(system_chunk)
    <2>1. PICK system_chunk \in BOOLEAN : AllocateMetadata(system_chunk)
        BY <1>5
    <2>2. CASE system_chunk
        <3>1. Allocate("system", SystemChunkSize, TreeSize, TRUE)
            BY <2>1, <2>2 DEF AllocateMetadata
        <3>2. "system" \in Types /\ TRUE \in BOOLEAN /\ phase # "scan"
            BY <1>5 DEF Types
        <3>3. SystemChunkSize \in Nat /\ SystemChunkSize >= SystemChunkSize
              /\ TreeSize \in Nat \ {0}
            OBVIOUS
        <3> QED BY <3>1, <3>2, <3>3, AllocateStep
    <2>3. CASE ~ system_chunk
        <3>1. Allocate("metadata", DataChunkSize, TreeSize, TRUE)
            BY <2>1, <2>3 DEF AllocateMetadata
        <3>2. "metadata" \in Types /\ TRUE \in BOOLEAN /\ phase # "scan"
            BY <1>5 DEF Types
        <3> QED BY <3>1, <3>2, AllocateStep
    <2> QED BY <2>2, <2>3
<1>6. CASE UNCHANGED vars
    BY <1>6, StutterStep
<1> QED BY <1>1, <1>2, <1>3, <1>4, <1>5, <1>6 DEF Next

\* The inductive invariant holds throughout: what is free in the chunks, what is
\* usable outside them, what has been granted and what NTFS uses never overlap.
THEOREM Invariant == Spec => []IInv
<1>1. Init => IInv
    BY InitIInv
<1>2. IInv /\ [Next]_vars => IInv'
    BY NextIInv
<1> QED BY <1>1, <1>2, PTL DEF Spec

\* The state is always of its type.
THEOREM TypeCorrect == Spec => []TypeOK
<1>1. IInv => TypeOK
    BY DEF IInv
<1> QED BY <1>1, Invariant, PTL

\* Nothing is ever allocated twice, by either allocator: not from one chunk, not
\* from two, and not from a chunk made of space that another already has.
THEOREM NeverTwice == Spec => []AllocationsDisjoint
<1>1. IInv => AllocationsDisjoint
    BY DEF IInv
<1> QED BY <1>1, Invariant, PTL

\* No cluster that the scan of a segment locates is granted.
LEMMA LocatedNotGranted ==
    ASSUME IInv
    PROVE  NoOverwrite
<1>1. TypeOK /\ ScanProgress /\ NtfsKept
    BY DEF IInv
<1>2. CASE phase = "scan"
    BY <1>1, <1>2 DEF ScanProgress, NoOverwrite, Granted
<1>3. CASE phase # "scan"
    <2> SUFFICES ASSUME NEW s \in 0 .. DeviceSize, Base(s) < DeviceSize
                 PROVE  Granted \cap ClusterSpace(LocatedIn(s)) = {}
        BY DEF NoOverwrite, Located, ClusterSpace
    <2>1. seg \in Nat /\ Base(seg) >= DeviceSize
        BY <1>1, <1>3 DEF ScanProgress, TypeOK
    <2>2. s < seg
        <3> SUFFICES ASSUME seg <= s PROVE FALSE
            BY <2>1
        <3>1. seg * DataChunkSize <= s * DataChunkSize
            BY <2>1
        <3>2. Base(seg) \in Nat /\ Base(s) \in Nat
            BY <2>1, BaseType
        <3> QED BY <2>1, <3>1, <3>2 DEF Base
    <2>3. s \in SegmentsDone
        BY <2>2 DEF SegmentsDone
    <2> QED BY <1>1, <2>3 DEF NtfsKept
<1> QED BY <1>2, <1>3

\* No allocation ever touches a cluster in use that the scan of the bitmap locates,
\* whatever the volume and its bitmap.
THEOREM NtfsNeverOverwritten == Spec => []NoOverwrite
<1> QED BY LocatedNotGranted, Invariant, PTL

-----------------------------------------------------------------------------
(* What a call of an allocator does, in one place: every invariant below   *)
(* is shown from these two descriptions.                                   *)

Span(i) == Extent(chunks[i].start, chunks[i].length)

\* The first address that is long enough of a free list.
IsFirstFit(addr, free, length) ==
    /\ addr \in Fits(free, length)
    /\ \A b \in Fits(free, length) : addr <= b

\* Space at addr was taken from chunk i.
TakenFrom(i, addr, length, type, counted) ==
    /\ i \in DOMAIN chunks /\ chunks[i].type = type
    /\ addr \in Nat /\ IsFirstFit(addr, chunks[i].free, length)
    /\ Extent(addr, length) \subseteq chunks[i].free
    /\ chunks' \in Seq(Chunks) /\ DOMAIN chunks' = DOMAIN chunks
    /\ \A k \in DOMAIN chunks : k # i => chunks'[k] = chunks[k]
    /\ \A k \in DOMAIN chunks : /\ chunks'[k].start = chunks[k].start
                                /\ chunks'[k].length = chunks[k].length
                                /\ chunks'[k].type = chunks[k].type
    /\ chunks'[i].free = chunks[i].free \ Extent(addr, length)
    /\ chunks'[i].used = chunks[i].used + (IF counted THEN length ELSE 0)
    /\ allocated' = allocated \cup {Allocation(addr, length, type, counted)}
    /\ UNCHANGED <<in_use, phase, seg, space_list>>

\* A chunk was made at start, with nothing taken from it yet.
ChunkMade(n, start, size, type) ==
    /\ n = Len(chunks) + 1
    /\ start \in Nat /\ IsFirstFit(start, space_list, size)
    /\ Extent(start, size) \subseteq space_list
    /\ space_list' = space_list \ Extent(start, size)
    /\ DOMAIN chunks = 1 .. Len(chunks)
    /\ chunks' \in Seq(Chunks) /\ DOMAIN chunks' = 1 .. n
    /\ \A k \in DOMAIN chunks : chunks'[k] = chunks[k]
    /\ chunks'[n].start = start /\ chunks'[n].length = size /\ chunks'[n].type = type
    /\ UNCHANGED <<in_use, seg>>

\* ... and space at addr was taken from it.
TakenFromNew(n, start, size, type, addr, length, counted) ==
    LET free == Extent(start, size) \ SuperSpace(start, size)
    IN  /\ addr \in Nat /\ IsFirstFit(addr, free, length)
        /\ Extent(addr, length) \subseteq free
        /\ chunks'[n].free = free \ Extent(addr, length)
        /\ chunks'[n].used = (IF counted THEN length ELSE 0)
        /\ allocated' = allocated \cup {Allocation(addr, length, type, counted)}
        /\ UNCHANGED phase

\* ... or the superblocks left no room in it.
NoRoomInNew(n, start, size) ==
    /\ chunks'[n].free = Extent(start, size) \ SuperSpace(start, size)
    /\ chunks'[n].used = 0
    /\ phase' = "failed"
    /\ UNCHANGED allocated

\* First fit takes the least address at which there is room.
LEMMA FirstFitLeast ==
    ASSUME NEW F \in SUBSET Nat, NEW n \in Nat, Fits(F, n) # {}
    PROVE  IsFirstFit(FirstFit(F, n), F, n)
<1>1. \E a \in Fits(F, n) : \A b \in Fits(F, n) : a <= b
    BY LeastNatural DEF Fits
<1> QED BY <1>1 DEF FirstFit, IsFirstFit

\* Taking space from a chunk changes what is free and what is used, and no more.
LEMMA TakeFields ==
    ASSUME NEW c \in Chunks, NEW addr \in Nat, NEW length \in Nat, NEW counted \in BOOLEAN
    PROVE  /\ Take(c, addr, length, counted) \in Chunks
           /\ Take(c, addr, length, counted).start = c.start
           /\ Take(c, addr, length, counted).length = c.length
           /\ Take(c, addr, length, counted).type = c.type
           /\ Take(c, addr, length, counted).free = c.free \ Extent(addr, length)
           /\ Take(c, addr, length, counted).used = c.used + (IF counted THEN length ELSE 0)
<1> DEFINE left == c.free \ Extent(addr, length)
           counts == IF counted THEN c.used + length ELSE c.used
<1>1. Take(c, addr, length, counted) = [c EXCEPT !.free = left, !.used = counts]
    BY DEF Take, SpaceListRemove
<1>2. counts = c.used + (IF counted THEN length ELSE 0)
    BY DEF Chunks
<1> HIDE DEF left, counts
<1>3. LET d == [c EXCEPT !.free = left, !.used = counts]
      IN  /\ d.start = c.start /\ d.length = c.length /\ d.type = c.type
          /\ d.free = left /\ d.used = counts
    BY DEF Chunks
<1> QED BY <1>1, <1>2, <1>3, TakeType DEF left

\* What an allocation from an existing chunk changes.
LEMMA FromChunkShape ==
    ASSUME TypeOK, NEW type \in Types, NEW length \in Nat \ {0}, NEW counted \in BOOLEAN,
           FromChunk(type, length, counted)
    PROVE  \E i \in DOMAIN chunks, addr \in Nat : TakenFrom(i, addr, length, type, counted)
<1> DEFINE i == FirstWithRoom(type, length)
           addr == FirstFit(chunks[i].free, length)
           c == Take(chunks[i], addr, length, counted)
<1>1. /\ chunks \in Seq(Chunks)
      /\ ChunksWithRoom(type, length) # {}
      /\ chunks' = [chunks EXCEPT ![i] = c]
      /\ allocated' = allocated \cup {Allocation(addr, length, type, counted)}
      /\ UNCHANGED <<in_use, phase, seg, space_list>>
    BY DEF TypeOK, FromChunk
<1>2. i \in DOMAIN chunks /\ chunks[i] \in Chunks /\ addr \in Nat
      /\ Extent(addr, length) \subseteq chunks[i].free
    BY <1>1, FirstWithRoomFacts
<1>3. chunks[i].type = type /\ Fits(chunks[i].free, length) # {}
    <2>1. ChunksWithRoom(type, length) \in SUBSET Nat
        BY <1>1 DEF ChunksWithRoom
    <2>2. \E k \in ChunksWithRoom(type, length) :
              \A j \in ChunksWithRoom(type, length) : k <= j
        BY <1>1, <2>1, LeastNatural
    <2>3. FirstWithRoom(type, length) \in ChunksWithRoom(type, length)
        BY <2>2 DEF FirstWithRoom
    <2> QED BY <2>3 DEF ChunksWithRoom
<1>4. IsFirstFit(addr, chunks[i].free, length)
    BY <1>2, <1>3, FirstFitLeast DEF Chunks
<1> HIDE DEF i, addr
<1>5. /\ c \in Chunks
      /\ c.start = chunks[i].start /\ c.length = chunks[i].length
      /\ c.type = chunks[i].type
      /\ c.free = chunks[i].free \ Extent(addr, length)
      /\ c.used = chunks[i].used + (IF counted THEN length ELSE 0)
    BY <1>2, TakeFields
<1> HIDE DEF c
<1>6. /\ chunks' \in Seq(Chunks) /\ DOMAIN chunks' = DOMAIN chunks
      /\ chunks'[i] = c
      /\ \A k \in DOMAIN chunks : k # i => chunks'[k] = chunks[k]
    BY <1>1, <1>2, <1>5
<1>7. TakenFrom(i, addr, length, type, counted)
    BY <1>1, <1>2, <1>3, <1>4, <1>5, <1>6 DEF TakenFrom
<1> QED BY <1>2, <1>7

\* What making a chunk changes.
LEMMA NewChunkShape ==
    ASSUME TypeOK, NEW type \in Types, NEW size \in Nat, NEW length \in Nat \ {0},
           NEW counted \in BOOLEAN, NewChunk(type, size, length, counted)
    PROVE  \E n \in Nat, start \in Nat :
              /\ ChunkMade(n, start, size, type)
              /\ \/ \E addr \in Nat :
                       TakenFromNew(n, start, size, type, addr, length, counted)
                 \/ NoRoomInNew(n, start, size)
<1> DEFINE start == FirstFit(space_list, size)
           S == Extent(start, size)
           c == Chunk(start, size, type, S)
           addr == FirstFit(c.free, length)
           n == Len(chunks) + 1
<1>1. /\ chunks \in Seq(Chunks) /\ space_list \in SUBSET Nat
      /\ Fits(space_list, size) # {}
      /\ space_list' = space_list \ S
      /\ UNCHANGED <<in_use, seg>>
    BY DEF TypeOK, NewChunk, SpaceListRemove
<1>2. IsFirstFit(start, space_list, size)
    BY <1>1, FirstFitLeast
<1>3. start \in Nat /\ S \subseteq space_list
    BY <1>1, <1>2 DEF IsFirstFit, Fits
<1>4. /\ c \in Chunks
      /\ c.start = start /\ c.length = size /\ c.type = type /\ c.used = 0
      /\ c.free = S \ SuperSpace(start, size)
    BY <1>1, <1>3 DEF Chunk, Chunks
<1>5. CASE /\ Fits(c.free, length) # {}
           /\ chunks' = Append(chunks, Take(c, addr, length, counted))
           /\ allocated' = allocated \cup {Allocation(addr, length, type, counted)}
           /\ UNCHANGED phase
    <2>1. IsFirstFit(addr, c.free, length)
        BY <1>4, <1>5, FirstFitLeast DEF Chunks
    <2>2. addr \in Nat /\ Extent(addr, length) \subseteq c.free
        BY <1>4, <2>1 DEF IsFirstFit, Fits, Chunks
    <2> HIDE DEF addr, c
    <2> DEFINE d == Take(c, addr, length, counted)
    <2>3. /\ d \in Chunks
          /\ d.start = start /\ d.length = size /\ d.type = type
          /\ d.free = c.free \ Extent(addr, length)
          /\ d.used = 0 + (IF counted THEN length ELSE 0)
        <3>1. \A x \in Chunks, y \in Nat :
                 /\ Take(x, y, length, counted) \in Chunks
                 /\ Take(x, y, length, counted).start = x.start
                 /\ Take(x, y, length, counted).length = x.length
                 /\ Take(x, y, length, counted).type = x.type
                 /\ Take(x, y, length, counted).free = x.free \ Extent(y, length)
                 /\ Take(x, y, length, counted).used
                      = x.used + (IF counted THEN length ELSE 0)
            BY TakeFields
        <3>2. c \in Chunks /\ addr \in Nat
            BY <1>4, <2>2
        <3> QED BY <1>4, <3>1, <3>2
    <2> HIDE DEF d, start
    <2>4. /\ chunks' \in Seq(Chunks) /\ DOMAIN chunks' = 1 .. n
          /\ DOMAIN chunks = 1 .. Len(chunks) /\ n \in Nat
          /\ \A k \in DOMAIN chunks : chunks'[k] = chunks[k]
          /\ chunks'[n] = d
        BY <1>1, <1>5, <2>3 DEF d
    <2>5. ChunkMade(n, start, size, type)
        BY <1>1, <1>2, <1>3, <2>3, <2>4 DEF ChunkMade
    <2>6. TakenFromNew(n, start, size, type, addr, length, counted)
        BY <1>4, <1>5, <2>1, <2>2, <2>3, <2>4 DEF TakenFromNew
    <2> QED BY <1>3, <2>2, <2>4, <2>5, <2>6
<1>6. CASE /\ chunks' = Append(chunks, c)
           /\ phase' = "failed"
           /\ UNCHANGED allocated
    <2> HIDE DEF c, start
    <2>1. /\ chunks' \in Seq(Chunks) /\ DOMAIN chunks' = 1 .. n
          /\ DOMAIN chunks = 1 .. Len(chunks) /\ n \in Nat
          /\ \A k \in DOMAIN chunks : chunks'[k] = chunks[k]
          /\ chunks'[n] = c
        BY <1>1, <1>4, <1>6
    <2>2. ChunkMade(n, start, size, type)
        BY <1>1, <1>2, <1>3, <1>4, <2>1 DEF ChunkMade
    <2>3. NoRoomInNew(n, start, size)
        BY <1>4, <1>6, <2>1 DEF NoRoomInNew
    <2> QED BY <1>3, <2>1, <2>2, <2>3
<1> QED BY <1>5, <1>6 DEF NewChunk

-----------------------------------------------------------------------------
(* Chunks never overlap. *)

\* No chunk begins before the end of the reserved area, none shares a unit with
\* another or with the space outside the chunks, and while the segments are scanned
\* they all lie below the next one.
ChunksApart ==
    /\ \A i \in DOMAIN chunks : chunks[i].start >= Reserved /\ Span(i) \cap space_list = {}
    /\ \A i, j \in DOMAIN chunks : i # j => Span(i) \cap Span(j) = {}
    /\ phase = "scan" =>
          \A i \in DOMAIN chunks : chunks[i].start + chunks[i].length <= Base(seg)

\* The fields of a chunk have their types.
LEMMA ChunkFields ==
    ASSUME TypeOK, NEW i \in DOMAIN chunks
    PROVE  /\ chunks[i] \in Chunks
           /\ chunks[i].start \in Nat /\ chunks[i].length \in Nat /\ chunks[i].used \in Nat
           /\ chunks[i].free \in SUBSET Nat
           /\ i \in Nat
<1>1. chunks \in Seq(Chunks)
    BY DEF TypeOK
<1>2. chunks[i] \in Chunks /\ i \in Nat
    BY <1>1
<1> QED BY <1>2 DEF Chunks

\* The chunk of a segment lies in the segment, after the reserved area.
LEMMA SegmentChunkPlace ==
    ASSUME TypeOK, Base(seg) < DeviceSize
    PROVE  LET c == SegmentChunk(seg)
           IN  /\ c.start \in Nat /\ c.length \in Nat /\ c.type = "data" /\ c.used = 0
               /\ c.start >= Reserved /\ c.start >= Base(seg)
               /\ c.start + c.length = Base(seg) + ChunkLength(seg)
               /\ c.start = Base(seg) + Shift(seg)
               /\ c.length = ChunkLength(seg) - Shift(seg)
               /\ c.free = SpaceListRemove(Unused(seg), Base(seg), Shift(seg))
                              \ SuperSpace(Base(seg) + Shift(seg), ChunkLength(seg) - Shift(seg))
<1>1. seg \in Nat
    BY DEF TypeOK
<1>2. Base(seg) \in Nat /\ ChunkLength(seg) \in Nat /\ Shift(seg) \in Nat
      /\ Shift(seg) <= ChunkLength(seg)
    BY <1>1, BaseType, SegmentFacts, ChunkStart
<1>3. Base(seg) + Shift(seg) >= Reserved
    BY <1>2 DEF Shift
<1> QED BY <1>2, <1>3 DEF SegmentChunk, Chunk

\* A pass of the loop of create_data_chunks that makes a chunk.
LEMMA ScanSegmentShape ==
    ASSUME IInv, ScanSegment
    PROVE  /\ seg \in Nat /\ seg' = seg + 1 /\ Base(seg) < DeviceSize
           /\ Base(seg) \in Nat /\ Base(seg') = Base(seg) + DataChunkSize
           /\ phase = "scan" /\ allocated = {}
           /\ ChunkLength(seg) \in 1 .. SegLength(seg) /\ SegLength(seg) \in 1 .. DataChunkSize
           /\ UNCHANGED <<in_use, phase, allocated>>
           /\ \/ UsedClusters(seg) = {} /\ UNCHANGED <<space_list, chunks>>
              \/ /\ UsedClusters(seg) # {}
                 /\ space_list' = space_list \ Extent(Base(seg), ChunkLength(seg))
                 /\ chunks' \in Seq(Chunks)
                 /\ Len(chunks) \in Nat
                 /\ DOMAIN chunks = 1 .. Len(chunks) /\ DOMAIN chunks' = 1 .. Len(chunks) + 1
                 /\ \A k \in DOMAIN chunks : chunks'[k] = chunks[k]
                 /\ chunks'[Len(chunks) + 1] = SegmentChunk(seg)
<1>1. TypeOK /\ ScanProgress
    BY DEF IInv
<1>2. /\ seg \in Nat /\ seg' = seg + 1 /\ Base(seg) < DeviceSize
      /\ phase = "scan" /\ allocated = {} /\ UNCHANGED <<in_use, phase, allocated>>
    BY <1>1 DEF TypeOK, ScanProgress, ScanSegment
<1>3. /\ Base(seg) \in Nat /\ Base(seg') = Base(seg) + DataChunkSize
      /\ ChunkLength(seg) \in 1 .. SegLength(seg) /\ SegLength(seg) \in 1 .. DataChunkSize
    BY <1>2, BaseType, SegmentFacts
<1>4. CASE UsedClusters(seg) = {} /\ UNCHANGED <<space_list, chunks>>
    BY <1>2, <1>3, <1>4
<1>5. CASE /\ UsedClusters(seg) # {}
           /\ space_list' = SpaceListRemove(space_list, Base(seg), ChunkLength(seg))
           /\ chunks' = Append(chunks, SegmentChunk(seg))
    <2>1. chunks \in Seq(Chunks) /\ SegmentChunk(seg) \in Chunks
        BY <1>1, <1>2, SegmentChunkFacts DEF TypeOK
    <2>2. /\ chunks' \in Seq(Chunks) /\ Len(chunks) \in Nat
          /\ DOMAIN chunks = 1 .. Len(chunks) /\ DOMAIN chunks' = 1 .. Len(chunks) + 1
          /\ \A k \in DOMAIN chunks : chunks'[k] = chunks[k]
          /\ chunks'[Len(chunks) + 1] = SegmentChunk(seg)
        BY <1>5, <2>1
    <2> QED BY <1>2, <1>3, <1>5, <2>2 DEF SpaceListRemove
<1> QED BY <1>4, <1>5 DEF ScanSegment

\* A call of one of the two allocators, with what it is asked for in each phase.
AllocatorCall(type, size, length, counted) ==
    /\ type \in Types /\ size \in Nat /\ length \in Nat \ {0} /\ counted \in BOOLEAN
    /\ phase # "scan" /\ size >= SystemChunkSize
    /\ type = "data" => size = DataChunkSize
    /\ \/ phase = "protect" /\ type = "data" /\ length = ClusterSize
       \/ phase = "rewrite" /\ type = "data" /\ length \in DataLengths
       \/ phase = "trees" /\ type # "data"
    /\ Allocate(type, size, length, counted)

\* A step that leaves the chunks alone, and does not go back to an earlier phase.
ChunksKept ==
    /\ UNCHANGED <<in_use, seg, space_list, chunks, allocated>>
    /\ phase' = "scan" => phase = "scan"
    /\ phase' \in {"protect", "rewrite"} => phase \in {"scan", "protect", "rewrite"}

\* All steps but the passes over the segments and the calls of the two allocators
\* leave the chunks alone.
LEMMA NextCases ==
    ASSUME IInv, [Next]_vars
    PROVE  \/ ScanSegment
           \/ ChunksKept
           \/ \E type, size, length, counted : AllocatorCall(type, size, length, counted)
<1>0. /\ {"data", "metadata", "system"} = Types
      /\ DataChunkSize \in Nat /\ DataChunkSize >= SystemChunkSize
      /\ SystemChunkSize \in Nat /\ SystemChunkSize >= SystemChunkSize
      /\ "system" # "data" /\ "metadata" # "data"
      /\ ClusterSize \in Nat \ {0} /\ TreeSize \in Nat \ {0}
      /\ DataLengths \subseteq Nat \ {0}
    BY DEF Types
<1>1. CASE ScanSegment
    BY <1>1
<1>2. CASE NextPhase
    <2>1. ChunksKept
        BY <1>2 DEF NextPhase, ChunksKept
    <2> QED BY <2>1
<1>3. CASE phase = "protect" /\ AllocateData(ClusterSize, FALSE)
    <2>1. AllocatorCall("data", DataChunkSize, ClusterSize, FALSE)
        BY <1>0, <1>3 DEF AllocateData, AllocatorCall
    <2> QED BY <2>1
<1>4. CASE phase = "rewrite" /\ \E length \in DataLengths : AllocateData(length, TRUE)
    <2>1. PICK length \in DataLengths : AllocateData(length, TRUE)
        BY <1>4
    <2>2. AllocatorCall("data", DataChunkSize, length, TRUE)
        BY <1>0, <1>4, <2>1 DEF AllocateData, AllocatorCall
    <2> QED BY <2>2
<1>5. CASE phase = "trees" /\ \E system_chunk \in BOOLEAN : AllocateMetadata(system_chunk)
    <2>1. \/ Allocate("system", SystemChunkSize, TreeSize, TRUE)
          \/ Allocate("metadata", DataChunkSize, TreeSize, TRUE)
        BY <1>5 DEF AllocateMetadata
    <2>2. CASE Allocate("system", SystemChunkSize, TreeSize, TRUE)
        <3>1. AllocatorCall("system", SystemChunkSize, TreeSize, TRUE)
            BY <1>0, <1>5, <2>2 DEF AllocatorCall
        <3> QED BY <3>1
    <2>3. CASE Allocate("metadata", DataChunkSize, TreeSize, TRUE)
        <3>1. AllocatorCall("metadata", DataChunkSize, TreeSize, TRUE)
            BY <1>0, <1>5, <2>3 DEF AllocatorCall
        <3> QED BY <3>1
    <2> QED BY <2>1, <2>2, <2>3
<1>6. CASE UNCHANGED vars
    <2>1. ChunksKept
        BY <1>6 DEF vars, ChunksKept
    <2> QED BY <2>1
<1> QED BY <1>1, <1>2, <1>3, <1>4, <1>5, <1>6 DEF Next

LEMMA InitChunksApart == Init => ChunksApart
<1>1. Init => DOMAIN chunks = {}
    BY DEF Init
<1> QED BY <1>1 DEF ChunksApart

\* A pass over a segment puts its chunk behind all others.
LEMMA ScanSegmentApart ==
    ASSUME IInv, ChunksApart, ScanSegment
    PROVE  ChunksApart'
<1>1. TypeOK
    BY DEF IInv
<1>2. /\ seg \in Nat /\ seg' = seg + 1 /\ Base(seg) < DeviceSize
      /\ Base(seg) \in Nat /\ Base(seg') = Base(seg) + DataChunkSize
      /\ phase = "scan" /\ phase' = phase
      /\ ChunkLength(seg) \in 1 .. SegLength(seg) /\ SegLength(seg) \in 1 .. DataChunkSize
    BY ScanSegmentShape
<1>3. CASE UNCHANGED <<space_list, chunks>>
    <2>1. \A i \in DOMAIN chunks : chunks[i].start + chunks[i].length <= Base(seg')
        <3> SUFFICES ASSUME NEW i \in DOMAIN chunks
                     PROVE  chunks[i].start + chunks[i].length <= Base(seg')
            OBVIOUS
        <3>1. chunks[i].start \in Nat /\ chunks[i].length \in Nat
            BY <1>1, ChunkFields
        <3>2. chunks[i].start + chunks[i].length <= Base(seg)
            BY <1>2 DEF ChunksApart
        <3> QED BY <1>2, <3>1, <3>2
    <2> QED BY <1>3, <2>1 DEF ChunksApart, Span, Base
<1>4. CASE /\ space_list' = space_list \ Extent(Base(seg), ChunkLength(seg))
           /\ Len(chunks) \in Nat
           /\ DOMAIN chunks = 1 .. Len(chunks) /\ DOMAIN chunks' = 1 .. Len(chunks) + 1
           /\ \A k \in DOMAIN chunks : chunks'[k] = chunks[k]
           /\ chunks'[Len(chunks) + 1] = SegmentChunk(seg)
    <2> DEFINE n == Len(chunks) + 1
               first == SegmentChunk(seg).start
               size == SegmentChunk(seg).length
    <2>1. /\ first \in Nat /\ size \in Nat /\ first >= Reserved /\ first >= Base(seg)
          /\ first + size = Base(seg) + ChunkLength(seg)
        BY <1>1, <1>2, SegmentChunkPlace
    <2>2. chunks'[n].start = first /\ chunks'[n].length = size
        BY <1>4
    <2> HIDE DEF first, size
    <2>3. Extent(first, size) \subseteq Extent(Base(seg), ChunkLength(seg))
        BY <1>2, <2>1 DEF Extent
    <2>4. \A i \in DOMAIN chunks :
             /\ chunks'[i].start = chunks[i].start /\ chunks'[i].length = chunks[i].length
             /\ chunks[i].start \in Nat /\ chunks[i].length \in Nat
             /\ chunks[i].start + chunks[i].length <= Base(seg)
             /\ chunks[i].start >= Reserved
        BY <1>1, <1>2, <1>4, ChunkFields DEF ChunksApart
    <2>5. \A i \in DOMAIN chunks : Span(i) \cap Extent(first, size) = {}
        BY <1>2, <2>1, <2>4 DEF Span, Extent
    <2>6. \A i \in DOMAIN chunks' : i = n \/ i \in DOMAIN chunks
        BY <1>4
    <2>7. \A i \in DOMAIN chunks :
              Extent(chunks'[i].start, chunks'[i].length) = Span(i)
        BY <2>4 DEF Span
    <2>8. Extent(chunks'[n].start, chunks'[n].length) = Extent(first, size)
        BY <2>2
    <2>9. \A i \in DOMAIN chunks' :
              /\ chunks'[i].start >= Reserved
              /\ Extent(chunks'[i].start, chunks'[i].length) \cap space_list' = {}
        BY <1>4, <2>1, <2>2, <2>3, <2>4, <2>6, <2>7, <2>8 DEF ChunksApart
    <2>10. \A i, j \in DOMAIN chunks' : i # j =>
              Extent(chunks'[i].start, chunks'[i].length)
                \cap Extent(chunks'[j].start, chunks'[j].length) = {}
        BY <2>5, <2>6, <2>7, <2>8 DEF ChunksApart
    <2>11. \A i \in DOMAIN chunks' : chunks'[i].start + chunks'[i].length <= Base(seg')
        <3>1. \A i \in DOMAIN chunks : chunks'[i].start + chunks'[i].length <= Base(seg')
            <4> SUFFICES ASSUME NEW i \in DOMAIN chunks
                         PROVE  chunks'[i].start + chunks'[i].length <= Base(seg')
                OBVIOUS
            <4>1. /\ chunks'[i].start = chunks[i].start /\ chunks'[i].length = chunks[i].length
                  /\ chunks[i].start \in Nat /\ chunks[i].length \in Nat
                  /\ chunks[i].start + chunks[i].length <= Base(seg)
                BY <2>4
            <4> QED BY <1>2, <4>1
        <3>2. chunks'[n].start + chunks'[n].length <= Base(seg')
            BY <1>2, <2>1, <2>2
        <3> QED BY <2>6, <3>1, <3>2
    <2>12. (phase = "scan" =>
              \A i \in DOMAIN chunks : chunks[i].start + chunks[i].length <= Base(seg))'
        BY <2>11 DEF Base
    <2> QED BY <2>9, <2>10, <2>12 DEF ChunksApart, Span
<1> QED BY <1>3, <1>4, ScanSegmentShape

\* Taking space from a chunk moves no chunk; making one takes its space off the list.
LEMMA CallApart ==
    ASSUME IInv, ChunksApart,
           NEW type, NEW size, NEW length, NEW counted,
           AllocatorCall(type, size, length, counted)
    PROVE  ChunksApart'
<1>1. /\ TypeOK /\ space_list \subseteq Extent(Reserved, DeviceSize)
      /\ type \in Types /\ size \in Nat /\ size > 0 /\ length \in Nat \ {0}
      /\ counted \in BOOLEAN /\ phase # "scan"
    BY DEF IInv, ScanProgress, AllocatorCall
<1>2. CASE FromChunk(type, length, counted)
    <2>1. PICK i \in DOMAIN chunks, addr \in Nat : TakenFrom(i, addr, length, type, counted)
        BY <1>1, <1>2, FromChunkShape
    <2>2. /\ DOMAIN chunks' = DOMAIN chunks /\ space_list' = space_list /\ phase' = phase
          /\ \A k \in DOMAIN chunks : /\ chunks'[k].start = chunks[k].start
                                      /\ chunks'[k].length = chunks[k].length
        BY <2>1 DEF TakenFrom
    <2> QED BY <1>1, <2>2 DEF ChunksApart, Span
<1>3. CASE NewChunk(type, size, length, counted)
    <2>1. PICK n \in Nat, start \in Nat :
              /\ ChunkMade(n, start, size, type)
              /\ \/ \E addr \in Nat :
                       TakenFromNew(n, start, size, type, addr, length, counted)
                 \/ NoRoomInNew(n, start, size)
        BY <1>1, <1>3, NewChunkShape
    <2>2. phase' # "scan"
        BY <1>1, <2>1 DEF TakenFromNew, NoRoomInNew
    <2>3. /\ Extent(start, size) \subseteq space_list
          /\ space_list' = space_list \ Extent(start, size)
          /\ \A i \in DOMAIN chunks' : i = n \/ i \in DOMAIN chunks
          /\ \A i \in DOMAIN chunks : chunks'[i] = chunks[i]
          /\ chunks'[n].start = start /\ chunks'[n].length = size
        BY <2>1 DEF ChunkMade
    <2>4. start >= Reserved
        <3>1. start \in Extent(start, size)
            BY <1>1 DEF Extent
        <3> QED BY <1>1, <2>3, <3>1 DEF Extent
    <2> QED BY <2>2, <2>3, <2>4 DEF ChunksApart, Span
<1>4. CASE NoSpace(type, size, length)
    BY <1>1, <1>4 DEF NoSpace, ChunksApart, Span
<1> QED BY <1>2, <1>3, <1>4 DEF AllocatorCall, Allocate

LEMMA KeptApart ==
    ASSUME ChunksApart, ChunksKept
    PROVE  ChunksApart'
BY DEF ChunksApart, ChunksKept, Span, Base

LEMMA ChunksApartStep ==
    ASSUME IInv, ChunksApart, [Next]_vars
    PROVE  ChunksApart'
BY NextCases, ScanSegmentApart, CallApart, KeptApart

\* Chunks never share a unit with each other or with the space outside them, and none
\* touches the reserved area: what create_data_chunks and the two allocators hand to
\* new chunks is given once.
THEOREM ChunksNeverOverlap == Spec => []ChunksApart
<1>1. IInv /\ ChunksApart /\ [Next]_vars => ChunksApart'
    BY ChunksApartStep
<1> QED BY <1>1, Invariant, InitChunksApart, PTL DEF Spec

-----------------------------------------------------------------------------
(* What lies in a chunk.  On a device of whole stripes no gap in the used  *)
(* clusters passes the end of the chunk of its segment.                    *)

WholeStripes == DeviceSize % StripeLen = 0

SuperStripes == UNION {Extent(sb, StripeLen) : sb \in SuperAddrs}

\* What is free in a chunk lies in the chunk and clear of the superblocks.
FreeInside ==
    \A i \in DOMAIN chunks : /\ chunks[i].free \subseteq Span(i)
                             /\ chunks[i].free \cap SuperStripes = {}

\* What the superblocks do not take of an extent is clear of them.
LEMMA SuperblocksLeaveClear ==
    ASSUME NEW start \in Nat, NEW length \in Nat
    PROVE  (Extent(start, length) \ SuperSpace(start, length)) \cap SuperStripes = {}
BY DEF SuperSpace, SuperStripes

\* On a device of whole stripes the last segment is a whole number of stripes.
LEMMA WholeSegments ==
    ASSUME WholeStripes, NEW s \in Nat, Base(s) < DeviceSize
    PROVE  ChunkLength(s) = SegLength(s)
<1>1. CASE SegLength(s) = DataChunkSize
    BY <1>1, SegmentFacts
<1>2. CASE SegLength(s) < DataChunkSize
    <2>1. SegLength(s) = DeviceSize - s * DataChunkSize
        BY <1>2, SegmentFacts, BaseType DEF Base
    <2>2. DataChunkSize % StripeLen = 0 /\ DataChunkSize \in Nat /\ StripeLen \in Nat \ {0}
        OBVIOUS
    <2>3. PICK q \in Int : DataChunkSize = q * StripeLen
        BY <2>2, Quotient
    <2>4. PICK d \in Int : DeviceSize = d * StripeLen
        BY <2>2, Quotient DEF WholeStripes
    <2>5. SegLength(s) = (d - s * q) * StripeLen
        BY <2>1, <2>3, <2>4
    <2>6. SegLength(s) % StripeLen = 0
        BY <2>2, <2>5
    <2>7. SegLength(s) \in Int
        BY SegmentFacts
    <2> QED BY <2>6, <2>7 DEF ChunkLength
<1> QED BY <1>1, <1>2, SegmentFacts

LEMMA InitFreeInside == Init => FreeInside
<1>1. Init => DOMAIN chunks = {}
    BY DEF Init
<1> QED BY <1>1 DEF FreeInside

LEMMA ScanSegmentFreeInside ==
    ASSUME WholeStripes, IInv, FreeInside, ScanSegment
    PROVE  FreeInside'
<1>1. TypeOK
    BY DEF IInv
<1>2. /\ seg \in Nat /\ Base(seg) < DeviceSize /\ Base(seg) \in Nat
      /\ ChunkLength(seg) = SegLength(seg) /\ SegLength(seg) \in Nat
    BY ScanSegmentShape, WholeSegments
<1>3. CASE UNCHANGED chunks
    BY <1>3 DEF FreeInside, Span
<1>4. CASE /\ DOMAIN chunks = 1 .. Len(chunks) /\ DOMAIN chunks' = 1 .. Len(chunks) + 1
           /\ \A k \in DOMAIN chunks : chunks'[k] = chunks[k]
           /\ chunks'[Len(chunks) + 1] = SegmentChunk(seg)
    <2> DEFINE n == Len(chunks) + 1
               c == SegmentChunk(seg)
    <2>1. /\ c.start \in Nat /\ c.length \in Nat
          /\ c.start + c.length = Base(seg) + SegLength(seg)
          /\ c.start = Base(seg) + Shift(seg) /\ Shift(seg) \in Nat
          /\ c.free = (Unused(seg) \ Extent(Base(seg), Shift(seg)))
                        \ SuperSpace(c.start, c.length)
        BY <1>1, <1>2, SegmentChunkPlace, ChunkStart DEF SpaceListRemove
    <2>2. Unused(seg) \subseteq Base(seg) .. (Base(seg) + SegLength(seg) - 1)
        BY <1>2, UnusedFacts
    <2> HIDE DEF c
    <2>3. Unused(seg) \ Extent(Base(seg), Shift(seg)) \subseteq Extent(c.start, c.length)
        BY <1>2, <2>1, <2>2 DEF Extent
    <2>4. c.free \subseteq Extent(c.start, c.length) \ SuperSpace(c.start, c.length)
        BY <2>1, <2>3
    <2>5. c.free \cap SuperStripes = {}
        BY <2>1, <2>4, SuperblocksLeaveClear
    <2>6. \A i \in DOMAIN chunks' : i = n \/ i \in DOMAIN chunks
        BY <1>4
    <2>7. chunks'[n] = c
        BY <1>4 DEF c
    <2> QED BY <1>4, <2>4, <2>5, <2>6, <2>7 DEF FreeInside, Span
<1> QED BY <1>3, <1>4, ScanSegmentShape

\* What a call of an allocator does.
LEMMA CallShape ==
    ASSUME IInv, NEW type, NEW size, NEW length, NEW counted,
           AllocatorCall(type, size, length, counted)
    PROVE  /\ type \in Types /\ size \in Nat /\ length \in Nat \ {0} /\ counted \in BOOLEAN
           /\ phase # "scan" /\ size > 0
           /\ type = "data" => size = DataChunkSize
           /\ \/ \E i \in DOMAIN chunks, addr \in Nat :
                    TakenFrom(i, addr, length, type, counted)
              \/ \E n \in Nat, start \in Nat :
                    /\ ChunkMade(n, start, size, type)
                    /\ \/ \E addr \in Nat :
                             TakenFromNew(n, start, size, type, addr, length, counted)
                       \/ NoRoomInNew(n, start, size)
              \/ ChunksKept
<1>1. /\ TypeOK /\ type \in Types /\ size \in Nat /\ length \in Nat \ {0}
      /\ counted \in BOOLEAN /\ phase # "scan" /\ size > 0
      /\ type = "data" => size = DataChunkSize
    BY DEF IInv, AllocatorCall
<1>2. CASE FromChunk(type, length, counted)
    BY <1>1, <1>2, FromChunkShape
<1>3. CASE NewChunk(type, size, length, counted)
    BY <1>1, <1>3, NewChunkShape
<1>4. CASE NoSpace(type, size, length)
    <2>1. ChunksKept
        BY <1>4 DEF NoSpace, ChunksKept
    <2> QED BY <1>1, <2>1
<1> QED BY <1>2, <1>3, <1>4 DEF AllocatorCall, Allocate

LEMMA CallFreeInside ==
    ASSUME IInv, FreeInside, NEW type, NEW size, NEW length, NEW counted,
           AllocatorCall(type, size, length, counted)
    PROVE  FreeInside'
<1>1. CASE \E i \in DOMAIN chunks, addr \in Nat : TakenFrom(i, addr, length, type, counted)
    <2>1. PICK i \in DOMAIN chunks, addr \in Nat : TakenFrom(i, addr, length, type, counted)
        BY <1>1
    <2>2. /\ DOMAIN chunks' = DOMAIN chunks
          /\ \A k \in DOMAIN chunks :
                /\ chunks'[k].start = chunks[k].start /\ chunks'[k].length = chunks[k].length
                /\ chunks'[k].free \subseteq chunks[k].free
        BY <2>1 DEF TakenFrom
    <2> QED BY <2>2 DEF FreeInside, Span
<1>2. ASSUME NEW n \in Nat, NEW start \in Nat, ChunkMade(n, start, size, type),
             \/ \E addr \in Nat : TakenFromNew(n, start, size, type, addr, length, counted)
             \/ NoRoomInNew(n, start, size)
      PROVE  FreeInside'
    <2>1. chunks'[n].free \subseteq Extent(start, size) \ SuperSpace(start, size)
        BY <1>2 DEF TakenFromNew, NoRoomInNew
    <2>2. chunks'[n].free \cap SuperStripes = {}
        BY <2>1, CallShape, SuperblocksLeaveClear
    <2>3. /\ \A i \in DOMAIN chunks' : i = n \/ i \in DOMAIN chunks
          /\ \A i \in DOMAIN chunks : chunks'[i] = chunks[i]
          /\ chunks'[n].start = start /\ chunks'[n].length = size
        BY <1>2 DEF ChunkMade
    <2> QED BY <2>1, <2>2, <2>3 DEF FreeInside, Span
<1>3. CASE ChunksKept
    BY <1>3 DEF ChunksKept, FreeInside, Span
<1> QED BY <1>1, <1>2, <1>3, CallShape

LEMMA FreeInsideStep ==
    ASSUME WholeStripes, IInv, FreeInside, [Next]_vars
    PROVE  FreeInside'
<1>1. CASE ChunksKept
    BY <1>1 DEF ChunksKept, FreeInside, Span
<1> QED BY <1>1, NextCases, ScanSegmentFreeInside, CallFreeInside

-----------------------------------------------------------------------------
(* Where an allocation goes, and what a chunk counts. *)

\* Chunks stay where they are made.
ChunksStay ==
    \A i \in DOMAIN chunks :
        /\ i \in DOMAIN chunks'
        /\ chunks'[i].start = chunks[i].start
        /\ chunks'[i].length = chunks[i].length
        /\ chunks'[i].type = chunks[i].type

\* A call allocates nothing, or space of a chunk of the type asked for, which begins
\* after the reserved area, clear of the superblocks.
LEMMA CallGrants ==
    ASSUME IInv, ChunksApart, FreeInside, NEW type, NEW size, NEW length, NEW counted,
           AllocatorCall(type, size, length, counted)
    PROVE  /\ ChunksStay
           /\ \/ allocated' = allocated
              \/ \E i \in DOMAIN chunks', addr \in Nat :
                    /\ allocated' = allocated \cup {Allocation(addr, length, type, counted)}
                    /\ chunks'[i].type = type /\ chunks'[i].start >= Reserved
                    /\ chunks'[i].start \in Nat
                    /\ Extent(addr, length)
                         \subseteq Extent(chunks'[i].start, chunks'[i].length) \ SuperStripes
<1>1. TypeOK /\ ChunksApart'
    BY CallApart DEF IInv
<1>2. ASSUME NEW i \in DOMAIN chunks, NEW addr \in Nat, TakenFrom(i, addr, length, type, counted)
      PROVE  /\ ChunksStay
             /\ i \in DOMAIN chunks'
             /\ allocated' = allocated \cup {Allocation(addr, length, type, counted)}
             /\ chunks'[i].type = type /\ chunks'[i].start >= Reserved
             /\ chunks'[i].start \in Nat
             /\ Extent(addr, length)
                  \subseteq Extent(chunks'[i].start, chunks'[i].length) \ SuperStripes
    <2>1. /\ Extent(addr, length) \subseteq chunks[i].free
          /\ DOMAIN chunks' = DOMAIN chunks
          /\ \A k \in DOMAIN chunks :
                /\ chunks'[k].start = chunks[k].start /\ chunks'[k].length = chunks[k].length
                /\ chunks'[k].type = chunks[k].type
          /\ chunks[i].type = type
          /\ allocated' = allocated \cup {Allocation(addr, length, type, counted)}
        BY <1>2 DEF TakenFrom
    <2>2. chunks[i].free \subseteq Span(i) \ SuperStripes
        BY DEF FreeInside
    <2>3. chunks[i].start \in Nat /\ chunks[i].start >= Reserved
        BY <1>1, ChunkFields DEF ChunksApart
    <2> QED BY <2>1, <2>2, <2>3 DEF ChunksStay, Span
<1>3. ASSUME NEW n \in Nat, NEW start \in Nat, ChunkMade(n, start, size, type)
      PROVE  /\ ChunksStay /\ n \in DOMAIN chunks'
             /\ chunks'[n].type = type /\ chunks'[n].start >= Reserved
             /\ chunks'[n].start = start /\ chunks'[n].length = size
    <2>1. /\ DOMAIN chunks = 1 .. Len(chunks) /\ DOMAIN chunks' = 1 .. n /\ n = Len(chunks) + 1
          /\ \A k \in DOMAIN chunks : chunks'[k] = chunks[k]
          /\ chunks'[n].start = start /\ chunks'[n].length = size /\ chunks'[n].type = type
        BY <1>3 DEF ChunkMade
    <2>2. n \in DOMAIN chunks' /\ \A k \in DOMAIN chunks : k \in DOMAIN chunks'
        BY <1>3, <2>1
    <2> QED BY <1>1, <2>1, <2>2 DEF ChunksStay, ChunksApart
<1>4. ASSUME NEW n \in Nat, NEW start \in Nat, ChunkMade(n, start, size, type),
             NEW addr \in Nat, TakenFromNew(n, start, size, type, addr, length, counted)
      PROVE  /\ allocated' = allocated \cup {Allocation(addr, length, type, counted)}
             /\ Extent(addr, length)
                  \subseteq Extent(chunks'[n].start, chunks'[n].length) \ SuperStripes
    <2>1. /\ Extent(addr, length) \subseteq Extent(start, size) \ SuperSpace(start, size)
          /\ allocated' = allocated \cup {Allocation(addr, length, type, counted)}
        BY <1>4 DEF TakenFromNew
    <2>2. size \in Nat
        BY CallShape
    <2> QED BY <1>3, <1>4, <2>1, <2>2, SuperblocksLeaveClear
<1>5. CASE \E i \in DOMAIN chunks, addr \in Nat : TakenFrom(i, addr, length, type, counted)
    BY <1>2, <1>5
<1>6. ASSUME NEW n \in Nat, NEW start \in Nat, ChunkMade(n, start, size, type),
             \E addr \in Nat : TakenFromNew(n, start, size, type, addr, length, counted)
      PROVE  /\ ChunksStay
             /\ \E i \in DOMAIN chunks', addr \in Nat :
                    /\ allocated' = allocated \cup {Allocation(addr, length, type, counted)}
                    /\ chunks'[i].type = type /\ chunks'[i].start >= Reserved
                    /\ chunks'[i].start \in Nat
                    /\ Extent(addr, length)
                         \subseteq Extent(chunks'[i].start, chunks'[i].length) \ SuperStripes
    BY <1>3, <1>4, <1>6
<1>7. ASSUME NEW n \in Nat, NEW start \in Nat, ChunkMade(n, start, size, type),
             NoRoomInNew(n, start, size)
      PROVE  ChunksStay /\ allocated' = allocated
    BY <1>3, <1>7 DEF NoRoomInNew
<1>8. CASE ChunksKept
    BY <1>8 DEF ChunksKept, ChunksStay
<1> QED BY <1>5, <1>6, <1>7, <1>8, CallShape

LEMMA CallAvoidsSuperblocks ==
    ASSUME IInv, ChunksApart, FreeInside, AvoidsSuperblocks,
           NEW type, NEW size, NEW length, NEW counted,
           AllocatorCall(type, size, length, counted)
    PROVE  AvoidsSuperblocks'
<1>1. CASE allocated' = allocated
    BY <1>1 DEF AvoidsSuperblocks, Granted
<1>2. ASSUME NEW i \in DOMAIN chunks', NEW addr \in Nat,
             allocated' = allocated \cup {Allocation(addr, length, type, counted)},
             chunks'[i].start >= Reserved, chunks'[i].start \in Nat,
             Extent(addr, length)
               \subseteq Extent(chunks'[i].start, chunks'[i].length) \ SuperStripes
      PROVE  AvoidsSuperblocks'
    <2>1. type \in Types /\ length \in Nat \ {0} /\ counted \in BOOLEAN
        BY CallShape
    <2>2. Granted' = Granted \cup Extent(addr, length)
        BY <1>2, <2>1, GrantedGrows, AllocationType
    <2>3. SuperSpace(0, DeviceSize) \subseteq SuperStripes
        BY DEF SuperSpace, SuperStripes
    <2>4. Extent(chunks'[i].start, chunks'[i].length) \cap Extent(0, Reserved) = {}
        BY <1>2 DEF Extent
    <2> QED BY <1>2, <2>2, <2>3, <2>4 DEF AvoidsSuperblocks
<1> QED BY <1>1, <1>2, CallGrants

LEMMA CallInsideChunk ==
    ASSUME IInv, ChunksApart, FreeInside, InsideChunk,
           NEW type, NEW size, NEW length, NEW counted,
           AllocatorCall(type, size, length, counted)
    PROVE  InsideChunk'
<1>1. ChunksStay
    BY CallGrants
<1>2. \A a \in allocated : \E i \in DOMAIN chunks' :
          /\ chunks'[i].type = a.type
          /\ Extent(a.addr, a.length) \subseteq Extent(chunks'[i].start, chunks'[i].length)
    BY <1>1 DEF ChunksStay, InsideChunk
<1>3. CASE allocated' = allocated
    BY <1>2, <1>3 DEF InsideChunk
<1>4. ASSUME NEW i \in DOMAIN chunks', NEW addr \in Nat,
             allocated' = allocated \cup {Allocation(addr, length, type, counted)},
             chunks'[i].type = type,
             Extent(addr, length)
               \subseteq Extent(chunks'[i].start, chunks'[i].length) \ SuperStripes
      PROVE  InsideChunk'
    <2> DEFINE new == Allocation(addr, length, type, counted)
    <2>1. new.addr = addr /\ new.length = length /\ new.type = type
        BY DEF Allocation
    <2> HIDE DEF new
    <2>2. \A a \in allocated' : a \in allocated \/ a = new
        BY <1>4 DEF new
    <2> QED BY <1>2, <1>4, <2>1, <2>2 DEF InsideChunk
<1> QED BY <1>3, <1>4, CallGrants

-----------------------------------------------------------------------------
(* What a chunk counts. *)

CountedIn(i) == Cardinality(Counted \cap Span(i))

LEMMA CountedGrows ==
    ASSUME NEW addr \in Nat, NEW length \in Nat \ {0}, NEW type, NEW counted \in BOOLEAN,
           allocated' = allocated \cup {Allocation(addr, length, type, counted)}
    PROVE  Counted' = IF counted THEN Counted \cup Extent(addr, length) ELSE Counted
<1> DEFINE new == Allocation(addr, length, type, counted)
<1>1. new.addr = addr /\ new.length = length /\ new.counted = counted
    BY DEF Allocation
<1> HIDE DEF new
<1>2. allocated' = allocated \cup {new}
    BY DEF new
<1>3. CASE counted
    <2>1. {b \in allocated' : b.counted} = {b \in allocated : b.counted} \cup {new}
        BY <1>1, <1>2, <1>3
    <2> DEFINE X == {b \in allocated : b.counted}
    <2>2. UNION {Extent(a.addr, a.length) : a \in X \cup {new}}
            = (UNION {Extent(a.addr, a.length) : a \in X}) \cup Extent(new.addr, new.length)
        <3> HIDE DEF X
        <3> QED OBVIOUS
    <2>3. Counted' = UNION {Extent(a.addr, a.length) : a \in X \cup {new}}
        BY <2>1 DEF Counted
    <2>4. Counted = UNION {Extent(a.addr, a.length) : a \in X}
        BY DEF Counted
    <2> HIDE DEF X
    <2> QED BY <1>1, <1>3, <2>2, <2>3, <2>4
<1>4. CASE ~ counted
    <2>1. {b \in allocated' : b.counted} = {b \in allocated : b.counted}
        BY <1>1, <1>2, <1>4
    <2> QED BY <1>4, <2>1 DEF Counted
<1> QED BY <1>3, <1>4

LEMMA ExtentSize ==
    ASSUME NEW addr \in Nat, NEW length \in Nat
    PROVE  IsFiniteSet(Extent(addr, length)) /\ Cardinality(Extent(addr, length)) = length
BY FS_Interval DEF Extent

\* What joins a part of a set that it has nothing in common with.
LEMMA CountMore ==
    ASSUME NEW S, IsFiniteSet(S), NEW E \in SUBSET S, NEW A, A \cap E = {}
    PROVE  Cardinality((A \cup E) \cap S) = Cardinality(A \cap S) + Cardinality(E)
<1>1. IsFiniteSet(E) /\ IsFiniteSet(A \cap S)
    BY FS_Subset
<1>2. (A \cup E) \cap S = (A \cap S) \cup E /\ (A \cap S) \cap E = {}
    OBVIOUS
<1>3. Cardinality((A \cap S) \cup E) = Cardinality(A \cap S) + Cardinality(E) - Cardinality({})
    BY <1>1, <1>2, FS_Union
<1>4. Cardinality({}) = 0 /\ Cardinality(A \cap S) \in Nat /\ Cardinality(E) \in Nat
    BY <1>1, FS_EmptySet, FS_CardinalityType
<1>5. Cardinality((A \cap S) \cup E) = Cardinality(A \cap S) + Cardinality(E)
    BY <1>3, <1>4
<1> QED BY <1>2, <1>5, Zenon

\* While the segments are scanned nothing is counted.
LEMMA ScanSegmentUsedMatches ==
    ASSUME IInv, UsedMatches, ScanSegment
    PROVE  UsedMatches'
<1>1. TypeOK /\ allocated = {} /\ allocated' = allocated /\ Base(seg) < DeviceSize
    BY ScanSegmentShape DEF IInv
<1>2. Counted = {} /\ Counted' = {}
    BY <1>1 DEF Counted
<1>3. \A S : Cardinality(Counted \cap S) = 0 /\ Cardinality(Counted' \cap S) = 0
    BY <1>2, FS_EmptySet
<1>4. \A i \in DOMAIN chunks : chunks[i].used = 0
    BY <1>3 DEF UsedMatches
<1>5. \A i \in DOMAIN chunks' : chunks'[i].used = 0
    <2>1. CASE UNCHANGED chunks
        BY <1>4, <2>1
    <2>2. CASE /\ DOMAIN chunks = 1 .. Len(chunks) /\ DOMAIN chunks' = 1 .. Len(chunks) + 1
               /\ Len(chunks) \in Nat
               /\ \A k \in DOMAIN chunks : chunks'[k] = chunks[k]
               /\ chunks'[Len(chunks) + 1] = SegmentChunk(seg)
        <3>1. SegmentChunk(seg).used = 0
            BY <1>1, SegmentChunkPlace
        <3>2. \A i \in DOMAIN chunks' : i \in DOMAIN chunks \/ i = Len(chunks) + 1
            BY <2>2
        <3> QED BY <1>4, <2>2, <3>1, <3>2
    <2> QED BY <2>1, <2>2, ScanSegmentShape
<1> QED BY <1>3, <1>5 DEF UsedMatches

\* Space taken from a chunk was counted in none; it is counted in that chunk alone.
LEMMA TakenUsedMatches ==
    ASSUME IInv, ChunksApart, FreeInside, UsedMatches,
           NEW type \in Types, NEW length \in Nat \ {0}, NEW counted \in BOOLEAN,
           NEW i \in DOMAIN chunks, NEW addr \in Nat,
           TakenFrom(i, addr, length, type, counted)
    PROVE  UsedMatches'
<1> DEFINE E == Extent(addr, length)
<1>1. TypeOK /\ FreeApart
    BY DEF IInv
<1>2. /\ E \subseteq chunks[i].free
      /\ DOMAIN chunks' = DOMAIN chunks
      /\ \A k \in DOMAIN chunks :
            chunks'[k].start = chunks[k].start /\ chunks'[k].length = chunks[k].length
      /\ \A k \in DOMAIN chunks : k # i => chunks'[k] = chunks[k]
      /\ chunks'[i].used = chunks[i].used + (IF counted THEN length ELSE 0)
      /\ allocated' = allocated \cup {Allocation(addr, length, type, counted)}
    BY DEF TakenFrom
<1>3. Counted' = IF counted THEN Counted \cup E ELSE Counted
    BY <1>2, CountedGrows
<1>4. Counted \subseteq Granted
    BY DEF Counted, Granted
<1>5. E \subseteq Span(i) /\ Counted \cap E = {}
    BY <1>1, <1>2, <1>4 DEF FreeInside, FreeApart
<1> HIDE DEF E
<1>6. \A k \in DOMAIN chunks : chunks[k].used = CountedIn(k)
    BY DEF UsedMatches, CountedIn, Span
<1>7. SUFFICES ASSUME NEW k \in DOMAIN chunks
               PROVE  chunks'[k].used = Cardinality(Counted' \cap Span(k))
    BY <1>2 DEF UsedMatches, Span
<1>8. CASE k # i
    <2>1. Span(k) \cap E = {}
        BY <1>5, <1>8 DEF ChunksApart
    <2>2. Counted' \cap Span(k) = Counted \cap Span(k)
        BY <1>3, <2>1
    <2> QED BY <1>2, <1>6, <1>8, <2>2 DEF CountedIn
<1>9. CASE k = i /\ counted
    <2>1. chunks[i].start \in Nat /\ chunks[i].length \in Nat
        BY <1>1, ChunkFields
    <2>2. IsFiniteSet(Span(i)) /\ Cardinality(E) = length
        BY <2>1, ExtentSize DEF Span, E
    <2>3. Cardinality((Counted \cup E) \cap Span(i)) = CountedIn(i) + length
        BY <1>5, <2>2, CountMore DEF CountedIn
    <2> QED BY <1>2, <1>3, <1>6, <1>9, <2>3
<1>10. CASE k = i /\ ~ counted
    <2>1. chunks[i].used \in Nat
        BY <1>1, ChunkFields
    <2> QED BY <1>2, <1>3, <1>6, <1>10, <2>1 DEF CountedIn
<1> QED BY <1>8, <1>9, <1>10

\* Nothing was allocated where a new chunk is made.
LEMMA MadeUsedMatches ==
    ASSUME IInv, ChunksApart, InsideChunk, UsedMatches,
           NEW type \in Types, NEW size \in Nat, NEW length \in Nat \ {0},
           NEW counted \in BOOLEAN,
           NEW n \in Nat, NEW start \in Nat, ChunkMade(n, start, size, type),
           \/ \E addr \in Nat : TakenFromNew(n, start, size, type, addr, length, counted)
           \/ NoRoomInNew(n, start, size)
    PROVE  UsedMatches'
<1> DEFINE S == Extent(start, size)
<1>1. /\ S \subseteq space_list
      /\ \A k \in DOMAIN chunks' : k = n \/ k \in DOMAIN chunks
      /\ \A k \in DOMAIN chunks : chunks'[k] = chunks[k]
      /\ chunks'[n].start = start /\ chunks'[n].length = size
    BY DEF ChunkMade
<1>2. Counted \subseteq Granted
    BY DEF Counted, Granted
<1>3. Granted \cap S = {}
    <2> SUFFICES ASSUME NEW a \in allocated PROVE Extent(a.addr, a.length) \cap S = {}
        BY DEF Granted
    <2>1. PICK k \in DOMAIN chunks : Extent(a.addr, a.length) \subseteq Span(k)
        BY DEF InsideChunk, Span
    <2> QED BY <1>1, <2>1 DEF ChunksApart
<1> HIDE DEF S
<1>4. Cardinality(Counted \cap S) = 0
    <2>1. Counted \cap S = {}
        BY <1>2, <1>3
    <2> QED BY <2>1, FS_EmptySet
<1>5. \A k \in DOMAIN chunks : chunks[k].used = CountedIn(k)
    BY DEF UsedMatches, CountedIn, Span
<1>6. ASSUME \A k \in DOMAIN chunks : Counted' \cap Span(k) = Counted \cap Span(k),
             chunks'[n].used = Cardinality(Counted' \cap S)
      PROVE  UsedMatches'
    <2>1. \A k \in DOMAIN chunks :
             chunks'[k].used
               = Cardinality(Counted' \cap Extent(chunks'[k].start, chunks'[k].length))
        BY <1>1, <1>5, <1>6 DEF CountedIn, Span
    <2>2. chunks'[n].used
            = Cardinality(Counted' \cap Extent(chunks'[n].start, chunks'[n].length))
        BY <1>1, <1>6 DEF S
    <2> QED BY <1>1, <2>1, <2>2 DEF UsedMatches
<1>7. CASE NoRoomInNew(n, start, size)
    <2>1. Counted' = Counted /\ chunks'[n].used = 0
        BY <1>7 DEF NoRoomInNew, Counted
    <2> QED BY <1>4, <1>6, <2>1
<1>8. CASE \E addr \in Nat : TakenFromNew(n, start, size, type, addr, length, counted)
    <2>1. PICK addr \in Nat : TakenFromNew(n, start, size, type, addr, length, counted)
        BY <1>8
    <2> DEFINE E == Extent(addr, length)
    <2>2. /\ E \subseteq S
          /\ chunks'[n].used = (IF counted THEN length ELSE 0)
          /\ allocated' = allocated \cup {Allocation(addr, length, type, counted)}
        BY <2>1 DEF TakenFromNew, S
    <2>3. Counted' = IF counted THEN Counted \cup E ELSE Counted
        BY <2>2, CountedGrows
    <2> HIDE DEF E
    <2>4. \A k \in DOMAIN chunks : Span(k) \cap E = {}
        BY <1>1, <2>2 DEF ChunksApart
    <2>5. \A k \in DOMAIN chunks : Counted' \cap Span(k) = Counted \cap Span(k)
        BY <2>3, <2>4
    <2>6. CASE counted
        <3>1. Counted \cap E = {}
            BY <1>2, <1>3, <2>2
        <3>2. IsFiniteSet(S) /\ Cardinality(E) = length
            BY ExtentSize DEF S, E
        <3>3. Cardinality((Counted \cup E) \cap S) = Cardinality(Counted \cap S) + length
            BY <2>2, <3>1, <3>2, CountMore
        <3> QED BY <1>4, <1>6, <2>2, <2>3, <2>5, <2>6, <3>3
    <2>7. CASE ~ counted
        BY <1>4, <1>6, <2>2, <2>3, <2>5, <2>7
    <2> QED BY <2>6, <2>7
<1> QED BY <1>7, <1>8

-----------------------------------------------------------------------------
(* The theorems, for every device of whole stripes.                        *)

\* The four parts need each other: where a new chunk is made nothing was allocated,
\* because allocations are in chunks and the chunks are apart; and what is taken from
\* a chunk lies in it because what is free in it does.
GeometryInv == IInv /\ ChunksApart /\ FreeInside
                 /\ AvoidsSuperblocks /\ InsideChunk /\ UsedMatches

LEMMA InitGeometry == Init => GeometryInv
<1>1. Init => DOMAIN chunks = {} /\ allocated = {}
    BY DEF Init
<1>2. Init => AvoidsSuperblocks /\ InsideChunk /\ UsedMatches
    BY <1>1 DEF AvoidsSuperblocks, InsideChunk, UsedMatches, Granted
<1> QED BY <1>2, InitIInv, InitChunksApart, InitFreeInside DEF GeometryInv

\* A pass over a segment, a call of an allocator and what leaves the chunks alone.
LEMMA GeometryCases ==
    ASSUME WholeStripes, GeometryInv, IInv',
           \/ ScanSegment
           \/ ChunksKept
           \/ \E type, size, length, counted : AllocatorCall(type, size, length, counted)
    PROVE  GeometryInv'
<1>1. IInv /\ ChunksApart /\ FreeInside /\ AvoidsSuperblocks /\ InsideChunk /\ UsedMatches
    BY DEF GeometryInv
<1>2. CASE ScanSegment
    <2>1. allocated' = {}
        BY <1>1, <1>2, ScanSegmentShape
    <2>2. AvoidsSuperblocks' /\ InsideChunk'
        BY <2>1 DEF AvoidsSuperblocks, InsideChunk, Granted
    <2>3. ChunksApart' /\ FreeInside' /\ UsedMatches'
        BY <1>1, <1>2, ScanSegmentApart, ScanSegmentFreeInside, ScanSegmentUsedMatches
    <2> QED BY <2>2, <2>3 DEF GeometryInv
<1>3. CASE ChunksKept
    <2>1. AvoidsSuperblocks' /\ InsideChunk' /\ UsedMatches' /\ FreeInside'
        BY <1>1, <1>3
        DEF ChunksKept, AvoidsSuperblocks, InsideChunk, UsedMatches, Granted, Counted,
            FreeInside, Span
    <2>2. ChunksApart'
        BY <1>1, <1>3, KeptApart
    <2> QED BY <2>1, <2>2 DEF GeometryInv
<1>4. ASSUME NEW type, NEW size, NEW length, NEW counted,
             AllocatorCall(type, size, length, counted)
      PROVE  GeometryInv'
    <2>1. ChunksApart' /\ FreeInside' /\ AvoidsSuperblocks' /\ InsideChunk'
        BY <1>1, <1>4, CallApart, CallFreeInside, CallAvoidsSuperblocks, CallInsideChunk
    <2>2. /\ type \in Types /\ size \in Nat /\ length \in Nat \ {0} /\ counted \in BOOLEAN
          /\ \/ \E i \in DOMAIN chunks, addr \in Nat :
                   TakenFrom(i, addr, length, type, counted)
             \/ \E n \in Nat, start \in Nat :
                   /\ ChunkMade(n, start, size, type)
                   /\ \/ \E addr \in Nat :
                            TakenFromNew(n, start, size, type, addr, length, counted)
                      \/ NoRoomInNew(n, start, size)
             \/ ChunksKept
        BY <1>1, <1>4, CallShape
    <2>3. UsedMatches'
        <3>1. CASE ChunksKept
            BY <1>1, <3>1 DEF ChunksKept, UsedMatches, Counted
        <3> QED BY <1>1, <2>2, <3>1, TakenUsedMatches, MadeUsedMatches
    <2> QED BY <2>1, <2>3 DEF GeometryInv
<1> QED BY <1>2, <1>3, <1>4

LEMMA GeometryStep ==
    ASSUME WholeStripes, GeometryInv, [Next]_vars
    PROVE  GeometryInv'
<1>1. IInv
    BY DEF GeometryInv
<1>2. IInv'
    BY <1>1, NextIInv
<1> QED BY <1>1, <1>2, NextCases, GeometryCases

THEOREM GeometryInvariant ==
    ASSUME WholeStripes
    PROVE  Spec => []GeometryInv
<1>1. GeometryInv /\ [Next]_vars => GeometryInv'
    BY GeometryStep
<1> QED BY <1>1, InitGeometry, PTL DEF Spec

\* Nothing is ever allocated in the first megabyte or over a superblock, which are
\* written over when all else is in place.
THEOREM SuperblocksAvoided ==
    ASSUME WholeStripes
    PROVE  Spec => []AvoidsSuperblocks
<1>1. GeometryInv => AvoidsSuperblocks
    BY DEF GeometryInv
<1> QED BY <1>1, GeometryInvariant, PTL

\* Every allocation lies in one chunk of the type asked for.
THEOREM AllocationsInsideChunks ==
    ASSUME WholeStripes
    PROVE  Spec => []InsideChunk
<1>1. GeometryInv => InsideChunk
    BY DEF GeometryInv
<1> QED BY <1>1, GeometryInvariant, PTL

\* What a chunk says is used is what was allocated from it for files and trees.
THEOREM ChunksCountWhatTheyHold ==
    ASSUME WholeStripes
    PROVE  Spec => []UsedMatches
<1>1. GeometryInv => UsedMatches
    BY DEF GeometryInv
<1> QED BY <1>1, GeometryInvariant, PTL

-----------------------------------------------------------------------------
(* A bitmap of whole words puts every cluster in its place. *)

\* The clusters that a whole word of the bitmap stands for fill the segments.
WholeWords ==
    /\ DataChunkSize % (ClusterSize * (ByteBits * WordBytes)) = 0
    /\ DeviceSize % (ClusterSize * (ByteBits * WordBytes)) = 0

\* The addresses the bitmap is about are those of clusters, some of them after the end
\* of the device: a bitmap is padded to whole bytes and more.
ClusterBitmaps == \A used \in Bitmaps : \A c \in used : c % ClusterSize = 0

LEMMA SegmentOfWords ==
    ASSUME WholeWords, NEW s \in Nat, Base(s) < DeviceSize
    PROVE  /\ Examined(s) \in Nat
           /\ WordPart(Examined(s)) = Examined(s)
           /\ (ByteBits * Examined(s)) * ClusterSize = SegLength(s)
<1> DEFINE W == ClusterSize * (ByteBits * WordBytes)
<1>1. W \in Nat \ {0}
    OBVIOUS
<1>2. DataChunkSize % W = 0 /\ DeviceSize % W = 0
    BY DEF WholeWords
<1>3. SegLength(s) \in Nat
    BY SegmentFacts
<1>4. \E q \in Int : SegLength(s) = q * W
    <2> HIDE DEF W
    <2>1. PICK d \in Int : DataChunkSize = d * W
        BY <1>1, <1>2, Quotient
    <2>2. PICK e \in Int : DeviceSize = e * W
        BY <1>1, <1>2, Quotient
    <2>3. SegLength(s) = DataChunkSize \/ SegLength(s) = DeviceSize - s * DataChunkSize
        BY SegmentFacts, BaseType DEF Base
    <2>4. CASE SegLength(s) = DeviceSize - s * DataChunkSize
        <3>1. SegLength(s) = (e - s * d) * W
            BY <1>1, <2>1, <2>2, <2>4
        <3> QED BY <3>1
    <2> QED BY <2>1, <2>3, <2>4
<1>5. PICK q \in Int : SegLength(s) = q * W
    BY <1>4
<1>6. q \in Nat
    <2> HIDE DEF W
    <2>1. CASE q <= -1
        <3>1. q * W <= -W
            BY <1>1, <2>1
        <3> QED BY <1>1, <1>3, <1>5, <3>1
    <2> QED BY <2>1
<1>7. SegLength(s) \div ClusterSize = (q * WordBytes) * ByteBits
    <2> DEFINE m == (q * WordBytes) * ByteBits
    <2>1. m \in Nat /\ SegLength(s) = m * ClusterSize
        BY <1>5, <1>6
    <2> HIDE DEF m
    <2>2. SegLength(s) \div ClusterSize = m
        BY <2>1, DivideProduct
    <2> QED BY <2>2 DEF m
<1>8. Examined(s) = q * WordBytes
    <2> DEFINE m == q * WordBytes
    <2>1. m \in Nat
        BY <1>6
    <2>2. Examined(s) = (m * ByteBits) \div ByteBits
        BY <1>7 DEF Examined
    <2> HIDE DEF m
    <2>3. Examined(s) = m
        BY <2>1, <2>2, DivideProduct
    <2> QED BY <2>3 DEF m
<1>9. Examined(s) % WordBytes = 0
    BY <1>6, <1>8, DivideProduct
<1>10. (ByteBits * Examined(s)) * ClusterSize = SegLength(s)
    BY <1>5, <1>6, <1>8
<1> QED BY <1>6, <1>8, <1>9, <1>10 DEF WordPart

\* No byte of a word is taken for another: the scan reports only bits that are set.
LEMMA WordsSound ==
    ASSUME NEW B, NEW n \in Nat, WordPart(n) = n
    PROVE  ScannedUsed(B, n) \subseteq B
<1> SUFFICES ASSUME NEW i \in 0 .. n - 1
             PROVE  UsedInByte(B, n, i) \subseteq B
    BY DEF ScannedUsed
<1>1. i \in 0 .. WordPart(n) - 1
    OBVIOUS
<1>2. ~ Skipped(B, n, i) /\ PosAt(B, n, i) = ByteBits * i
    BY <1>1, WordPositions
<1> QED BY <1>2 DEF UsedInByte, ByteOf

\* What create_data_chunks leaves out of the free list is in use.
LEMMA UsedSpaceInUse ==
    ASSUME WholeWords, NEW s \in Nat, Base(s) < DeviceSize
    PROVE  UsedSpace(s) \subseteq ClusterSpace(in_use)
<1>1. UsedClusters(s) \subseteq Bits(s)
    BY SegmentOfWords, WordsSound DEF UsedClusters
<1>2. \A k \in UsedClusters(s) : ClusterAddr(s, k) \in in_use
    BY <1>1 DEF Bits
<1> QED BY <1>2 DEF UsedSpace, ClusterSpace

\* A cluster of the device has a place in a segment.
LEMMA ClusterInSegment ==
    ASSUME WholeWords, NEW c \in Nat, c % ClusterSize = 0, c < DeviceSize
    PROVE  \E s \in Nat, k \in Nat :
              /\ Base(s) < DeviceSize /\ k < ByteBits * Examined(s)
              /\ c = ClusterAddr(s, k)
<1> DEFINE s == c \div DataChunkSize
           W == ByteBits * WordBytes
<1>1. DataChunkSize \in Int /\ DataChunkSize > 0
    BY BaseType
<1>2. /\ c = DataChunkSize * s + (c % DataChunkSize) /\ s \in Int
      /\ c % DataChunkSize \in 0 .. DataChunkSize - 1
    BY <1>1, Division
<1> DEFINE rest == c % DataChunkSize
<1> HIDE DEF s, rest
<1>3. s \in Nat
    <2>1. CASE s <= -1
        <3>1. DataChunkSize * s <= -DataChunkSize
            BY <1>1, <2>1, <1>2
        <3> QED BY <1>1, <1>2, <3>1 DEF rest
    <2> QED BY <1>2, <2>1
<1>4. Base(s) \in Nat /\ c = Base(s) + rest /\ rest \in 0 .. DataChunkSize - 1
    BY <1>1, <1>2, <1>3, BaseType DEF Base, rest
<1>5. Base(s) < DeviceSize
    BY <1>4
<1>6. rest < SegLength(s) /\ SegLength(s) \in Nat
    BY <1>3, <1>4, <1>5, SegmentFacts
<1>7. \E k \in Int : rest = k * ClusterSize
    <2>1. PICK d \in Int : DataChunkSize = d * (ClusterSize * W)
        <3>1. ClusterSize * W \in Nat \ {0}
            OBVIOUS
        <3>2. DataChunkSize % (ClusterSize * W) = 0
            BY DEF WholeWords
        <3> HIDE DEF W
        <3> QED BY <3>1, <3>2, Quotient
    <2>2. PICK q \in Int : c = q * ClusterSize
        BY Quotient
    <2> DEFINE p == s * d * W
    <2>3. Base(s) = p * ClusterSize
        BY <1>3, <2>1 DEF Base
    <2>4. p \in Int
        BY <1>3
    <2> HIDE DEF W, p
    <2>5. rest = q * ClusterSize - p * ClusterSize
        BY <1>4, <2>2, <2>3
    <2>6. q * ClusterSize - p * ClusterSize = (q - p) * ClusterSize
        BY <2>4
    <2>7. rest = (q - p) * ClusterSize /\ q - p \in Int
        BY <2>4, <2>5, <2>6
    <2> QED BY <2>7
<1>8. PICK k \in Int : rest = k * ClusterSize
    BY <1>7
<1>9. k \in Nat
    <2>1. CASE k <= -1
        <3>1. k * ClusterSize <= -ClusterSize
            BY <2>1
        <3> QED BY <1>4, <1>8, <3>1
    <2> QED BY <2>1
<1>10. k < ByteBits * Examined(s)
    <2>1. /\ (ByteBits * Examined(s)) * ClusterSize = SegLength(s)
          /\ ByteBits * Examined(s) \in Nat
        BY <1>3, <1>5, SegmentOfWords
    <2>2. CASE ByteBits * Examined(s) <= k
        <3>1. (ByteBits * Examined(s)) * ClusterSize <= k * ClusterSize
            BY <1>9, <2>1, <2>2
        <3> QED BY <1>6, <1>8, <2>1, <3>1
    <2> QED BY <1>9, <2>1, <2>2
<1>11. c = ClusterAddr(s, k)
    BY <1>4, <1>8 DEF ClusterAddr
<1> QED BY <1>3, <1>5, <1>9, <1>10, <1>11

\* Every bit is read as part of a word.
LEMMA AllWordClusters ==
    ASSUME NEW n \in Nat, WordPart(n) = n, NEW k \in Nat, k < ByteBits * n
    PROVE  k \in WordClusters(n)
<1> DEFINE i == k \div ByteBits
           b == k % ByteBits
<1>1. ByteBits \in Int /\ ByteBits > 0
    OBVIOUS
<1>2. k = ByteBits * i + b /\ i \in Int /\ b \in 0 .. ByteBits - 1
    BY <1>1, Division
<1> HIDE DEF i, b
<1>3. i >= 0
    <2>1. CASE i <= -1
        <3>1. ByteBits * i <= -ByteBits
            BY <1>1, <1>2, <2>1
        <3> QED BY <1>1, <1>2, <3>1
    <2> QED BY <1>2, <2>1
<1>4. i < n
    <2>1. CASE n <= i
        <3>1. ByteBits * n <= ByteBits * i
            BY <1>1, <1>2, <2>1
        <3> QED BY <1>1, <1>2, <3>1
    <2> QED BY <1>2, <2>1
<1>5. i \in 0 .. WordPart(n) - 1
    BY <1>2, <1>3, <1>4
<1>6. ByteBits * i + b \in WordClusters(n)
    BY <1>2, <1>5 DEF WordClusters
<1> QED BY <1>2, <1>6

\* Every cluster of the device in use is one that the scan puts in its place.
LEMMA AllLocated ==
    ASSUME WholeWords, ClusterBitmaps, TypeOK, NEW c \in in_use, c < DeviceSize
    PROVE  \E s \in 0 .. DeviceSize : Base(s) < DeviceSize /\ c \in LocatedIn(s)
<1>1. c \in Nat /\ c % ClusterSize = 0 /\ c < DeviceSize
    BY DEF TypeOK, ClusterBitmaps
<1>2. PICK s \in Nat, k \in Nat :
          /\ Base(s) < DeviceSize /\ k < ByteBits * Examined(s)
          /\ c = ClusterAddr(s, k)
    BY <1>1, ClusterInSegment
<1>3. k \in WordClusters(Examined(s))
    BY <1>2, SegmentOfWords, AllWordClusters
<1>4. c \in LocatedIn(s) /\ s \in 0 .. DeviceSize
    BY <1>2, <1>3, SegmentFacts DEF LocatedIn
<1> QED BY <1>2, <1>4

-----------------------------------------------------------------------------
(* Where every unit is. *)

\* Every unit after the reserved area is in the space list or in a chunk.
SpaceCovered ==
    \A u \in Reserved .. DeviceSize - 1 :
        u \in space_list \/ \E i \in DOMAIN chunks : u \in Span(i)

Taken == Granted \cup ClusterSpace(in_use) \cup SuperSpace(0, DeviceSize)

\* What a chunk does not have free is taken.
NothingLeaks ==
    \A i \in DOMAIN chunks :
        \A u \in Span(i) \ chunks[i].free : u < DeviceSize => u \in Taken

AccountInv == GeometryInv /\ SpaceCovered /\ NothingLeaks

LEMMA InitAccount == Init => AccountInv
<1>1. Init => SpaceCovered
    BY DEF Init, SpaceCovered, Extent
<1>2. Init => NothingLeaks
    BY DEF Init, NothingLeaks
<1> QED BY <1>1, <1>2, InitGeometry DEF AccountInv

\* A superblock's part of an extent is on the device if the extent is.
LEMMA SuperSpaceOnDevice ==
    ASSUME NEW start \in Nat, NEW length \in Nat, NEW u \in SuperSpace(start, length),
           u < DeviceSize
    PROVE  u \in SuperSpace(0, DeviceSize)
<1>1. PICK sb \in SuperAddrs : u \in Extent(sb, StripeLen) \cap Extent(start, length)
    BY DEF SuperSpace
<1>2. u \in Extent(0, DeviceSize)
    BY <1>1 DEF Extent
<1> QED BY <1>1, <1>2 DEF SuperSpace

\* The chunk of a segment has free what is neither in use nor a superblock's.
LEMMA SegmentKept ==
    ASSUME WholeStripes, WholeWords, TypeOK, Base(seg) < DeviceSize
    PROVE  LET c == SegmentChunk(seg)
           IN  \A u \in Extent(c.start, c.length) \ c.free :
                  u < DeviceSize => u \in ClusterSpace(in_use) \cup SuperSpace(0, DeviceSize)
<1> DEFINE c == SegmentChunk(seg)
<1>1. seg \in Nat
    BY DEF TypeOK
<1>2. /\ c.start \in Nat /\ c.length \in Nat
      /\ c.start + c.length = Base(seg) + ChunkLength(seg)
      /\ c.start = Base(seg) + Shift(seg) /\ Shift(seg) \in Nat
      /\ c.free = (Unused(seg) \ Extent(Base(seg), Shift(seg)))
                    \ SuperSpace(c.start, c.length)
    BY <1>1, SegmentChunkPlace, ChunkStart DEF SpaceListRemove
<1>3. Base(seg) \in Nat /\ ChunkLength(seg) \in Nat
    BY <1>1, BaseType, SegmentFacts
<1> HIDE DEF c
<1>4. ASSUME NEW u \in Extent(c.start, c.length) \ c.free, u < DeviceSize
      PROVE  u \in ClusterSpace(in_use) \cup SuperSpace(0, DeviceSize)
    <2>1. /\ u \in Nat /\ Base(seg) <= u /\ u < Base(seg) + ChunkLength(seg)
          /\ u \notin Extent(Base(seg), Shift(seg))
        BY <1>2, <1>3, <1>4 DEF Extent
    <2>2. u \notin Unused(seg) \/ u \in SuperSpace(c.start, c.length)
        BY <1>2, <1>4, <2>1
    <2>3. CASE u \in SuperSpace(c.start, c.length)
        BY <1>2, <1>4, <2>3, SuperSpaceOnDevice
    <2>4. CASE u \notin Unused(seg)
        <3>1. u \in UsedSpace(seg)
            BY <1>3, <1>4, <2>1, <2>4 DEF Unused
        <3> QED BY <1>1, <3>1, UsedSpaceInUse
    <2> QED BY <2>2, <2>3, <2>4
<1> QED BY <1>4 DEF c

LEMMA ScanSegmentAccount ==
    ASSUME WholeStripes, WholeWords, IInv, SpaceCovered, NothingLeaks, ScanSegment
    PROVE  SpaceCovered' /\ NothingLeaks'
<1>1. TypeOK
    BY DEF IInv
<1>2. /\ seg \in Nat /\ Base(seg) < DeviceSize /\ Base(seg) \in Nat
      /\ ChunkLength(seg) = SegLength(seg) /\ SegLength(seg) \in Nat
      /\ UNCHANGED <<in_use, allocated>>
    BY ScanSegmentShape, WholeSegments
<1>3. CASE UNCHANGED <<space_list, chunks>>
    BY <1>2, <1>3 DEF SpaceCovered, NothingLeaks, Span, Taken, Granted, ClusterSpace
<1>4. CASE /\ space_list' = space_list \ Extent(Base(seg), ChunkLength(seg))
           /\ Len(chunks) \in Nat
           /\ DOMAIN chunks = 1 .. Len(chunks) /\ DOMAIN chunks' = 1 .. Len(chunks) + 1
           /\ \A k \in DOMAIN chunks : chunks'[k] = chunks[k]
           /\ chunks'[Len(chunks) + 1] = SegmentChunk(seg)
    <2> DEFINE n == Len(chunks) + 1
               c == SegmentChunk(seg)
               C == Extent(c.start, c.length)
    <2>1. /\ c.start \in Nat /\ c.length \in Nat /\ c.start >= Reserved
          /\ c.start = Base(seg) + Shift(seg)
          /\ c.start + c.length = Base(seg) + ChunkLength(seg)
        BY <1>1, <1>2, SegmentChunkPlace
    <2>2. /\ n \in DOMAIN chunks' /\ \A k \in DOMAIN chunks : k \in DOMAIN chunks'
          /\ \A k \in DOMAIN chunks' : k = n \/ k \in DOMAIN chunks
        BY <1>4
    <2>3. chunks'[n] = c /\ \A u \in C \ c.free :
              u < DeviceSize => u \in ClusterSpace(in_use) \cup SuperSpace(0, DeviceSize)
        BY <1>1, <1>2, <1>4, SegmentKept
    <2>4. \A u \in Extent(Base(seg), ChunkLength(seg)) : u >= Reserved => u \in C
        <3>1. Base(seg) + Shift(seg) <= (IF Base(seg) > Reserved THEN Base(seg) ELSE Reserved)
            BY <1>2 DEF Shift
        <3> HIDE DEF c
        <3> QED BY <1>2, <2>1, <3>1 DEF Extent
    <2> HIDE DEF c, C, n
    <2>5. SpaceCovered'
        <3> SUFFICES ASSUME NEW u \in Reserved .. DeviceSize - 1, u \notin space_list'
                     PROVE  \E i \in DOMAIN chunks' :
                               u \in Extent(chunks'[i].start, chunks'[i].length)
            BY DEF SpaceCovered, Span
        <3>1. CASE u \in space_list
            BY <1>4, <2>2, <2>3, <2>4, <3>1 DEF C
        <3>2. CASE u \notin space_list
            <4>1. PICK i \in DOMAIN chunks : u \in Span(i)
                BY <3>2 DEF SpaceCovered
            <4> QED BY <1>4, <2>2, <4>1 DEF Span
        <3> QED BY <3>1, <3>2
    <2>6. NothingLeaks'
        <3>1. Taken' = Taken
            BY <1>2 DEF Taken, Granted, ClusterSpace
        <3>2. \A k \in DOMAIN chunks :
                 \A u \in Extent(chunks'[k].start, chunks'[k].length) \ chunks'[k].free :
                    u < DeviceSize => u \in Taken
            BY <1>4 DEF NothingLeaks, Span
        <3>3. \A u \in Extent(chunks'[n].start, chunks'[n].length) \ chunks'[n].free :
                    u < DeviceSize => u \in Taken
            BY <2>3 DEF C, Taken
        <3> QED BY <2>2, <3>1, <3>2, <3>3 DEF NothingLeaks, Span
    <2> QED BY <2>5, <2>6
<1> QED BY <1>3, <1>4, ScanSegmentShape

LEMMA CallAccount ==
    ASSUME IInv, SpaceCovered, NothingLeaks, NEW type, NEW size, NEW length, NEW counted,
           AllocatorCall(type, size, length, counted)
    PROVE  SpaceCovered' /\ NothingLeaks'
<1>1. /\ type \in Types /\ size \in Nat /\ length \in Nat \ {0} /\ counted \in BOOLEAN
    BY CallShape
<1>2. \A addr \in Nat : allocated' = allocated \cup {Allocation(addr, length, type, counted)}
          => Granted' = Granted \cup Extent(addr, length)
    BY <1>1, GrantedGrows, AllocationType
<1>3. ASSUME NEW i \in DOMAIN chunks, NEW addr \in Nat, TakenFrom(i, addr, length, type, counted)
      PROVE  SpaceCovered' /\ NothingLeaks'
    <2>1. /\ DOMAIN chunks' = DOMAIN chunks
          /\ \A k \in DOMAIN chunks : k # i => chunks'[k] = chunks[k]
          /\ \A k \in DOMAIN chunks : /\ chunks'[k].start = chunks[k].start
                                      /\ chunks'[k].length = chunks[k].length
          /\ chunks'[i].free = chunks[i].free \ Extent(addr, length)
          /\ allocated' = allocated \cup {Allocation(addr, length, type, counted)}
          /\ UNCHANGED <<in_use, space_list>>
        BY <1>3 DEF TakenFrom
    <2>2. Taken' = Taken \cup Extent(addr, length)
        BY <1>2, <2>1 DEF Taken, ClusterSpace
    <2>3. SpaceCovered'
        BY <2>1 DEF SpaceCovered, Span
    <2>4. NothingLeaks'
        BY <2>1, <2>2 DEF NothingLeaks, Span
    <2> QED BY <2>3, <2>4
<1>4. ASSUME NEW n \in Nat, NEW start \in Nat, ChunkMade(n, start, size, type),
             \/ \E addr \in Nat : TakenFromNew(n, start, size, type, addr, length, counted)
             \/ NoRoomInNew(n, start, size)
      PROVE  SpaceCovered' /\ NothingLeaks'
    <2>1. /\ space_list' = space_list \ Extent(start, size)
          /\ n \in DOMAIN chunks' /\ \A k \in DOMAIN chunks : k \in DOMAIN chunks'
          /\ \A k \in DOMAIN chunks' : k = n \/ k \in DOMAIN chunks
          /\ \A k \in DOMAIN chunks : chunks'[k] = chunks[k]
          /\ chunks'[n].start = start /\ chunks'[n].length = size
          /\ UNCHANGED in_use
        BY <1>4 DEF ChunkMade
    <2>2. SpaceCovered'
        BY <2>1 DEF SpaceCovered, Span
    <2>3. Taken \subseteq Taken'
        <3>1. Granted \subseteq Granted'
            BY <1>2, <1>4 DEF TakenFromNew, NoRoomInNew, Granted
        <3> QED BY <2>1, <3>1 DEF Taken, ClusterSpace
    <2>4. \A u \in Extent(start, size) \ chunks'[n].free : u < DeviceSize => u \in Taken'
        <3>1. CASE NoRoomInNew(n, start, size)
            <4>1. chunks'[n].free = Extent(start, size) \ SuperSpace(start, size)
                BY <3>1 DEF NoRoomInNew
            <4>2. \A u \in Extent(start, size) \ chunks'[n].free :
                      u < DeviceSize => u \in SuperSpace(0, DeviceSize)
                BY <1>1, <4>1, SuperSpaceOnDevice
            <4> QED BY <2>3, <4>2 DEF Taken
        <3>2. ASSUME NEW addr \in Nat,
                     TakenFromNew(n, start, size, type, addr, length, counted)
              PROVE  \A u \in Extent(start, size) \ chunks'[n].free :
                        u < DeviceSize => u \in Taken'
            <4>1. /\ chunks'[n].free
                       = (Extent(start, size) \ SuperSpace(start, size)) \ Extent(addr, length)
                  /\ allocated' = allocated \cup {Allocation(addr, length, type, counted)}
                BY <3>2 DEF TakenFromNew
            <4>2. Extent(addr, length) \subseteq Taken'
                BY <1>2, <4>1 DEF Taken
            <4>3. \A u \in SuperSpace(start, size) :
                      u < DeviceSize => u \in SuperSpace(0, DeviceSize)
                BY <1>1, SuperSpaceOnDevice
            <4> QED BY <2>3, <4>1, <4>2, <4>3 DEF Taken
        <3> QED BY <1>4, <3>1, <3>2
    <2>5. NothingLeaks'
        BY <2>1, <2>3, <2>4 DEF NothingLeaks, Span
    <2> QED BY <2>2, <2>5
<1>5. CASE ChunksKept
    BY <1>5 DEF ChunksKept, SpaceCovered, NothingLeaks, Span, Taken, Granted, ClusterSpace
<1> QED BY <1>3, <1>4, <1>5, CallShape

LEMMA AccountStep ==
    ASSUME WholeStripes, WholeWords, AccountInv, [Next]_vars
    PROVE  AccountInv'
<1>1. GeometryInv /\ IInv /\ SpaceCovered /\ NothingLeaks
    BY DEF AccountInv, GeometryInv
<1>2. GeometryInv'
    BY <1>1, GeometryStep
<1>3. CASE ScanSegment
    BY <1>1, <1>2, <1>3, ScanSegmentAccount DEF AccountInv
<1>4. CASE ChunksKept
    BY <1>1, <1>2, <1>4
    DEF AccountInv, ChunksKept, SpaceCovered, NothingLeaks, Span, Taken, Granted, ClusterSpace
<1>5. ASSUME NEW type, NEW size, NEW length, NEW counted,
             AllocatorCall(type, size, length, counted)
      PROVE  AccountInv'
    BY <1>1, <1>2, <1>5, CallAccount DEF AccountInv
<1> QED BY <1>1, <1>3, <1>4, <1>5, NextCases

THEOREM AccountInvariant ==
    ASSUME WholeStripes, WholeWords
    PROVE  Spec => []AccountInv
<1>1. AccountInv /\ [Next]_vars => AccountInv'
    BY AccountStep
<1> QED BY <1>1, InitAccount, PTL DEF Spec

\* Once the segments are scanned, no chunk has free what any cluster in use occupies of
\* the device.
LEMMA FreeIsNotInUse ==
    ASSUME WholeWords, ClusterBitmaps, IInv, phase # "scan", NEW i \in DOMAIN chunks,
           NEW u \in Nat, u < DeviceSize, u \in ClusterSpace(in_use)
    PROVE  u \notin chunks[i].free
<1>1. TypeOK /\ ScanProgress /\ NtfsKept
    BY DEF IInv
<1>2. seg \in Nat /\ Base(seg) >= DeviceSize
    BY <1>1 DEF TypeOK, ScanProgress
<1>3. ASSUME NEW c \in in_use, u \in Extent(c, ClusterSize)
      PROVE  u \notin chunks[i].free
    <2>0. c \in Nat /\ c < DeviceSize
        BY <1>1, <1>3 DEF TypeOK, Extent
    <2>1. PICK s \in 0 .. DeviceSize : Base(s) < DeviceSize /\ c \in LocatedIn(s)
        BY <1>1, <2>0, AllLocated
    <2>2. s < seg
        <3>1. CASE seg <= s
            <4>1. Base(seg) <= Base(s)
                BY <1>2, <2>1, <3>1, BaseMonotone, BaseType
            <4> QED BY <1>2, <2>1, <4>1, BaseType
        <3> QED BY <1>2, <3>1
    <2>3. s \in SegmentsDone
        BY <2>1, <2>2 DEF SegmentsDone
    <2> QED BY <1>1, <1>3, <2>1, <2>3 DEF NtfsKept, ClusterSpace
<1> QED BY <1>3 DEF ClusterSpace

\* Nothing is lost and nothing is promised twice: after the segments are scanned every
\* unit after the reserved area is free outside the chunks, or in exactly one chunk,
\* where it is free unless it was allocated, is in use by NTFS or is a superblock's.
THEOREM NothingIsLost ==
    ASSUME WholeStripes, WholeWords, ClusterBitmaps
    PROVE  Spec => []NothingLost
<1>1. AccountInv => NothingLost
    <2> SUFFICES ASSUME AccountInv, phase # "scan", NEW u \in Reserved .. DeviceSize - 1
                 PROVE  LET InChunk == {i \in DOMAIN chunks :
                                          u \in Extent(chunks[i].start, chunks[i].length)}
                            Free == {i \in DOMAIN chunks : u \in chunks[i].free}
                            Spent == u \in Granted \cup ClusterSpace(in_use)
                                              \cup SuperSpace(0, DeviceSize)
                        IN  IF u \in space_list
                            THEN InChunk = {} /\ u \notin Granted
                            ELSE /\ Cardinality(InChunk) = 1
                                 /\ Free = IF Spent THEN {} ELSE InChunk
        BY DEF NothingLost
    <2>1. /\ IInv /\ ChunksApart /\ FreeInside /\ InsideChunk
          /\ SpaceCovered /\ NothingLeaks /\ FreeApart
        BY DEF AccountInv, GeometryInv, IInv
    <2> DEFINE InChunk == {i \in DOMAIN chunks : u \in Span(i)}
               Free == {i \in DOMAIN chunks : u \in chunks[i].free}
    <2>2. CASE u \in space_list
        <3>1. InChunk = {}
            BY <2>1, <2>2 DEF ChunksApart
        <3>2. u \notin Granted
            <4>1. ASSUME NEW a \in allocated, u \in Extent(a.addr, a.length) PROVE FALSE
                <5>1. PICK i \in DOMAIN chunks : Extent(a.addr, a.length) \subseteq Span(i)
                    BY <2>1 DEF InsideChunk, Span
                <5> QED BY <3>1, <4>1, <5>1
            <4> QED BY <4>1 DEF Granted
        <3> QED BY <2>2, <3>1, <3>2 DEF Span
    <2>3. CASE u \notin space_list
        <3>1. PICK i \in DOMAIN chunks : u \in Span(i)
            BY <2>1, <2>3 DEF SpaceCovered
        <3>2. InChunk = {i}
            BY <2>1, <3>1 DEF ChunksApart
        <3>3. Cardinality(InChunk) = 1
            BY <3>2, FS_Singleton
        <3>4. Free \subseteq InChunk
            BY <2>1 DEF FreeInside
        <3>5. CASE u \in Taken
            <4>1. u \notin chunks[i].free \cap Taken
                <5>1. chunks[i].free \cap Granted = {}
                    BY <2>1 DEF FreeApart
                <5>2. u \notin chunks[i].free \cap ClusterSpace(in_use)
                    BY <2>1, FreeIsNotInUse
                <5>3. chunks[i].free \cap SuperSpace(0, DeviceSize) = {}
                    BY <2>1 DEF FreeInside, SuperStripes, SuperSpace
                <5> QED BY <5>1, <5>2, <5>3 DEF Taken
            <4>2. Free = {}
                BY <3>2, <3>4, <3>5, <4>1
            <4> QED BY <2>3, <3>3, <3>5, <4>2 DEF Span, Taken
        <3>6. CASE u \notin Taken
            <4>1. u \in chunks[i].free
                BY <2>1, <3>1, <3>6 DEF NothingLeaks
            <4>2. Free = InChunk
                BY <3>1, <3>2, <3>4, <4>1
            <4> QED BY <2>3, <3>3, <3>6, <4>2 DEF Span, Taken
        <3> QED BY <3>5, <3>6
    <2> QED BY <2>2, <2>3
<1> QED BY <1>1, AccountInvariant, PTL

\* No allocation touches any cluster in use: the old file system stays whole while the
\* new one is written, wherever the bitmap is read in whole words.
THEOREM NoClusterOverwritten ==
    ASSUME WholeWords, ClusterBitmaps
    PROVE  Spec => []NoOverwriteAtAll
<1>1. TypeOK /\ NoOverwrite => NoOverwriteAtAll
    <2> SUFFICES ASSUME TypeOK, NoOverwrite, NEW c \in in_use, c + ClusterSize <= DeviceSize
                 PROVE  Granted \cap Extent(c, ClusterSize) = {}
        BY DEF NoOverwriteAtAll, ClusterSpace
    <2>0. c < DeviceSize
        BY DEF TypeOK
    <2>1. PICK s \in 0 .. DeviceSize : Base(s) < DeviceSize /\ c \in LocatedIn(s)
        BY <2>0, AllLocated
    <2> QED BY <2>1 DEF NoOverwrite, ClusterSpace, Located
<1> QED BY <1>1, TypeCorrect, NtfsNeverOverwritten, PTL

-----------------------------------------------------------------------------
(* Free space whose runs start on multiples of M. *)

Grid(F, M) == \A u \in F : ~ Multiple(u, M) => u - 1 \in F

\* A set that is a grid up to a bound.
GridBelow(F, M, bound) == \A u \in F : u < bound /\ ~ Multiple(u, M) => u - 1 \in F

\* First fit takes the start of a run.
LEMMA GridFit ==
    ASSUME NEW F \in SUBSET Nat, NEW M \in Nat \ {0}, NEW n \in Nat \ {0}, NEW bound \in Nat,
           NEW a \in Nat, GridBelow(F, M, bound), a < bound, IsFirstFit(a, F, n)
    PROVE  Multiple(a, M)
<1>1. a \in F /\ Extent(a, n) \subseteq F /\ \A b \in Fits(F, n) : a <= b
    BY DEF IsFirstFit, Fits
<1>2. SUFFICES ASSUME ~ Multiple(a, M) PROVE FALSE
    OBVIOUS
<1>3. a - 1 \in F
    BY <1>1, <1>2 DEF GridBelow
<1>4. Extent(a - 1, n) \subseteq F
    <2>1. \A u \in Extent(a - 1, n) : u = a - 1 \/ u \in Extent(a, n)
        BY DEF Extent
    <2> QED BY <1>1, <1>3, <2>1
<1>5. a - 1 \in Fits(F, n)
    BY <1>3, <1>4 DEF Fits
<1> QED BY <1>1, <1>5

\* Taking a whole number of steps at one leaves a grid.
LEMMA GridTake ==
    ASSUME NEW F \in SUBSET Nat, NEW M \in Nat \ {0}, NEW n \in Nat, NEW a \in Nat,
           Grid(F, M), Multiple(a, M), Multiple(n, M)
    PROVE  Grid(F \ Extent(a, n), M)
<1>1. Multiple(a + n, M)
    BY MultipleSum
<1> SUFFICES ASSUME NEW u \in F \ Extent(a, n), ~ Multiple(u, M)
             PROVE  u - 1 \in F \ Extent(a, n)
    BY DEF Grid
<1>2. u - 1 \in F
    BY DEF Grid
<1>3. u - 1 \in Extent(a, n) => u = a + n
    BY DEF Extent
<1> QED BY <1>1, <1>2, <1>3

-----------------------------------------------------------------------------
(* The space list. *)

\* While data chunks are made, the runs of the space list start on multiples of M.
ListGrid(M) ==
    phase \in {"scan", "protect", "rewrite"} => GridBelow(space_list, M, DeviceSize)

\* A segment ends where the next starts, or with the device.
LEMMA SegmentEnd ==
    ASSUME NEW M \in Nat \ {0}, Multiple(DataChunkSize, M), NEW s \in Nat, Base(s) < DeviceSize
    PROVE  Base(s) + SegLength(s) = DeviceSize \/ Multiple(Base(s) + SegLength(s), M)
<1>1. CASE SegLength(s) = DataChunkSize
    <2>1. Base(s) + SegLength(s) = (s + 1) * DataChunkSize
        BY <1>1 DEF Base
    <2>2. Multiple((s + 1) * DataChunkSize, M)
        <3>1. s + 1 \in Int /\ DataChunkSize \in Int
            OBVIOUS
        <3> QED BY <3>1, MultipleProduct
    <2> QED BY <2>1, <2>2
<1> QED BY <1>1, SegmentFacts

LEMMA ScanSegmentGrid ==
    ASSUME WholeStripes, IInv, NEW M \in Nat \ {0}, Multiple(DataChunkSize, M),
           ListGrid(M), ScanSegment
    PROVE  ListGrid(M)'
<1>1. /\ seg \in Nat /\ Base(seg) < DeviceSize /\ Base(seg) \in Nat /\ phase = "scan"
      /\ ChunkLength(seg) = SegLength(seg) /\ SegLength(seg) \in Nat
      /\ space_list \subseteq Nat
    BY ScanSegmentShape, WholeSegments DEF IInv, TypeOK
<1>2. GridBelow(space_list, M, DeviceSize)
    BY <1>1 DEF ListGrid
<1>3. CASE UNCHANGED space_list
    BY <1>2, <1>3 DEF ListGrid, GridBelow
<1>4. CASE space_list' = space_list \ Extent(Base(seg), ChunkLength(seg))
    <2> SUFFICES ASSUME NEW u \in space_list, u \notin Extent(Base(seg), SegLength(seg)),
                        u < DeviceSize, ~ Multiple(u, M)
                 PROVE  u - 1 \in space_list /\ u - 1 \notin Extent(Base(seg), SegLength(seg))
        BY <1>1, <1>4 DEF ListGrid, GridBelow
    <2>1. u \in Nat /\ u - 1 \in space_list
        BY <1>1, <1>2 DEF GridBelow
    <2>2. u - 1 \in Extent(Base(seg), SegLength(seg)) => u = Base(seg) + SegLength(seg)
        BY <1>1, <2>1 DEF Extent
    <2> QED BY <1>1, <2>1, <2>2, SegmentEnd
<1> QED BY <1>3, <1>4, ScanSegmentShape

\* A data chunk made later starts on a multiple of M too: the list goes on past the
\* device by less than a chunk.
LEMMA NewDataChunkStart ==
    ASSUME IInv, NEW M \in Nat \ {0}, GridBelow(space_list, M, DeviceSize),
           NEW start \in Nat, IsFirstFit(start, space_list, DataChunkSize)
    PROVE  Multiple(start, M)
<1>1. space_list \in SUBSET Nat /\ space_list \subseteq Extent(Reserved, DeviceSize)
    BY DEF IInv, TypeOK, ScanProgress
<1>2. DataChunkSize \in Nat \ {0} /\ DataChunkSize > Reserved
    OBVIOUS
<1>3. start < DeviceSize
    <2>1. Extent(start, DataChunkSize) \subseteq Extent(Reserved, DeviceSize)
        BY <1>1 DEF IsFirstFit, Fits
    <2>2. start + DataChunkSize - 1 \in Extent(start, DataChunkSize)
        BY <1>2 DEF Extent
    <2>3. start + DataChunkSize - 1 \in Extent(Reserved, DeviceSize)
        BY <2>1, <2>2
    <2>4. start + DataChunkSize - 1 <= Reserved + DeviceSize - 1
        BY <2>3 DEF Extent
    <2> QED BY <1>2, <2>4
<1> QED BY <1>1, <1>2, <1>3, GridFit

LEMMA CallGrid ==
    ASSUME IInv, NEW M \in Nat \ {0}, Multiple(DataChunkSize, M), ListGrid(M),
           NEW type, NEW size, NEW length, NEW counted,
           AllocatorCall(type, size, length, counted)
    PROVE  ListGrid(M)'
<1>1. /\ space_list \in SUBSET Nat /\ phase # "scan"
      /\ type = "data" => size = DataChunkSize /\ phase \in {"protect", "rewrite"}
      /\ type # "data" => phase = "trees"
    BY DEF IInv, TypeOK, AllocatorCall
<1>2. CASE space_list' = space_list /\ (phase' = phase \/ phase' \notin {"scan", "protect", "rewrite"})
    BY <1>2 DEF ListGrid, GridBelow
<1>3. ASSUME NEW n \in Nat, NEW start \in Nat, ChunkMade(n, start, size, type),
             phase' = phase \/ phase' = "failed"
      PROVE  ListGrid(M)'
    <2>1. CASE type = "data"
        <3>1. /\ IsFirstFit(start, space_list, DataChunkSize)
              /\ space_list' = space_list \ Extent(start, DataChunkSize)
            BY <1>1, <1>3, <2>1 DEF ChunkMade
        <3>2. GridBelow(space_list, M, DeviceSize)
            BY <1>1, <2>1 DEF ListGrid
        <3>3. Multiple(start, M)
            BY <3>1, <3>2, NewDataChunkStart
        <3>4. Multiple(start + DataChunkSize, M)
            BY <3>3, MultipleSum
        <3> SUFFICES ASSUME NEW u \in space_list, u \notin Extent(start, DataChunkSize),
                            u < DeviceSize, ~ Multiple(u, M)
                     PROVE  u - 1 \in space_list /\ u - 1 \notin Extent(start, DataChunkSize)
            BY <3>1 DEF ListGrid, GridBelow
        <3>5. u \in Nat /\ u - 1 \in space_list
            BY <1>1, <3>2 DEF GridBelow
        <3>6. u - 1 \in Extent(start, DataChunkSize) => u = start + DataChunkSize
            BY <3>5 DEF Extent
        <3> QED BY <3>4, <3>5, <3>6
    <2>2. CASE type # "data"
        BY <1>1, <1>3, <2>2 DEF ListGrid
    <2> QED BY <2>1, <2>2
<1>4. CASE \E i \in DOMAIN chunks, addr \in Nat : TakenFrom(i, addr, length, type, counted)
    BY <1>2, <1>4 DEF TakenFrom
<1>5. CASE ChunksKept
    BY <1>1, <1>5 DEF ChunksKept, ListGrid, GridBelow
<1>6. ASSUME NEW n \in Nat, NEW start \in Nat, ChunkMade(n, start, size, type),
             \/ \E addr \in Nat : TakenFromNew(n, start, size, type, addr, length, counted)
             \/ NoRoomInNew(n, start, size)
      PROVE  ListGrid(M)'
    <2>1. phase' = phase \/ phase' = "failed"
        BY <1>6 DEF TakenFromNew, NoRoomInNew
    <2> QED BY <1>3, <1>6, <2>1
<1> QED BY <1>4, <1>5, <1>6, CallShape

-----------------------------------------------------------------------------
(* Data chunks start where segments do.                                    *)

\* The boot sector is in cluster 0, and the first byte of the bitmap is examined.
BootInUse ==
    /\ \A used \in Bitmaps : 0 \in used
    /\ ClusterSize * ByteBits <= DataChunkSize
    /\ ClusterSize * ByteBits <= DeviceSize

\* Byte 0 is never stepped over when its first bit is set, so the first segment always
\* becomes a chunk.
LEMMA FirstSegmentUsed ==
    ASSUME BootInUse, TypeOK
    PROVE  UsedClusters(0) # {}
<1>1. 0 \in in_use
    BY DEF BootInUse, TypeOK
<1> DEFINE L == SegLength(0)
<1>2. Base(0) = 0 /\ L \in Nat /\ ClusterSize * ByteBits <= L
    BY DEF Base, SegLength, Lesser, BootInUse
<1>3. Examined(0) >= 1 /\ Examined(0) \in Nat
    <2> DEFINE q == L \div ClusterSize
               e == q \div ByteBits
    <2>1. ClusterSize \in Int /\ ClusterSize > 0 /\ ByteBits \in Int /\ ByteBits > 0
        OBVIOUS
    <2>2. /\ L = ClusterSize * q + (L % ClusterSize) /\ q \in Int
          /\ L % ClusterSize \in 0 .. ClusterSize - 1
        <3>1. L \in Int
            BY <1>2
        <3> HIDE DEF L
        <3> QED BY <2>1, <3>1, Division
    <2>3. /\ q = ByteBits * e + (q % ByteBits) /\ e \in Int
          /\ q % ByteBits \in 0 .. ByteBits - 1
        BY <2>1, <2>2, Division
    <2>4. Examined(0) = e
        BY DEF Examined
    <2> HIDE DEF L, q, e
    <2>5. q >= ByteBits
        <3>1. CASE q + 1 <= ByteBits
            <4>1. ClusterSize * (q + 1) <= ClusterSize * ByteBits
                BY <2>1, <2>2, <3>1
            <4>2. ClusterSize * (q + 1) = ClusterSize * q + ClusterSize
                BY <2>2
            <4> QED BY <1>2, <2>1, <2>2, <4>1, <4>2
        <3> QED BY <2>1, <2>2, <3>1
    <2>6. e >= 1
        <3>1. CASE e <= 0
            <4>1. ByteBits * e <= 0
                BY <2>1, <2>3, <3>1
            <4> QED BY <2>1, <2>2, <2>3, <2>5, <4>1
        <3> QED BY <2>3, <3>1
    <2> QED BY <2>3, <2>4, <2>6
<1>4. 0 \in Bits(0)
    <2>1. ClusterAddr(0, 0) = 0
        BY <1>2 DEF ClusterAddr
    <2>2. ByteBits * Examined(0) >= 1
        BY <1>3
    <2>3. 0 \in 0 .. ByteBits * Examined(0) - 1
        BY <1>3, <2>2
    <2> QED BY <1>1, <2>1, <2>3 DEF Bits
<1> DEFINE n == Examined(0)
           X == Bits(0)
<1> HIDE DEF n, X
<1>5. 0 \in ByteOf(X, 0)
    BY <1>4 DEF ByteOf, X
<1>6. ~ Skipped(X, n, 0)
    BY <1>5 DEF Skipped, SetBefore
<1>7. PosAt(X, n, 0) = 0
    <2>1. {j \in 0 .. 0 - 1 : Skipped(X, n, j)} = {}
        OBVIOUS
    <2>2. Cardinality({j \in 0 .. 0 - 1 : Skipped(X, n, j)}) = 0
        BY <2>1, FS_EmptySet
    <2> QED BY <2>2 DEF PosAt
<1>8. 0 \in UsedInByte(X, n, 0)
    BY <1>5, <1>6, <1>7 DEF UsedInByte
<1>9. 0 \in ScannedUsed(X, n)
    BY <1>3, <1>8 DEF ScannedUsed, n
<1> QED BY <1>9 DEF UsedClusters, X, n

PlacesInv ==
    /\ seg = 0 => phase = "scan" /\ space_list = Extent(Reserved, DeviceSize)
    /\ seg > 0 => ListGrid(DataChunkSize)
    /\ DataChunksAtSegments

LEMMA ChunkSizeMultiple == DataChunkSize \in Nat \ {0} /\ Multiple(DataChunkSize, DataChunkSize)
<1>1. DataChunkSize \in Nat \ {0}
    OBVIOUS
<1>2. DataChunkSize = 1 * DataChunkSize /\ DataChunkSize \in Int
    OBVIOUS
<1>3. \E p \in Int : DataChunkSize = p * DataChunkSize
    BY <1>2
<1> QED BY <1>1, <1>2, <1>3, MultipleWitness

\* With the first segment gone the list starts on a segment.
LEMMA FirstSegmentGrid ==
    ASSUME WholeStripes, BootInUse, IInv, PlacesInv, ScanSegment, seg = 0
    PROVE  ListGrid(DataChunkSize)'
<1>1. /\ Base(0) < DeviceSize /\ ChunkLength(0) = SegLength(0) /\ Base(0) = 0
      /\ SegLength(0) \in Nat
    BY ScanSegmentShape, WholeSegments DEF Base
<1>2. UsedClusters(0) # {}
    BY FirstSegmentUsed DEF IInv
<1>3. space_list' = Extent(Reserved, DeviceSize) \ Extent(0, SegLength(0))
    BY <1>1, <1>2, ScanSegmentShape DEF PlacesInv
<1>4. SegLength(0) = DataChunkSize \/ SegLength(0) = DeviceSize
    BY <1>1 DEF SegLength, Lesser
<1> SUFFICES ASSUME NEW u \in space_list', u < DeviceSize, ~ Multiple(u, DataChunkSize)
             PROVE  u - 1 \in space_list'
    BY DEF ListGrid, GridBelow
<1>5. u \in Nat /\ u >= Reserved /\ u >= SegLength(0) /\ u \in Extent(Reserved, DeviceSize)
    BY <1>1, <1>3 DEF Extent
<1>6. u # DataChunkSize
    BY ChunkSizeMultiple
<1>7. u - 1 >= DataChunkSize /\ SegLength(0) = DataChunkSize /\ Reserved < DataChunkSize
    BY <1>4, <1>5, <1>6
<1> QED BY <1>3, <1>5, <1>7 DEF Extent

LEMMA ScanSegmentPlaces ==
    ASSUME WholeStripes, BootInUse, IInv, PlacesInv, ScanSegment
    PROVE  PlacesInv'
<1>1. TypeOK /\ seg \in Nat /\ seg' = seg + 1 /\ Base(seg) < DeviceSize
    BY ScanSegmentShape DEF IInv
<1>2. ListGrid(DataChunkSize)'
    <2>1. CASE seg = 0
        BY <2>1, FirstSegmentGrid
    <2>2. CASE seg > 0
        BY <2>2, ChunkSizeMultiple, ScanSegmentGrid DEF PlacesInv
    <2> QED BY <1>1, <2>1, <2>2
<1>3. DataChunksAtSegments'
    <2>1. CASE UNCHANGED chunks
        BY <2>1 DEF PlacesInv, DataChunksAtSegments
    <2>2. CASE /\ DOMAIN chunks = 1 .. Len(chunks) /\ DOMAIN chunks' = 1 .. Len(chunks) + 1
               /\ Len(chunks) \in Nat
               /\ \A k \in DOMAIN chunks : chunks'[k] = chunks[k]
               /\ chunks'[Len(chunks) + 1] = SegmentChunk(seg)
        <3>1. SegmentChunk(seg).start = Base(seg) + Shift(seg)
            BY <1>1, SegmentChunkPlace
        <3>2. SegmentChunk(seg).start = Reserved \/ SegmentChunk(seg).start = Base(seg)
            BY <1>1, <3>1, BaseType DEF Shift
        <3>3. Multiple(Base(seg), DataChunkSize)
            <4>1. seg \in Int /\ DataChunkSize \in Int
                BY <1>1
            <4> QED BY <4>1, ChunkSizeMultiple, MultipleProduct DEF Base
        <3>4. SegmentChunk(seg).start = Reserved \/ SegmentChunk(seg).start % DataChunkSize = 0
            BY <3>2, <3>3 DEF Multiple
        <3>5. \A k \in DOMAIN chunks' : k \in DOMAIN chunks \/ k = Len(chunks) + 1
            BY <2>2
        <3> QED BY <2>2, <3>4, <3>5 DEF PlacesInv, DataChunksAtSegments
    <2> QED BY <2>1, <2>2, ScanSegmentShape
<1> QED BY <1>1, <1>2, <1>3 DEF PlacesInv

LEMMA CallPlaces ==
    ASSUME IInv, PlacesInv, NEW type, NEW size, NEW length, NEW counted,
           AllocatorCall(type, size, length, counted)
    PROVE  PlacesInv'
<1>1. phase # "scan" /\ seg # 0 /\ seg \in Nat
    BY CallShape DEF PlacesInv, IInv, TypeOK
<1>2. ListGrid(DataChunkSize) /\ ListGrid(DataChunkSize)'
    BY <1>1, ChunkSizeMultiple, CallGrid DEF PlacesInv
<1>3. ASSUME NEW n \in Nat, NEW start \in Nat, ChunkMade(n, start, size, type)
      PROVE  DataChunksAtSegments' /\ seg' = seg
    <2>1. /\ \A k \in DOMAIN chunks' : k = n \/ k \in DOMAIN chunks
          /\ \A k \in DOMAIN chunks : chunks'[k] = chunks[k]
          /\ chunks'[n].start = start /\ chunks'[n].type = type
          /\ seg' = seg /\ IsFirstFit(start, space_list, size)
        BY <1>3 DEF ChunkMade
    <2>2. type = "data" => start % DataChunkSize = 0
        <3>1. type = "data" => size = DataChunkSize /\ phase \in {"protect", "rewrite"}
            BY DEF AllocatorCall
        <3>2. type = "data" => GridBelow(space_list, DataChunkSize, DeviceSize)
            BY <1>2, <3>1 DEF ListGrid
        <3>3. type = "data" => Multiple(start, DataChunkSize)
            BY <2>1, <3>1, <3>2, ChunkSizeMultiple, NewDataChunkStart
        <3> QED BY <3>3 DEF Multiple
    <2> QED BY <2>1, <2>2 DEF PlacesInv, DataChunksAtSegments
<1>4. ASSUME NEW i \in DOMAIN chunks, NEW addr \in Nat, TakenFrom(i, addr, length, type, counted)
      PROVE  DataChunksAtSegments' /\ seg' = seg
    BY <1>4 DEF TakenFrom, PlacesInv, DataChunksAtSegments
<1>5. CASE ChunksKept
    BY <1>1, <1>2, <1>5 DEF ChunksKept, PlacesInv, DataChunksAtSegments
<1>6. DataChunksAtSegments' /\ seg' = seg => PlacesInv'
    BY <1>1, <1>2 DEF PlacesInv
<1> QED BY <1>3, <1>4, <1>5, <1>6, CallShape

LEMMA KeptPlaces ==
    ASSUME BootInUse, IInv, PlacesInv, ChunksKept, [Next]_vars
    PROVE  PlacesInv'
<1>1. seg = 0 => phase' = "scan"
    <2>1. CASE NextPhase
        <3>1. Base(0) = 0 /\ DeviceSize > 0
            BY DEF Base, BootInUse
        <3> QED BY <2>1, <3>1 DEF NextPhase, PlacesInv
    <2>2. CASE phase' = phase
        BY <2>2 DEF PlacesInv
    <2>3. CASE phase # "scan"
        BY <2>3 DEF PlacesInv
    <2>4. phase = "scan" => NextPhase \/ phase' = phase
        BY DEF Next, ScanSegment, vars
    <2> QED BY <2>1, <2>2, <2>3, <2>4
<1>2. ListGrid(DataChunkSize) => ListGrid(DataChunkSize)'
    BY DEF ChunksKept, ListGrid, GridBelow
<1> QED BY <1>1, <1>2 DEF ChunksKept, PlacesInv, DataChunksAtSegments

\* The runs of relocated and rewritten data are filed under the segment they lie in:
\* every data chunk, those made in the rest of the device included, starts where a
\* segment does, but for the one after the reserved area.
THEOREM DataChunksStartAtSegments ==
    ASSUME WholeStripes, BootInUse
    PROVE  Spec => []DataChunksAtSegments
<1>1. Init => PlacesInv
    BY DEF Init, PlacesInv, DataChunksAtSegments
<1>2. IInv /\ PlacesInv /\ [Next]_vars => PlacesInv'
    BY NextCases, ScanSegmentPlaces, CallPlaces, KeptPlaces
<1>3. PlacesInv => DataChunksAtSegments
    BY DEF PlacesInv
<1> QED BY <1>1, <1>2, <1>3, Invariant, PTL DEF Spec

-----------------------------------------------------------------------------
(* Data starts on a cluster.                                               *)

\* A stripe is a number of clusters, and so is what a file asks for.
WholeClusters ==
    /\ Reserved % ClusterSize = 0
    /\ StripeLen % ClusterSize = 0
    /\ DataChunkSize % ClusterSize = 0
    /\ \A sb \in SuperAddrs : sb % ClusterSize = 0
    /\ \A length \in DataLengths : length % ClusterSize = 0

FreeGrid == \A i \in DOMAIN chunks :
                chunks[i].type = "data" => Grid(chunks[i].free, ClusterSize)

AlignedInv == ListGrid(ClusterSize) /\ FreeGrid /\ DataAligned

LEMMA ClusterMultiples ==
    ASSUME WholeClusters
    PROVE  /\ ClusterSize \in Nat \ {0}
           /\ Multiple(ClusterSize, ClusterSize)
           /\ Multiple(Reserved, ClusterSize) /\ Multiple(DataChunkSize, ClusterSize)
           /\ \A sb \in SuperAddrs : sb \in Nat /\ Multiple(sb + StripeLen, ClusterSize)
           /\ \A length \in DataLengths : Multiple(length, ClusterSize)
<1>1. /\ Multiple(Reserved, ClusterSize) /\ Multiple(DataChunkSize, ClusterSize)
      /\ Multiple(StripeLen, ClusterSize)
      /\ \A length \in DataLengths : Multiple(length, ClusterSize)
      /\ \A sb \in SuperAddrs : Multiple(sb, ClusterSize)
    BY DEF WholeClusters, Multiple
<1>2. ClusterSize \in Nat \ {0} /\ StripeLen \in Int /\ SuperAddrs \subseteq Nat
    OBVIOUS
<1>3. Multiple(ClusterSize, ClusterSize)
    <2>1. ClusterSize = 1 * ClusterSize /\ ClusterSize \in Int
        OBVIOUS
    <2>2. \E p \in Int : ClusterSize = p * ClusterSize
        BY <2>1
    <2> QED BY <1>2, <2>1, <2>2, MultipleWitness
<1>4. ASSUME NEW sb \in SuperAddrs
      PROVE  sb \in Nat /\ Multiple(sb + StripeLen, ClusterSize)
    <2>1. sb \in Nat /\ sb \in Int
        BY <1>2
    <2> QED BY <1>1, <1>2, <2>1, MultipleSum
<1> QED BY <1>1, <1>2, <1>3, <1>4

\* The superblocks leave whole clusters.
LEMMA SuperblockGrid ==
    ASSUME WholeClusters, NEW start \in Nat, NEW size \in Nat, NEW u \in Nat,
           u \in Extent(start, size) \ SuperSpace(start, size),
           ~ Multiple(u, ClusterSize)
    PROVE  u - 1 \notin SuperSpace(start, size)
<1> SUFFICES ASSUME NEW sb \in SuperAddrs, u - 1 \in Extent(sb, StripeLen) PROVE FALSE
    BY DEF SuperSpace
<1>1. u \notin Extent(sb, StripeLen)
    BY DEF SuperSpace
<1>2. sb \in Nat /\ Multiple(sb + StripeLen, ClusterSize)
    BY ClusterMultiples
<1>3. u = sb + StripeLen
    BY <1>1, <1>2 DEF Extent
<1> QED BY <1>2, <1>3

LEMMA NewChunkGrid ==
    ASSUME WholeClusters, NEW start \in Nat, NEW size \in Nat, Multiple(start, ClusterSize)
    PROVE  Grid(Extent(start, size) \ SuperSpace(start, size), ClusterSize)
<1> SUFFICES ASSUME NEW u \in Extent(start, size) \ SuperSpace(start, size),
                    ~ Multiple(u, ClusterSize)
             PROVE  u - 1 \in Extent(start, size) \ SuperSpace(start, size)
    BY DEF Grid
<1>1. u \in Nat /\ u # start /\ u - 1 \in Extent(start, size)
    BY DEF Extent
<1> QED BY <1>1, SuperblockGrid

\* Between the clusters in use are whole clusters.
LEMMA SegmentChunkGrid ==
    ASSUME WholeStripes, WholeClusters, TypeOK, Base(seg) < DeviceSize
    PROVE  Grid(SegmentChunk(seg).free, ClusterSize)
<1> DEFINE c == SegmentChunk(seg)
<1>1. seg \in Nat
    BY DEF TypeOK
<1>2. /\ c.start \in Nat /\ c.length \in Nat
      /\ c.start + c.length = Base(seg) + ChunkLength(seg)
      /\ c.start = Base(seg) + Shift(seg) /\ Shift(seg) \in Nat
      /\ c.free = (Unused(seg) \ Extent(Base(seg), Shift(seg)))
                    \ SuperSpace(c.start, c.length)
    BY <1>1, SegmentChunkPlace, ChunkStart DEF SpaceListRemove
<1>3. /\ Base(seg) \in Nat /\ ChunkLength(seg) = SegLength(seg) /\ SegLength(seg) \in Nat
      /\ Unused(seg) \subseteq Base(seg) .. (Base(seg) + SegLength(seg) - 1)
    BY <1>1, BaseType, SegmentFacts, WholeSegments, UnusedFacts
<1>4. Multiple(Base(seg), ClusterSize)
    <2>1. seg \in Int /\ DataChunkSize \in Int
        BY <1>1
    <2> QED BY <2>1, ClusterMultiples, MultipleProduct DEF Base
<1>5. c.start = Base(seg) \/ c.start = Reserved
    BY <1>2, <1>3 DEF Shift
<1> HIDE DEF c
<1> SUFFICES ASSUME NEW u \in c.free, ~ Multiple(u, ClusterSize)
             PROVE  u - 1 \in c.free
    BY DEF Grid, c
<1>6. /\ u \in Unused(seg) /\ u \notin Extent(Base(seg), Shift(seg))
      /\ u \notin SuperSpace(c.start, c.length)
      /\ u \in Nat /\ u >= Base(seg) /\ u < Base(seg) + SegLength(seg)
    BY <1>2, <1>3
<1>7. u # c.start /\ u # Base(seg)
    BY <1>4, <1>5, ClusterMultiples
<1>8. u - 1 \in Unused(seg)
    <2>1. u - 1 \notin UsedSpace(seg)
        <3> SUFFICES ASSUME NEW k \in UsedClusters(seg),
                            u - 1 \in Extent(ClusterAddr(seg, k), ClusterSize)
                     PROVE  FALSE
            BY DEF UsedSpace
        <3>1. Examined(seg) \in Nat
            BY <1>1, SegmentFacts DEF Examined
        <3>2. k \in Int
            BY <3>1, ScanBounded DEF UsedClusters
        <3>3. u \notin Extent(ClusterAddr(seg, k), ClusterSize)
            BY <1>6 DEF Unused, UsedSpace
        <3>4. ClusterAddr(seg, k) \in Int
            BY <1>3, <3>2 DEF ClusterAddr
        <3>5. u = ClusterAddr(seg, k) + ClusterSize
            BY <1>6, <3>3, <3>4 DEF Extent
        <3>6. Multiple(ClusterAddr(seg, k), ClusterSize)
            <4>1. Multiple(k * ClusterSize, ClusterSize) /\ k * ClusterSize \in Int
                BY <3>2, ClusterMultiples, MultipleProduct
            <4>2. Base(seg) \in Int
                BY <1>3
            <4> QED BY <1>4, <4>1, <4>2, ClusterMultiples, MultipleSum DEF ClusterAddr
        <3>7. Multiple(ClusterAddr(seg, k) + ClusterSize, ClusterSize)
            <4>1. ClusterSize \in Int
                OBVIOUS
            <4> QED BY <3>4, <3>6, <4>1, ClusterMultiples, MultipleSum
        <3> QED BY <3>5, <3>7
    <2>2. u < Base(seg) + ChunkLength(seg)
        BY <1>3, <1>6
    <2>3. u - 1 \in Base(seg) .. DeviceSize - 1
        BY <1>3, <1>6, <1>7 DEF Unused
    <2> QED BY <1>3, <1>6, <2>1, <2>2, <2>3 DEF Unused
<1>9. u - 1 \notin Extent(Base(seg), Shift(seg))
    BY <1>2, <1>3, <1>6, <1>7 DEF Extent
<1>10. u - 1 \notin SuperSpace(c.start, c.length)
    <2>1. u \in Extent(c.start, c.length)
        BY <1>2, <1>3, <1>6 DEF Extent
    <2> QED BY <1>2, <1>6, <2>1, SuperblockGrid
<1> QED BY <1>2, <1>8, <1>9, <1>10

LEMMA ScanSegmentAligned ==
    ASSUME WholeStripes, WholeClusters, IInv, AlignedInv, ScanSegment
    PROVE  AlignedInv'
<1>1. TypeOK /\ Base(seg) < DeviceSize /\ allocated' = {}
    BY ScanSegmentShape DEF IInv
<1>2. ListGrid(ClusterSize)'
    BY ClusterMultiples, ScanSegmentGrid DEF AlignedInv
<1>3. FreeGrid'
    <2>1. CASE UNCHANGED chunks
        BY <2>1 DEF AlignedInv, FreeGrid
    <2>2. CASE /\ DOMAIN chunks = 1 .. Len(chunks) /\ DOMAIN chunks' = 1 .. Len(chunks) + 1
               /\ Len(chunks) \in Nat
               /\ \A k \in DOMAIN chunks : chunks'[k] = chunks[k]
               /\ chunks'[Len(chunks) + 1] = SegmentChunk(seg)
        <3>1. \A k \in DOMAIN chunks' : k \in DOMAIN chunks \/ k = Len(chunks) + 1
            BY <2>2
        <3>2. Grid(SegmentChunk(seg).free, ClusterSize)
            BY <1>1, SegmentChunkGrid
        <3> QED BY <2>2, <3>1, <3>2 DEF AlignedInv, FreeGrid
    <2> QED BY <2>1, <2>2, ScanSegmentShape
<1>4. DataAligned'
    BY <1>1 DEF DataAligned
<1> QED BY <1>2, <1>3, <1>4 DEF AlignedInv

\* What is asked for is whole clusters, and is taken at the start of a run.
LEMMA TakeAligned ==
    ASSUME NEW free \in SUBSET Nat, NEW length \in Nat \ {0}, NEW addr \in Nat,
           Grid(free, ClusterSize), Multiple(length, ClusterSize),
           IsFirstFit(addr, free, length)
    PROVE  Multiple(addr, ClusterSize) /\ Grid(free \ Extent(addr, length), ClusterSize)
<1>1. ClusterSize \in Nat \ {0} /\ addr + 1 \in Nat /\ addr < addr + 1
    OBVIOUS
<1>2. GridBelow(free, ClusterSize, addr + 1)
    BY DEF Grid, GridBelow
<1>3. Multiple(addr, ClusterSize)
    BY <1>1, <1>2, GridFit
<1> QED BY <1>1, <1>3, GridTake

LEMMA CallAligned ==
    ASSUME WholeStripes, WholeClusters, IInv, AlignedInv,
           NEW type, NEW size, NEW length, NEW counted,
           AllocatorCall(type, size, length, counted)
    PROVE  AlignedInv'
<1>1. /\ TypeOK /\ length \in Nat \ {0} /\ size \in Nat
      /\ type = "data" => /\ size = DataChunkSize /\ phase \in {"protect", "rewrite"}
                          /\ length = ClusterSize \/ length \in DataLengths
    BY CallShape DEF AllocatorCall, IInv
<1>2. ListGrid(ClusterSize)'
    BY ClusterMultiples, CallGrid DEF AlignedInv
<1>3. type = "data" => Multiple(length, ClusterSize)
    BY <1>1, ClusterMultiples
<1>4. \A addr : Allocation(addr, length, type, counted).addr = addr
                /\ Allocation(addr, length, type, counted).type = type
    BY DEF Allocation
<1>5. ASSUME NEW addr \in Nat, type = "data" => Multiple(addr, ClusterSize),
             allocated' = allocated \cup {Allocation(addr, length, type, counted)}
      PROVE  DataAligned'
    BY <1>4, <1>5 DEF AlignedInv, DataAligned, Multiple
<1>6. ASSUME NEW i \in DOMAIN chunks, NEW addr \in Nat, TakenFrom(i, addr, length, type, counted)
      PROVE  FreeGrid' /\ DataAligned'
    <2>1. /\ DOMAIN chunks' = DOMAIN chunks
          /\ \A k \in DOMAIN chunks : k # i => chunks'[k] = chunks[k]
          /\ chunks'[i].type = chunks[i].type /\ chunks[i].type = type
          /\ chunks'[i].free = chunks[i].free \ Extent(addr, length)
          /\ IsFirstFit(addr, chunks[i].free, length)
          /\ allocated' = allocated \cup {Allocation(addr, length, type, counted)}
        BY <1>6 DEF TakenFrom
    <2>2. type = "data" => /\ Multiple(addr, ClusterSize)
                           /\ Grid(chunks'[i].free, ClusterSize)
        <3>1. chunks[i].free \in SUBSET Nat
            BY <1>1, ChunkFields
        <3>2. type = "data" => Grid(chunks[i].free, ClusterSize)
            BY <2>1 DEF AlignedInv, FreeGrid
        <3> QED BY <1>1, <1>3, <2>1, <3>1, <3>2, TakeAligned
    <2>3. FreeGrid'
        BY <2>1, <2>2 DEF AlignedInv, FreeGrid
    <2> QED BY <1>5, <2>1, <2>2, <2>3
<1>7. ASSUME NEW n \in Nat, NEW start \in Nat, ChunkMade(n, start, size, type),
             \/ \E addr \in Nat : TakenFromNew(n, start, size, type, addr, length, counted)
             \/ NoRoomInNew(n, start, size)
      PROVE  FreeGrid' /\ DataAligned'
    <2> DEFINE free == Extent(start, size) \ SuperSpace(start, size)
    <2>1. /\ \A k \in DOMAIN chunks' : k = n \/ k \in DOMAIN chunks
          /\ \A k \in DOMAIN chunks : chunks'[k] = chunks[k]
          /\ chunks'[n].type = type /\ IsFirstFit(start, space_list, size)
        BY <1>7 DEF ChunkMade
    <2>2. type = "data" => Grid(free, ClusterSize)
        <3>1. type = "data" => GridBelow(space_list, ClusterSize, DeviceSize)
            BY <1>1 DEF AlignedInv, ListGrid
        <3>2. type = "data" => Multiple(start, ClusterSize)
            BY <1>1, <2>1, <3>1, ClusterMultiples, NewDataChunkStart
        <3> QED BY <1>1, <3>2, NewChunkGrid
    <2>3. free \in SUBSET Nat
        BY <1>1 DEF Extent
    <2>4. CASE NoRoomInNew(n, start, size)
        <3>1. chunks'[n].free = free /\ allocated' = allocated
            BY <2>4 DEF NoRoomInNew
        <3> HIDE DEF free
        <3> QED BY <2>1, <2>2, <3>1 DEF AlignedInv, FreeGrid, DataAligned
    <2>5. ASSUME NEW addr \in Nat, TakenFromNew(n, start, size, type, addr, length, counted)
          PROVE  FreeGrid' /\ DataAligned'
        <3>1. /\ chunks'[n].free = free \ Extent(addr, length)
              /\ IsFirstFit(addr, free, length)
              /\ allocated' = allocated \cup {Allocation(addr, length, type, counted)}
            BY <2>5 DEF TakenFromNew
        <3> HIDE DEF free
        <3>2. type = "data" => /\ Multiple(addr, ClusterSize)
                               /\ Grid(chunks'[n].free, ClusterSize)
            BY <1>1, <1>3, <2>2, <2>3, <3>1, TakeAligned
        <3>3. FreeGrid'
            BY <2>1, <3>2 DEF AlignedInv, FreeGrid
        <3> QED BY <1>5, <3>1, <3>2, <3>3
    <2> QED BY <1>7, <2>4, <2>5
<1>8. ASSUME ChunksKept PROVE FreeGrid' /\ DataAligned'
    BY <1>8 DEF ChunksKept, AlignedInv, FreeGrid, DataAligned
<1>9. FreeGrid' /\ DataAligned'
    BY <1>6, <1>7, <1>8, CallShape
<1> QED BY <1>2, <1>9 DEF AlignedInv

LEMMA InitAligned ==
    ASSUME WholeClusters, Init
    PROVE  AlignedInv
<1>1. space_list = Extent(Reserved, DeviceSize) /\ chunks = <<>> /\ allocated = {}
    BY DEF Init
<1>2. GridBelow(space_list, ClusterSize, DeviceSize)
    <2> SUFFICES ASSUME NEW u \in Extent(Reserved, DeviceSize), u < DeviceSize,
                        ~ Multiple(u, ClusterSize)
                 PROVE  u - 1 \in Extent(Reserved, DeviceSize)
        BY <1>1 DEF GridBelow
    <2>1. u # Reserved
        BY ClusterMultiples
    <2> QED BY <2>1 DEF Extent
<1> QED BY <1>1, <1>2 DEF AlignedInv, ListGrid, FreeGrid, DataAligned

\* Data starts on a cluster, before, between and after the superblocks, so that the
\* number of a relocated or rewritten cluster says where it is.
THEOREM DataStartsOnClusters ==
    ASSUME WholeStripes, WholeClusters
    PROVE  Spec => []DataAligned
<1>1. Init => AlignedInv
    BY InitAligned
<1>2. IInv /\ AlignedInv /\ [Next]_vars => AlignedInv'
    <2>1. IInv /\ AlignedInv /\ ChunksKept => AlignedInv'
        BY DEF ChunksKept, AlignedInv, ListGrid, GridBelow, FreeGrid, DataAligned
    <2> QED BY <2>1, NextCases, ScanSegmentAligned, CallAligned
<1>3. AlignedInv => DataAligned
    BY DEF AlignedInv
<1> QED BY <1>1, <1>2, <1>3, Invariant, PTL DEF Spec

=============================================================================
