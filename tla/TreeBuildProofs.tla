-------------------------- MODULE TreeBuildProofs --------------------------
(***************************************************************************)
(* The trees that are laid out again and again until nothing changes any   *)
(* more: no two of their blocks share space, every item but those of the   *)
(* blocks themselves is in a leaf of the tree that is written, and from    *)
(* the superblock all is found.                                            *)
(***************************************************************************)
EXTENDS TreeBuild, ConversionProofs

-----------------------------------------------------------------------------
(* The order of the keys. *)

Keys == Nat \X Nat \X Nat

LEMMA KeyOrder ==
    ASSUME NEW k \in Keys, NEW l \in Keys, NEW m \in Keys
    PROVE  /\ ~ KeyBefore(k, k)
           /\ KeyBefore(k, l) /\ KeyBefore(l, m) => KeyBefore(k, m)
           /\ KeyBefore(k, l) \/ k = l \/ KeyBefore(l, k)
<1>1. /\ k[1] \in Nat /\ k[2] \in Nat /\ k[3] \in Nat /\ k = <<k[1], k[2], k[3]>>
      /\ l[1] \in Nat /\ l[2] \in Nat /\ l[3] \in Nat /\ l = <<l[1], l[2], l[3]>>
      /\ m[1] \in Nat /\ m[2] \in Nat /\ m[3] \in Nat
    BY DEF Keys
<1> QED BY <1>1 DEF KeyBefore

LEMMA NoKeyFirst ==
    ASSUME NEW k \in Keys
    PROVE  ~ KeyBefore(k, NoKey)
BY DEF Keys, KeyBefore, NoKey

KeysBelow(S, k) == {l \in S : KeyBefore(l, k)}
KeyRank(S, k) == Cardinality(KeysBelow(S, k))

LEMMA RankOfKey ==
    ASSUME NEW S \in SUBSET Keys, IsFiniteSet(S), NEW k \in S
    PROVE  /\ IsFiniteSet(KeysBelow(S, k)) /\ KeyRank(S, k) \in Nat
           /\ KeyRank(S, k) < Cardinality(S) /\ Cardinality(S) \in Nat
<1>1. KeysBelow(S, k) \in SUBSET S /\ k \notin KeysBelow(S, k)
    BY KeyOrder DEF KeysBelow
<1>2. /\ IsFiniteSet(KeysBelow(S, k)) /\ Cardinality(KeysBelow(S, k)) <= Cardinality(S)
      /\ Cardinality(KeysBelow(S, k)) # Cardinality(S)
    BY <1>1, FS_Subset
<1>3. KeyRank(S, k) \in Nat /\ Cardinality(S) \in Nat
    BY <1>2, FS_CardinalityType DEF KeyRank
<1> QED BY <1>2, <1>3 DEF KeyRank

LEMMA RankOfKeyGrows ==
    ASSUME NEW S \in SUBSET Keys, IsFiniteSet(S), NEW k \in S, NEW l \in S, KeyBefore(k, l)
    PROVE  KeyRank(S, k) < KeyRank(S, l)
<1>1. /\ KeysBelow(S, k) \cup {k} \subseteq KeysBelow(S, l)
      /\ k \notin KeysBelow(S, k)
    <2>1. \A m \in S : KeyBefore(m, k) => KeyBefore(m, l)
        BY KeyOrder
    <2> QED BY <2>1, KeyOrder DEF KeysBelow
<1>2. /\ IsFiniteSet(KeysBelow(S, k)) /\ IsFiniteSet(KeysBelow(S, l))
      /\ KeyRank(S, k) \in Nat /\ KeyRank(S, l) \in Nat
    BY RankOfKey
<1>3. /\ IsFiniteSet(KeysBelow(S, k) \cup {k})
      /\ Cardinality(KeysBelow(S, k) \cup {k}) = KeyRank(S, k) + 1
    BY <1>1, <1>2, FS_AddElement DEF KeyRank
<1>4. KeyRank(S, k) + 1 <= KeyRank(S, l)
    BY <1>1, <1>2, <1>3, FS_Subset DEF KeyRank
<1> QED BY <1>2, <1>4

LEMMA KeyRanks ==
    ASSUME NEW S \in SUBSET Keys, IsFiniteSet(S)
    PROVE  /\ Cardinality(S) \in Nat
           /\ \A k \in S : KeyRank(S, k) \in 0 .. Cardinality(S) - 1
           /\ \A i \in 0 .. Cardinality(S) - 1 : \E k \in S : KeyRank(S, k) = i
<1> DEFINE c == Cardinality(S)
           f == [k \in S |-> KeyRank(S, k)]
<1>1. c \in Nat
    BY FS_CardinalityType
<1>2. \A k \in S : KeyRank(S, k) \in Nat /\ KeyRank(S, k) < c
    BY RankOfKey
<1>3. \A k, l \in S : KeyBefore(k, l) => KeyRank(S, k) < KeyRank(S, l)
    BY RankOfKeyGrows
<1>4. f \in Injection(S, 0 .. c - 1)
    <2>1. f \in [S -> 0 .. c - 1]
        BY <1>1, <1>2
    <2>2. ASSUME NEW k \in S, NEW l \in S, f[k] = f[l] PROVE k = l
        <3>1. KeyRank(S, k) = KeyRank(S, l) /\ KeyRank(S, k) \in Nat
            BY <1>2, <2>2
        <3>2. ~ KeyBefore(k, l) /\ ~ KeyBefore(l, k)
            BY <1>3, <3>1
        <3> QED BY <3>2, KeyOrder
    <2> HIDE DEF f, c
    <2> QED BY <2>1, <2>2 DEF Injection, IsInjective
<1>5. IsFiniteSet(0 .. c - 1) /\ Cardinality(0 .. c - 1) = c
    <2>1. 0 \in Int /\ c - 1 \in Int
        BY <1>1
    <2> HIDE DEF c
    <2> QED BY <1>1, <2>1, FS_Interval
<1>6. f \in Surjection(S, 0 .. c - 1)
    <2> HIDE DEF f
    <2> QED BY <1>4, <1>5, FS_Injection
<1>7. \A i \in 0 .. c - 1 : \E k \in S : KeyRank(S, k) = i
    BY <1>6 DEF Surjection
<1> QED BY <1>1, <1>2, <1>7

\* Sorting the keys of a leaf loses none of them.
LEMMA SortedKeys ==
    ASSUME NEW S \in SUBSET Keys, IsFiniteSet(S)
    PROVE  Range(Sorted(S)) = S
<1> DEFINE c == Cardinality(S)
           At(i) == CHOOSE k \in S : KeyRank(S, k) = i - 1
<1>1. Sorted(S) = [i \in 1 .. c |-> At(i)]
    BY Zenon DEF Sorted, KeyRank, KeysBelow
<1>2. c \in Nat
    BY KeyRanks
<1>3. ASSUME NEW i \in 1 .. c PROVE At(i) \in S /\ KeyRank(S, At(i)) = i - 1
    <2>1. i - 1 \in 0 .. c - 1
        BY <1>2
    <2>2. \E k \in S : KeyRank(S, k) = i - 1
        BY <2>1, KeyRanks
    <2> QED BY <2>2, Zenon
<1> HIDE DEF At
<1>4. ASSUME NEW k \in S PROVE \E i \in 1 .. c : At(i) = k
    <2>1. KeyRank(S, k) \in 0 .. c - 1
        BY KeyRanks
    <2> DEFINE i == KeyRank(S, k) + 1
    <2>2. i \in 1 .. c /\ i - 1 = KeyRank(S, k)
        BY <1>2, <2>1
    <2>3. At(i) \in S /\ KeyRank(S, At(i)) = KeyRank(S, k)
        BY <1>3, <2>2
    <2>4. At(i) = k
        <3>1. KeyRank(S, k) \in Nat
            BY RankOfKey
        <3>2. ~ KeyBefore(At(i), k) /\ ~ KeyBefore(k, At(i))
            BY <2>3, <3>1, RankOfKeyGrows
        <3> QED BY <2>3, <3>2, KeyOrder
    <2> QED BY <2>2, <2>4
<1>5. Range(Sorted(S)) = {At(i) : i \in 1 .. c}
    BY <1>1 DEF Range
<1> QED BY <1>3, <1>4, <1>5

\* Among finitely many keys there is a first.
LEMMA FirstOfKeys ==
    ASSUME NEW S \in SUBSET Keys, IsFiniteSet(S), S # {}
    PROVE  /\ FirstKey(S) \in S
           /\ \A l \in S : ~ KeyBefore(l, FirstKey(S))
<1>1. Cardinality(S) \in Nat /\ Cardinality(S) # 0
    BY FS_CardinalityType, FS_EmptySet
<1>2. PICK k \in S : KeyRank(S, k) = 0
    <2>1. 0 \in 0 .. Cardinality(S) - 1
        BY <1>1
    <2> QED BY <2>1, KeyRanks
<1>3. KeysBelow(S, k) = {}
    <2>1. IsFiniteSet(KeysBelow(S, k))
        BY FS_Subset DEF KeysBelow
    <2> QED BY <1>2, <2>1, FS_EmptySet DEF KeyRank
<1>4. \E m \in S : \A l \in S : ~ KeyBefore(l, m)
    BY <1>3 DEF KeysBelow
<1> QED BY <1>4, Zenon DEF FirstKey

USE ChunkSpaceAssumption, TreeBuildAssumption

-----------------------------------------------------------------------------
(* Sequences of blocks and of addresses. *)

IsList(s) == s \in Seq(Range(s))

LEMMA ListOf ==
    ASSUME NEW S, NEW s \in Seq(S)
    PROVE  IsList(s) /\ Range(s) \subseteq S
<1>1. s = [i \in 1 .. Len(s) |-> s[i]] /\ Len(s) \in Nat /\ DOMAIN s = 1 .. Len(s)
    OBVIOUS
<1>2. \A i \in 1 .. Len(s) : s[i] \in Range(s) /\ s[i] \in S
    BY <1>1 DEF Range
<1> DEFINE R == Range(s)
<1>3. R \subseteq S
    BY <1>1, <1>2 DEF Range
<1>4. s \in Seq(R)
    <2> DEFINE n == Len(s)
               Item(i) == s[i]
    <2>1. n \in Nat /\ s = [i \in 1 .. n |-> Item(i)] /\ \A i \in 1 .. n : Item(i) \in R
        BY <1>1, <1>2
    <2> HIDE DEF R, n, Item
    <2>2. [i \in 1 .. n |-> Item(i)] \in Seq(R)
        BY <2>1
    <2> QED BY <2>1, <2>2
<1> QED BY <1>3, <1>4 DEF IsList

LEMMA Appended ==
    ASSUME NEW s, IsList(s), NEW e
    PROVE  /\ IsList(Append(s, e)) /\ Len(s) \in Nat /\ DOMAIN s = 1 .. Len(s)
           /\ Len(Append(s, e)) = Len(s) + 1 /\ DOMAIN Append(s, e) = 1 .. Len(s) + 1
           /\ \A i \in 1 .. Len(s) : Append(s, e)[i] = s[i]
           /\ Append(s, e)[Len(s) + 1] = e
<1> DEFINE T == Range(s) \cup {e}
<1>1. Range(s) \subseteq T /\ e \in T
    OBVIOUS
<1> HIDE DEF T
<1>2. s \in Seq(T)
    BY <1>1 DEF IsList
<1>3. Append(s, e) \in Seq(T)
    BY <1>1, <1>2
<1>4. /\ Len(s) \in Nat /\ DOMAIN s = 1 .. Len(s)
      /\ Len(Append(s, e)) = Len(s) + 1 /\ DOMAIN Append(s, e) = 1 .. Len(s) + 1
      /\ \A i \in 1 .. Len(s) : Append(s, e)[i] = s[i]
      /\ Append(s, e)[Len(s) + 1] = e
    BY <1>1, <1>2
<1> QED BY <1>3, <1>4, ListOf

LEMMA Shortened ==
    ASSUME NEW s, IsList(s), s # <<>>
    PROVE  /\ IsList(Tail(s)) /\ Len(s) \in Nat \ {0} /\ DOMAIN s = 1 .. Len(s)
           /\ Head(s) = s[1] /\ Len(Tail(s)) = Len(s) - 1 /\ DOMAIN Tail(s) = 1 .. Len(s) - 1
           /\ \A i \in 1 .. Len(s) - 1 : Tail(s)[i] = s[i + 1]
<1> DEFINE T == Range(s)
<1>1. s \in Seq(T)
    BY DEF IsList
<1> HIDE DEF T
<1>2. Tail(s) \in Seq(T)
    BY <1>1
<1>3. /\ Len(s) \in Nat \ {0} /\ DOMAIN s = 1 .. Len(s)
      /\ Head(s) = s[1] /\ Len(Tail(s)) = Len(s) - 1 /\ DOMAIN Tail(s) = 1 .. Len(s) - 1
      /\ \A i \in 1 .. Len(s) - 1 : Tail(s)[i] = s[i + 1]
    BY <1>1
<1> QED BY <1>2, <1>3, ListOf

LEMMA EmptyList == IsList(<<>>) /\ Len(<<>>) = 0 /\ DOMAIN <<>> = {} /\ Range(<<>>) = {}
BY DEF IsList, Range

\* What is in a queue is its first or in the rest of it.
LEMMA QueueParts ==
    ASSUME NEW S, NEW q \in Seq(S), q # <<>>
    PROVE  /\ Head(q) \in S /\ Tail(q) \in Seq(S)
           /\ \A r \in Range(q) : r = Head(q) \/ r \in Range(Tail(q))
<1>1. Head(q) \in S /\ Tail(q) \in Seq(S)
    OBVIOUS
<1>2. ASSUME NEW i \in DOMAIN q PROVE q[i] = Head(q) \/ q[i] \in Range(Tail(q))
    <2>1. i \in 1 .. Len(q) /\ Len(q) \in Nat /\ q[1] = Head(q)
        OBVIOUS
    <2>2. CASE i = 1
        BY <2>1, <2>2
    <2>3. CASE i # 1
        <3>1. i - 1 \in DOMAIN Tail(q) /\ Tail(q)[i - 1] = q[i]
            BY <2>1, <2>3
        <3> QED BY <3>1 DEF Range
    <2> QED BY <2>2, <2>3
<1> QED BY <1>1, <1>2 DEF Range

-----------------------------------------------------------------------------
(* The chunks under the trees. *)

TreePhase ==
    /\ layout \in {"scan", "next", "leaves", "nodes", "super", "done"}
    /\ IF layout = "scan" THEN phase \in {"scan", "protect", "rewrite"}
                          ELSE phase \in {"trees", "failed"}

\* The trees ask for space one block at a time.
LEMMA AddBlockCalls ==
    ASSUME phase = "trees", NEW r, NEW lvl, NEW content, NEW pending,
           AddBlock(r, lvl, content, pending)
    PROVE  /\ Quiet \/ Calls
           /\ phase' \in {"trees", "failed"}
<1>1. CASE ReuseAddress(r, lvl, content, pending)
    <2>1. /\ UNCHANGED <<in_use, seg, space_list, chunks, allocated>>
          /\ phase' = phase \/ phase' = "failed"
        BY <1>1 DEF ReuseAddress
    <2> QED BY <2>1 DEF Quiet, ChunksKept
<1>2. CASE NewAddress(r, lvl, content, pending)
    <2>1. AllocateMetadata(r = ChunkTree) /\ (r = ChunkTree) \in BOOLEAN
        BY <1>2 DEF NewAddress
    <2>2. Calls
        BY <2>1, MetadataCalls DEF Calls
    <2>3. phase' \in {"trees", "failed"}
        BY <2>1 DEF AllocateMetadata, Allocate, FromChunk, NewChunk, NoSpace
    <2> QED BY <2>2, <2>3
<1> QED BY <1>1, <1>2 DEF AddBlock

LEMMA TreeSteps ==
    ASSUME TreePhase, [TreeNext]_<<vars, tvars>>
    PROVE  TreePhase' /\ (ScanSegment \/ Quiet \/ Calls)
<1>1. CASE Prepare
    <2>1. CASE ScanSegment
        <3>1. phase' = phase
            BY <2>1 DEF ScanSegment
        <3> QED BY <1>1, <2>1, <3>1 DEF Prepare, TreePhase
    <2>2. CASE NextPhase
        BY <1>1, <2>2, NextPhaseQuiet DEF Prepare, TreePhase
    <2> QED BY <1>1, <2>1, <2>2 DEF Prepare
<1>2. CASE BeginTree \/ Rebuild \/ UpdateTrees \/ UNCHANGED <<vars, tvars>>
    <2>1. UNCHANGED vars
        BY <1>2 DEF BeginTree, Rebuild, UpdateTrees
    <2>2. phase' = phase
        BY <2>1 DEF vars
    <2>3. TreePhase'
        BY <1>2, <2>2 DEF BeginTree, Rebuild, UpdateTrees, TreePhase, tvars, building
    <2> QED BY <2>1, <2>3, UnchangedQuiet
<1>3. CASE TooLarge \/ WriteSuper
    <2>1. /\ UNCHANGED <<in_use, seg, space_list, chunks, allocated>>
          /\ phase' = phase \/ phase' = "failed"
          /\ layout # "scan" /\ layout' \in {layout, "done"}
        BY <1>3 DEF TooLarge, WriteSuper, tvars, building
    <2> QED BY <2>1 DEF Quiet, ChunksKept, TreePhase
<1>4. CASE EndLeaf
    <2>1. phase = "trees" /\ layout = "leaves" /\ layout' \in {"leaves", "next", "nodes"}
        BY <1>4 DEF EndLeaf, TreePhase
    <2>2. PICK r, lvl, content, pending : AddBlock(r, lvl, content, pending)
        BY <1>4 DEF EndLeaf
    <2> QED BY <2>1, <2>2, AddBlockCalls DEF TreePhase
<1>5. CASE EndNode
    <2>1. phase = "trees" /\ layout = "nodes" /\ layout' \in {"next", "nodes"}
        BY <1>5 DEF EndNode, TreePhase
    <2>2. PICK r, lvl, content, pending : AddBlock(r, lvl, content, pending)
        BY <1>5 DEF EndNode
    <2> QED BY <2>1, <2>2, AddBlockCalls DEF TreePhase
<1> QED BY <1>1, <1>2, <1>3, <1>4, <1>5 DEF TreeNext

SpaceInv == GeometryInv /\ GrantedAbove /\ TreePhase

LEMMA SpaceStep ==
    ASSUME WholeStripes, SpaceInv, [TreeNext]_<<vars, tvars>>
    PROVE  SpaceInv'
<1>1. IInv /\ GeometryInv /\ GrantedAbove /\ TreePhase
    BY DEF SpaceInv, GeometryInv
<1>2. ScanSegment \/ Quiet \/ Calls
    BY <1>1, TreeSteps
<1>3. IInv' /\ GrantedAbove'
    BY <1>1, <1>2, ChunkStepKeeps
<1>4. GeometryInv'
    BY <1>1, <1>2, <1>3, GeometryCases DEF Quiet, Calls
<1> QED BY <1>1, <1>3, <1>4, TreeSteps DEF SpaceInv

-----------------------------------------------------------------------------
(* What the trees are made of. *)

\* Blocks, their addresses and the addresses of the time before.
BlockListsType ==
    \A r \in Roots :
        /\ IsList(trees[r]) /\ IsList(old_addresses[r])
        /\ Len(addresses[r]) = Len(trees[r]) /\ IsList(addresses[r])
        /\ \A i \in 1 .. Len(trees[r]) :
              /\ trees[r][i].addr \in Nat /\ trees[r][i].level \in Nat
              /\ addresses[r][i] = <<trees[r][i].addr, trees[r][i].level>>
        /\ \A i \in 1 .. Len(old_addresses[r]) :
              old_addresses[r][i][1] \in Nat /\ old_addresses[r][i][2] \in Nat

ItemsType == \A r \in Roots : items[r] \in SUBSET Keys /\ IsFiniteSet(items[r])

TreeType ==
    /\ Roots \in SUBSET Nat /\ IsFiniteSet(Roots) /\ {1, 2, 3, 4} \subseteq Roots
    /\ DOMAIN trees = Roots /\ DOMAIN addresses = Roots /\ DOMAIN old_addresses = Roots
    /\ ItemsType /\ BlockListsType
    /\ queue \in Seq(Roots) /\ at \in Keys /\ level \in Nat
    /\ known \in Nat /\ extents_changed \in BOOLEAN

\* A block has its space from the allocator for metadata, as has what was a block.
TypeFor(r) == IF r = ChunkTree THEN "system" ELSE "metadata"
BlockSpace(r, addr) == Allocation(addr, TreeSize, TypeFor(r), TRUE)

BlocksAllocated ==
    \A r \in Roots :
        /\ \A i \in 1 .. Len(trees[r]) : BlockSpace(r, trees[r][i].addr) \in allocated
        /\ \A i \in 1 .. Len(old_addresses[r]) :
              BlockSpace(r, old_addresses[r][i][1]) \in allocated

\* No address is there twice.
AddressesDiffer ==
    /\ \A r, s \in Roots : \A i \in 1 .. Len(trees[r]), j \in 1 .. Len(trees[s]) :
          trees[r][i].addr = trees[s][j].addr => r = s /\ i = j
    /\ \A r, s \in Roots : \A i \in 1 .. Len(old_addresses[r]), j \in 1 .. Len(old_addresses[s]) :
          old_addresses[r][i][1] = old_addresses[s][j][1] => r = s /\ i = j
    /\ \A r, s \in Roots : \A i \in 1 .. Len(trees[r]), j \in 1 .. Len(old_addresses[s]) :
          trees[r][i].addr # old_addresses[s][j][1]

\* The items that stay what they are.
Lasting(r) == {k \in items[r] : k[2] # METADATA_ITEM}

\* While a tree is laid out, it is the first of the queue.
QueueFilled == layout \in {"leaves", "nodes"} => queue # <<>>

TreeInv == SpaceInv /\ TreeType /\ QueueFilled /\ BlocksAllocated /\ AddressesDiffer

-----------------------------------------------------------------------------
(* A block is put in an old place or in a new one. *)

\* The items afterwards, of which only those of blocks are others.
ItemsStay ==
    /\ DOMAIN items' = DOMAIN items
    /\ ItemsType'
    /\ \A r \in Roots : Lasting(r)' = Lasting(r)

LEMMA MetadataKey ==
    ASSUME NEW addr \in Nat, NEW lvl \in Nat
    PROVE  /\ MetadataItem(addr, lvl) \in Keys
           /\ MetadataItem(addr, lvl)[1] = addr /\ MetadataItem(addr, lvl)[3] = lvl
           /\ MetadataItem(addr, lvl)[2] = METADATA_ITEM
BY DEF MetadataItem, Keys, METADATA_ITEM

LEMMA OneItemMore ==
    ASSUME TreeType, NEW D, NEW k \in Keys, k[2] = METADATA_ITEM,
           \A d \in D : d[2] = METADATA_ITEM,
           items' = [items EXCEPT ![ExtentTree] = (@ \ D) \cup {k}]
    PROVE  ItemsStay
<1>1. ExtentTree \in Roots /\ DOMAIN items' = Roots /\ Roots' = Roots
    BY DEF TreeType, ExtentTree, Roots
<1>2. \A r \in Roots : items[r] \in SUBSET Keys /\ IsFiniteSet(items[r])
    BY DEF TreeType, ItemsType
<1>3. /\ items'[ExtentTree] = (items[ExtentTree] \ D) \cup {k}
      /\ \A r \in Roots : r # ExtentTree => items'[r] = items[r]
    BY <1>1 DEF Roots
<1>4. /\ (items[ExtentTree] \ D) \cup {k} \in SUBSET Keys
      /\ IsFiniteSet((items[ExtentTree] \ D) \cup {k})
    <2>1. IsFiniteSet(items[ExtentTree] \ D)
        BY <1>1, <1>2, FS_Subset
    <2>2. IsFiniteSet((items[ExtentTree] \ D) \cup {k})
        BY <2>1, FS_AddElement, Zenon
    <2> QED BY <1>1, <1>2, <2>2
<1>5. ItemsType'
    BY <1>1, <1>2, <1>3, <1>4 DEF ItemsType
<1>6. ASSUME NEW r \in Roots PROVE Lasting(r)' = Lasting(r)
    <2>1. Lasting(r)' = {l \in items'[r] : l[2] # METADATA_ITEM}
        BY DEF Lasting
    <2>2. CASE r = ExtentTree
        BY <1>3, <2>1, <2>2 DEF Lasting
    <2>3. CASE r # ExtentTree
        BY <1>3, <2>1, <2>3 DEF Lasting
    <2> QED BY <2>2, <2>3
<1> QED BY <1>1, <1>5, <1>6 DEF ItemsStay, Roots

LEMMA SameItems ==
    ASSUME TreeType, items' = items
    PROVE  ItemsStay
BY DEF TreeType, ItemsType, ItemsStay, Lasting, Roots

\* The block is the last of its tree.
PutLast(r, addr, lvl, content) ==
    /\ DOMAIN trees' = DOMAIN trees /\ DOMAIN addresses' = DOMAIN addresses
    /\ \A s \in Roots : s # r => trees'[s] = trees[s] /\ addresses'[s] = addresses[s]
    /\ trees'[r] = Append(trees[r], Block(addr, lvl, content))
    /\ addresses'[r] = Append(addresses[r], <<addr, lvl>>)

\* In the first of the old places.
PutOld(r, lvl, content) ==
    /\ old_addresses[r] # <<>>
    /\ PutLast(r, Head(old_addresses[r])[1], lvl, content)
    /\ DOMAIN old_addresses' = DOMAIN old_addresses
    /\ \A s \in Roots : s # r => old_addresses'[s] = old_addresses[s]
    /\ old_addresses'[r] = Tail(old_addresses[r])
    /\ UNCHANGED <<extents_changed, allocated, chunks>>

\* In a new one.
PutNew(r, lvl, content) ==
    /\ PutLast(r, Returned, lvl, content)
    /\ Returned \in Nat
    /\ allocated' = allocated \cup {BlockSpace(r, Returned)}
    /\ Extent(Returned, TreeSize) \cap Granted = {}
    /\ old_addresses' = old_addresses
    /\ extents_changed' = (extents_changed \/ r \in Rebuilt)

PutNowhere ==
    /\ phase' = "failed" /\ allocated' = allocated
    /\ UNCHANGED <<trees, addresses, old_addresses, extents_changed>>

\* Where the loop goes on: at the item it stood at, or at what became of it.
GoesOn(pending, lvl) ==
    \/ at' = pending
    \/ pending[2] = METADATA_ITEM /\ at' = MetadataItem(pending[1], lvl) /\ lvl # pending[3]

LEMMA PutBlockShape ==
    ASSUME TreeType, NEW r \in Roots, NEW addr, NEW lvl, NEW content,
           PutBlock(r, addr, lvl, content)
    PROVE  PutLast(r, addr, lvl, content)
BY DEF TreeType, PutBlock, PutLast

LEMMA ReuseShape ==
    ASSUME TreeInv, phase = "trees", NEW r \in Roots, NEW lvl \in Nat, NEW content,
           NEW pending \in Keys, ReuseAddress(r, lvl, content, pending)
    PROVE  ItemsStay /\ GoesOn(pending, lvl) /\ at' \in Keys /\ PutOld(r, lvl, content)
<1>1. TreeType
    BY DEF TreeInv
<1> DEFINE old == Head(old_addresses[r])
<1>2. old_addresses[r] # <<>> /\ old[1] \in Nat /\ old[2] \in Nat
    <2>1. old_addresses[r] # <<>>
        BY DEF ReuseAddress
    <2>2. IsList(old_addresses[r])
        BY <1>1 DEF TreeType, BlockListsType
    <2>3. old = old_addresses[r][1] /\ 1 \in 1 .. Len(old_addresses[r])
        BY <2>1, <2>2, Shortened
    <2> HIDE DEF old
    <2> QED BY <1>1, <2>1, <2>3 DEF TreeType, BlockListsType
<1>3. /\ items' = Relevel(old, lvl)
      /\ PutBlock(r, old[1], lvl, content)
      /\ at' = IF Erases(r, pending, old, lvl) THEN MetadataItem(old[1], lvl) ELSE pending
      /\ old_addresses' = [old_addresses EXCEPT ![r] = Tail(@)]
      /\ UNCHANGED <<extents_changed, allocated, chunks>>
    BY Zenon DEF ReuseAddress
<1> HIDE DEF old
<1>4. ItemsStay
    <2> DEFINE was == MetadataItem(old[1], old[2])
               now == MetadataItem(old[1], lvl)
    <2>1. CASE items' = items
        BY <1>1, <2>1, SameItems
    <2>2. CASE items' = [items EXCEPT ![ExtentTree] = (@ \ {was}) \cup {now}]
        <3>1. was[2] = METADATA_ITEM /\ now \in Keys /\ now[2] = METADATA_ITEM
            BY <1>2, MetadataKey
        <3> DEFINE D == {was}
        <3>2. items' = [items EXCEPT ![ExtentTree] = (@ \ D) \cup {now}]
            BY <2>2
        <3>3. \A d \in D : d[2] = METADATA_ITEM
            BY <3>1
        <3> HIDE DEF was, now, D
        <3> QED BY <1>1, <3>1, <3>2, <3>3, OneItemMore, Zenon
    <2> QED BY <1>3, <2>1, <2>2 DEF Relevel
<1>5. GoesOn(pending, lvl) /\ at' \in Keys
    <2>1. CASE Erases(r, pending, old, lvl)
        <3>1. pending = MetadataItem(old[1], old[2]) /\ lvl # old[2]
            BY <2>1 DEF Erases
        <3> QED BY <1>2, <1>3, <2>1, <3>1, MetadataKey DEF GoesOn
    <2>2. CASE ~ Erases(r, pending, old, lvl)
        BY <1>3, <2>2 DEF GoesOn
    <2> QED BY <2>1, <2>2
<1>6. PutOld(r, lvl, content)
    <2>1. PutLast(r, old[1], lvl, content)
        BY <1>1, <1>3, PutBlockShape
    <2>2. DOMAIN old_addresses = Roots
        BY <1>1 DEF TreeType
    <2> QED BY <1>2, <1>3, <2>1, <2>2 DEF PutOld, old
<1> QED BY <1>4, <1>5, <1>6

LEMMA NewShape ==
    ASSUME TreeInv, phase = "trees", NEW r \in Roots, NEW lvl \in Nat, NEW content,
           NEW pending \in Keys, NewAddress(r, lvl, content, pending)
    PROVE  /\ ItemsStay /\ GoesOn(pending, lvl) /\ at' \in Keys
           /\ PutNew(r, lvl, content) \/ PutNowhere
<1>1. TreeType /\ IInv /\ GrantedAbove
    BY DEF TreeInv, SpaceInv, GeometryInv
<1>2. /\ AllocateMetadata(r = ChunkTree)
      /\ at' = pending /\ old_addresses' = old_addresses
    BY DEF NewAddress
<1>3. \E size : AllocatorCall(TypeFor(r), size, TreeSize, TRUE)
    <2>1. /\ "system" \in Types /\ "metadata" \in Types /\ "system" # "data" /\ "metadata" # "data"
          /\ DataChunkSize \in Nat /\ SystemChunkSize \in Nat /\ DataChunkSize >= SystemChunkSize
          /\ SystemChunkSize >= SystemChunkSize /\ TreeSize \in Nat \ {0} /\ TRUE \in BOOLEAN
          /\ phase # "scan"
        BY DEF Types
    <2>2. CASE r = ChunkTree
        <3>1. Allocate("system", SystemChunkSize, TreeSize, TRUE)
            BY <1>2, <2>2 DEF AllocateMetadata
        <3> QED BY <2>1, <2>2, <3>1 DEF AllocatorCall, TypeFor
    <2>3. CASE r # ChunkTree
        <3>1. Allocate("metadata", DataChunkSize, TreeSize, TRUE)
            BY <1>2, <2>3 DEF AllocateMetadata
        <3> QED BY <2>1, <2>3, <3>1 DEF AllocatorCall, TypeFor
    <2> QED BY <2>2, <2>3
<1>4. \/ phase' = "failed" /\ allocated' = allocated
      \/ /\ phase' = phase /\ Returned \in Nat
         /\ allocated' = allocated \cup {BlockSpace(r, Returned)}
         /\ Extent(Returned, TreeSize) \cap Granted = {}
    BY <1>1, <1>3, CallReturns DEF BlockSpace
<1>5. CASE phase' = "failed"
    <2>1. UNCHANGED <<items, trees, addresses, extents_changed>>
        BY <1>5 DEF NewAddress
    <2> QED BY <1>1, <1>2, <1>4, <1>5, <2>1, SameItems DEF PutNowhere, GoesOn
<1>6. CASE phase' # "failed"
    <2>1. /\ items' = [items EXCEPT ![ExtentTree] = @ \cup {MetadataItem(Returned, lvl)}]
          /\ PutBlock(r, Returned, lvl, content)
          /\ extents_changed' = (extents_changed \/ r \in Rebuilt)
        BY <1>6, Zenon DEF NewAddress, Returned
    <2>2. Returned \in Nat
        BY <1>4, <1>6
    <2> DEFINE now == MetadataItem(Returned, lvl)
    <2>3. now \in Keys /\ now[2] = METADATA_ITEM
        BY <2>2, MetadataKey
    <2> DEFINE D == {}
    <2>4. /\ items' = [items EXCEPT ![ExtentTree] = (@ \ D) \cup {now}]
          /\ \A d \in D : d[2] = METADATA_ITEM
        BY <2>1
    <2> HIDE DEF now, D
    <2>5. ItemsStay
        BY <1>1, <2>3, <2>4, OneItemMore, Zenon
    <2>6. PutLast(r, Returned, lvl, content)
        BY <1>1, <2>1, PutBlockShape
    <2> QED BY <1>2, <1>4, <1>6, <2>1, <2>5, <2>6 DEF PutNew, GoesOn
<1> QED BY <1>5, <1>6

LEMMA AddBlockShape ==
    ASSUME TreeInv, phase = "trees", NEW r \in Roots, NEW lvl \in Nat, NEW content,
           NEW pending \in Keys, AddBlock(r, lvl, content, pending)
    PROVE  /\ ItemsStay /\ GoesOn(pending, lvl) /\ at' \in Keys
           /\ PutOld(r, lvl, content) \/ PutNew(r, lvl, content) \/ PutNowhere
BY ReuseShape, NewShape DEF AddBlock

\* One tree more in its blocks, at an address that no block has.
LEMMA PutLastLists ==
    ASSUME TreeType, NEW r \in Roots, NEW addr \in Nat, NEW lvl \in Nat, NEW content,
           PutLast(r, addr, lvl, content)
    PROVE  /\ DOMAIN trees' = Roots /\ DOMAIN addresses' = Roots
           /\ \A s \in Roots :
                /\ IsList(trees'[s]) /\ IsList(addresses'[s])
                /\ Len(addresses'[s]) = Len(trees'[s])
                /\ \A i \in 1 .. Len(trees'[s]) :
                      /\ trees'[s][i].addr \in Nat /\ trees'[s][i].level \in Nat
                      /\ addresses'[s][i] = <<trees'[s][i].addr, trees'[s][i].level>>
           /\ Len(trees[r]) \in Nat /\ Len(trees'[r]) = Len(trees[r]) + 1
           /\ \A i \in 1 .. Len(trees[r]) : trees'[r][i] = trees[r][i]
           /\ trees'[r][Len(trees[r]) + 1] = Block(addr, lvl, content)
           /\ \A s \in Roots : s # r => trees'[s] = trees[s]
<1>1. \A s \in Roots :
        /\ IsList(trees[s]) /\ IsList(addresses[s]) /\ Len(addresses[s]) = Len(trees[s])
        /\ \A i \in 1 .. Len(trees[s]) :
              /\ trees[s][i].addr \in Nat /\ trees[s][i].level \in Nat
              /\ addresses[s][i] = <<trees[s][i].addr, trees[s][i].level>>
    BY DEF TreeType, BlockListsType
<1>2. DOMAIN trees' = Roots /\ DOMAIN addresses' = Roots
    BY DEF TreeType, PutLast
<1>3. \A s \in Roots : s # r => trees'[s] = trees[s] /\ addresses'[s] = addresses[s]
    BY DEF PutLast
<1> DEFINE n == Len(trees[r])
           b == Block(addr, lvl, content)
           p == <<addr, lvl>>
<1>4. /\ IsList(trees'[r]) /\ n \in Nat /\ Len(trees'[r]) = n + 1
      /\ \A i \in 1 .. n : trees'[r][i] = trees[r][i]
      /\ trees'[r][n + 1] = b
    <2>1. trees'[r] = Append(trees[r], b)
        BY DEF PutLast
    <2> HIDE DEF b
    <2> QED BY <1>1, <2>1, Appended
<1>5. /\ IsList(addresses'[r]) /\ Len(addresses'[r]) = n + 1
      /\ \A i \in 1 .. n : addresses'[r][i] = addresses[r][i]
      /\ addresses'[r][n + 1] = p
    <2>1. addresses'[r] = Append(addresses[r], p)
        BY DEF PutLast
    <2> HIDE DEF p
    <2> QED BY <1>1, <2>1, Appended
<1>6. b.addr = addr /\ b.level = lvl
    BY DEF Block
<1> HIDE DEF n, b
<1>7. \A i \in 1 .. n + 1 :
        /\ trees'[r][i].addr \in Nat /\ trees'[r][i].level \in Nat
        /\ addresses'[r][i] = <<trees'[r][i].addr, trees'[r][i].level>>
    <2> TAKE i \in 1 .. n + 1
    <2>1. CASE i = n + 1
        BY <1>4, <1>5, <1>6, <2>1
    <2>2. CASE i # n + 1
        <3>1. i \in 1 .. n
            BY <1>4, <2>2
        <3> QED BY <1>1, <1>4, <1>5, <3>1 DEF n
    <2> QED BY <2>1, <2>2
<1>8. ASSUME NEW s \in Roots
      PROVE  /\ IsList(trees'[s]) /\ IsList(addresses'[s])
             /\ Len(addresses'[s]) = Len(trees'[s])
             /\ \A i \in 1 .. Len(trees'[s]) :
                   /\ trees'[s][i].addr \in Nat /\ trees'[s][i].level \in Nat
                   /\ addresses'[s][i] = <<trees'[s][i].addr, trees'[s][i].level>>
    <2>1. CASE s = r
        BY <1>4, <1>5, <1>7, <2>1
    <2>2. CASE s # r
        BY <1>1, <1>3, <2>2
    <2> QED BY <2>1, <2>2
<1> QED BY <1>2, <1>3, <1>4, <1>8 DEF n, b

\* What was allocated for a block is not allocated again.
LEMMA NewIsNew ==
    ASSUME TreeInv, NEW addr \in Nat, Extent(addr, TreeSize) \cap Granted = {}
    PROVE  /\ \A r \in Roots : \A i \in 1 .. Len(trees[r]) : trees[r][i].addr # addr
           /\ \A r \in Roots : \A i \in 1 .. Len(old_addresses[r]) :
                 old_addresses[r][i][1] # addr
<1>1. \A r \in Roots : BlockSpace(r, addr) \notin allocated
    <2> SUFFICES ASSUME NEW r \in Roots, BlockSpace(r, addr) \in allocated PROVE FALSE
        OBVIOUS
    <2>1. BlockSpace(r, addr).addr = addr /\ BlockSpace(r, addr).length = TreeSize
        BY DEF BlockSpace, Allocation
    <2>2. Extent(addr, TreeSize) \subseteq Granted
        BY <2>1 DEF Granted
    <2>3. addr \in Extent(addr, TreeSize)
        BY DEF Extent
    <2> QED BY <2>2, <2>3
<1> QED BY <1>1 DEF TreeInv, BlocksAllocated

LEMMA SameAddress ==
    ASSUME AddressesDiffer, NEW s \in Roots, NEW t \in Roots,
           NEW i, i \in 1 .. Len(trees[s]), NEW j, j \in 1 .. Len(trees[t]),
           trees[s][i].addr = trees[t][j].addr
    PROVE  s = t /\ i = j
BY DEF AddressesDiffer

LEMMA SameOldAddress ==
    ASSUME AddressesDiffer, NEW s \in Roots, NEW t \in Roots,
           NEW i, i \in 1 .. Len(old_addresses[s]), NEW j, j \in 1 .. Len(old_addresses[t]),
           old_addresses[s][i][1] = old_addresses[t][j][1]
    PROVE  s = t /\ i = j
BY DEF AddressesDiffer

LEMMA NotOldAddress ==
    ASSUME AddressesDiffer, NEW s \in Roots, NEW t \in Roots,
           NEW i, i \in 1 .. Len(trees[s]), NEW j, j \in 1 .. Len(old_addresses[t])
    PROVE  trees[s][i].addr # old_addresses[t][j][1]
BY DEF AddressesDiffer

LEMMA PutKeeps ==
    ASSUME TreeInv, ItemsStay, NEW r \in Roots, NEW lvl \in Nat, NEW content,
           PutOld(r, lvl, content) \/ PutNew(r, lvl, content) \/ PutNowhere
    PROVE  /\ BlockListsType' /\ BlocksAllocated' /\ AddressesDiffer'
           /\ DOMAIN trees' = Roots /\ DOMAIN addresses' = Roots /\ DOMAIN old_addresses' = Roots
           /\ extents_changed' \in BOOLEAN
<1>1. /\ TreeType /\ BlocksAllocated /\ AddressesDiffer /\ Roots' = Roots
      /\ DOMAIN old_addresses = Roots /\ DOMAIN trees = Roots /\ DOMAIN addresses = Roots
      /\ extents_changed \in BOOLEAN
    BY DEF TreeInv, TreeType, ItemsStay, Roots
<1>2. CASE PutNowhere
    <2>1. /\ trees' = trees /\ addresses' = addresses /\ old_addresses' = old_addresses
          /\ allocated' = allocated /\ extents_changed' = extents_changed
        BY <1>2 DEF PutNowhere
    <2>2. BlockListsType
        BY <1>1 DEF TreeType
    <2>3. BlockListsType'
        BY <1>1, <2>1, <2>2 DEF BlockListsType
    <2>4. BlocksAllocated'
        BY <1>1, <2>1 DEF BlocksAllocated
    <2>5. AddressesDiffer'
        BY <1>1, <2>1 DEF AddressesDiffer
    <2> QED BY <1>1, <2>1, <2>3, <2>4, <2>5
<1>3. \A s \in Roots :
         /\ IsList(old_addresses[s])
         /\ \A i \in 1 .. Len(old_addresses[s]) :
               old_addresses[s][i][1] \in Nat /\ old_addresses[s][i][2] \in Nat
    BY <1>1 DEF TreeType, BlockListsType
<1>4. CASE PutOld(r, lvl, content)
    <2> DEFINE m == Len(old_addresses[r])
               n == Len(trees[r])
               addr == old_addresses[r][1][1]
    <2>1. /\ IsList(old_addresses'[r]) /\ m \in Nat \ {0}
          /\ Head(old_addresses[r]) = old_addresses[r][1]
          /\ Len(old_addresses'[r]) = m - 1
          /\ \A i \in 1 .. m - 1 : old_addresses'[r][i] = old_addresses[r][i + 1]
          /\ \A s \in Roots : s # r => old_addresses'[s] = old_addresses[s]
          /\ DOMAIN old_addresses' = Roots
        BY <1>1, <1>3, <1>4, Shortened DEF PutOld
    <2>2. addr \in Nat /\ PutLast(r, addr, lvl, content)
          /\ extents_changed' = extents_changed /\ allocated' = allocated
        BY <1>3, <1>4, <2>1 DEF PutOld
    <2>3. Block(addr, lvl, content).addr = addr
        BY DEF Block
    <2>4. /\ DOMAIN trees' = Roots /\ DOMAIN addresses' = Roots
          /\ \A s \in Roots :
               /\ IsList(trees'[s]) /\ IsList(addresses'[s])
               /\ Len(addresses'[s]) = Len(trees'[s])
               /\ \A i \in 1 .. Len(trees'[s]) :
                     /\ trees'[s][i].addr \in Nat /\ trees'[s][i].level \in Nat
                     /\ addresses'[s][i] = <<trees'[s][i].addr, trees'[s][i].level>>
          /\ n \in Nat /\ Len(trees'[r]) = n + 1
          /\ \A i \in 1 .. n : trees'[r][i] = trees[r][i]
          /\ trees'[r][n + 1].addr = addr
          /\ \A s \in Roots : s # r => trees'[s] = trees[s]
        <3> HIDE DEF addr
        <3> QED BY <1>1, <2>2, <2>3, PutLastLists
    <2>5. BlockSpace(r, addr) \in allocated
        BY <1>1, <2>1 DEF BlocksAllocated
\* Every block now was one or is the one put; every old address now was one, not the first.
    <2>6. ASSUME NEW s \in Roots, NEW i \in 1 .. Len(trees'[s])
          PROVE  \/ i \in 1 .. Len(trees[s]) /\ trees'[s][i].addr = trees[s][i].addr
                 \/ s = r /\ i = n + 1 /\ trees'[s][i].addr = addr
        <3>1. CASE s = r
            <4>1. i \in 1 .. n \/ i = n + 1
                BY <2>4, <3>1
            <4> QED BY <2>4, <3>1, <4>1
        <3>2. CASE s # r
            BY <2>4, <3>2
        <3> QED BY <3>1, <3>2
    <2>7. ASSUME NEW s \in Roots, NEW i \in 1 .. Len(old_addresses'[s])
          PROVE  \E j \in 1 .. Len(old_addresses[s]) :
                    /\ old_addresses'[s][i] = old_addresses[s][j]
                    /\ j = IF s = r THEN i + 1 ELSE i
        <3>1. CASE s = r
            <4>1. i \in 1 .. m - 1 /\ i + 1 \in 1 .. m
                BY <2>1, <3>1
            <4> QED BY <2>1, <3>1, <4>1
        <3>2. CASE s # r
            BY <2>1, <3>2
        <3> QED BY <3>1, <3>2
    <2>8. 1 \in 1 .. Len(old_addresses[r])
        BY <2>1
    <2> HIDE DEF m, n, addr
    <2>9. BlockListsType'
        <3>1. ASSUME NEW s \in Roots
              PROVE  /\ IsList(old_addresses'[s])
                     /\ \A i \in 1 .. Len(old_addresses'[s]) :
                           old_addresses'[s][i][1] \in Nat /\ old_addresses'[s][i][2] \in Nat
            <4>1. IsList(old_addresses'[s])
                BY <1>3, <2>1
            <4>2. ASSUME NEW i \in 1 .. Len(old_addresses'[s])
                  PROVE  old_addresses'[s][i][1] \in Nat /\ old_addresses'[s][i][2] \in Nat
                <5>1. PICK j \in 1 .. Len(old_addresses[s]) :
                         old_addresses'[s][i] = old_addresses[s][j]
                    BY <2>7
                <5> QED BY <1>3, <5>1
            <4> QED BY <4>1, <4>2
        <3> QED BY <1>1, <2>4, <3>1 DEF BlockListsType
    <2>10. BlocksAllocated'
        <3>1. ASSUME NEW s \in Roots, NEW i \in 1 .. Len(trees'[s])
              PROVE  BlockSpace(s, trees'[s][i].addr) \in allocated
            BY <1>1, <2>5, <2>6 DEF BlocksAllocated
        <3>2. ASSUME NEW s \in Roots, NEW i \in 1 .. Len(old_addresses'[s])
              PROVE  BlockSpace(s, old_addresses'[s][i][1]) \in allocated
            <4>1. PICK j \in 1 .. Len(old_addresses[s]) :
                     old_addresses'[s][i] = old_addresses[s][j]
                BY <2>7
            <4> QED BY <1>1, <4>1 DEF BlocksAllocated
        <3> QED BY <1>1, <2>2, <3>1, <3>2 DEF BlocksAllocated
    <2>11. AddressesDiffer'
        <3>1. \A s \in Roots : \A i \in 1 .. Len(trees[s]) : trees[s][i].addr # addr
            BY <1>1, <2>8 DEF AddressesDiffer, addr
        <3>2. \A s \in Roots : \A i \in 1 .. Len(old_addresses[s]) :
                 old_addresses[s][i][1] = addr => s = r /\ i = 1
            BY <1>1, <2>8 DEF AddressesDiffer, addr
        <3>3. ASSUME NEW s \in Roots, NEW t \in Roots, NEW i \in 1 .. Len(trees'[s]),
                     NEW j \in 1 .. Len(trees'[t]), trees'[s][i].addr = trees'[t][j].addr
              PROVE  s = t /\ i = j
            <4>1. CASE s = r /\ i = n + 1 /\ trees'[s][i].addr = addr
                <5>1. trees'[t][j].addr = addr
                    BY <3>3, <4>1
                <5>2. t = r /\ j = n + 1
                    BY <2>6, <3>1, <5>1
                <5> QED BY <4>1, <5>2
            <4>2. CASE t = r /\ j = n + 1 /\ trees'[t][j].addr = addr
                <5>1. trees'[s][i].addr = addr
                    BY <3>3, <4>2
                <5>2. s = r /\ i = n + 1
                    BY <2>6, <3>1, <5>1
                <5> QED BY <4>2, <5>2
            <4>3. CASE /\ i \in 1 .. Len(trees[s]) /\ trees'[s][i].addr = trees[s][i].addr
                       /\ j \in 1 .. Len(trees[t]) /\ trees'[t][j].addr = trees[t][j].addr
                <5>1. trees[s][i].addr = trees[t][j].addr
                    BY <3>3, <4>3
                <5> QED BY <1>1, <4>3, <5>1, SameAddress
            <4>4. \/ i \in 1 .. Len(trees[s]) /\ trees'[s][i].addr = trees[s][i].addr
                  \/ s = r /\ i = n + 1 /\ trees'[s][i].addr = addr
                BY <2>6
            <4>5. \/ j \in 1 .. Len(trees[t]) /\ trees'[t][j].addr = trees[t][j].addr
                  \/ t = r /\ j = n + 1 /\ trees'[t][j].addr = addr
                BY <2>6
            <4> QED BY <4>1, <4>2, <4>3, <4>4, <4>5, Zenon
        <3>4. ASSUME NEW s \in Roots, NEW t \in Roots, NEW i \in 1 .. Len(old_addresses'[s]),
                     NEW j \in 1 .. Len(old_addresses'[t]),
                     old_addresses'[s][i][1] = old_addresses'[t][j][1]
              PROVE  s = t /\ i = j
            <4>1. PICK k \in 1 .. Len(old_addresses[s]) :
                     /\ old_addresses'[s][i] = old_addresses[s][k]
                     /\ k = IF s = r THEN i + 1 ELSE i
                BY <2>7
            <4>2. PICK l \in 1 .. Len(old_addresses[t]) :
                     /\ old_addresses'[t][j] = old_addresses[t][l]
                     /\ l = IF t = r THEN j + 1 ELSE j
                BY <2>7
            <4>3. s = t /\ k = l
                BY <1>1, <3>4, <4>1, <4>2 DEF AddressesDiffer
            <4> QED BY <4>1, <4>2, <4>3
        <3>5. ASSUME NEW s \in Roots, NEW t \in Roots, NEW i \in 1 .. Len(trees'[s]),
                     NEW j \in 1 .. Len(old_addresses'[t])
              PROVE  trees'[s][i].addr # old_addresses'[t][j][1]
            <4>1. PICK l \in 1 .. Len(old_addresses[t]) :
                     /\ old_addresses'[t][j] = old_addresses[t][l]
                     /\ l = IF t = r THEN j + 1 ELSE j
                BY <2>7
            <4>2. ~ (t = r /\ l = 1)
                BY <4>1
            <4>3. old_addresses[t][l][1] # addr
                BY <3>2, <4>2
            <4>4. CASE trees'[s][i].addr = addr
                BY <4>1, <4>3, <4>4
            <4>5. CASE i \in 1 .. Len(trees[s]) /\ trees'[s][i].addr = trees[s][i].addr
                BY <1>1, <4>1, <4>5 DEF AddressesDiffer
            <4> QED BY <2>6, <4>4, <4>5
        <3> QED BY <1>1, <3>3, <3>4, <3>5 DEF AddressesDiffer
    <2> QED BY <1>1, <2>1, <2>2, <2>4, <2>9, <2>10, <2>11
<1>5. CASE PutNew(r, lvl, content)
    <2> DEFINE n == Len(trees[r])
               addr == Returned
    <2>1. /\ addr \in Nat /\ PutLast(r, addr, lvl, content)
          /\ allocated' = allocated \cup {BlockSpace(r, addr)}
          /\ Extent(addr, TreeSize) \cap Granted = {}
          /\ old_addresses' = old_addresses
          /\ extents_changed' = (extents_changed \/ r \in Rebuilt)
        BY <1>5 DEF PutNew
    <2>2. Block(addr, lvl, content).addr = addr
        BY DEF Block
    <2> HIDE DEF addr
    <2>3. /\ DOMAIN trees' = Roots /\ DOMAIN addresses' = Roots
          /\ \A s \in Roots :
               /\ IsList(trees'[s]) /\ IsList(addresses'[s])
               /\ Len(addresses'[s]) = Len(trees'[s])
               /\ \A i \in 1 .. Len(trees'[s]) :
                     /\ trees'[s][i].addr \in Nat /\ trees'[s][i].level \in Nat
                     /\ addresses'[s][i] = <<trees'[s][i].addr, trees'[s][i].level>>
          /\ n \in Nat /\ Len(trees'[r]) = n + 1
          /\ \A i \in 1 .. n : trees'[r][i] = trees[r][i]
          /\ trees'[r][n + 1].addr = addr
          /\ \A s \in Roots : s # r => trees'[s] = trees[s]
        BY <1>1, <2>1, <2>2, PutLastLists
    <2>4. ASSUME NEW s \in Roots, NEW i \in 1 .. Len(trees'[s])
          PROVE  \/ i \in 1 .. Len(trees[s]) /\ trees'[s][i].addr = trees[s][i].addr
                 \/ s = r /\ i = n + 1 /\ trees'[s][i].addr = addr
        <3>1. CASE s = r
            <4>1. i \in 1 .. n \/ i = n + 1
                BY <2>3, <3>1
            <4> QED BY <2>3, <3>1, <4>1
        <3>2. CASE s # r
            BY <2>3, <3>2
        <3> QED BY <3>1, <3>2
    <2>5. /\ \A s \in Roots : \A i \in 1 .. Len(trees[s]) : trees[s][i].addr # addr
          /\ \A s \in Roots : \A i \in 1 .. Len(old_addresses[s]) :
                old_addresses[s][i][1] # addr
        BY <2>1, NewIsNew
    <2> HIDE DEF n
    <2>6. BlockListsType'
        BY <1>1, <1>3, <2>1, <2>3 DEF BlockListsType
    <2>7. BlocksAllocated'
        BY <1>1, <2>1, <2>4 DEF BlocksAllocated
    <2>8. AddressesDiffer'
        <3>1. ASSUME NEW s \in Roots, NEW t \in Roots, NEW i \in 1 .. Len(trees'[s]),
                     NEW j \in 1 .. Len(trees'[t]), trees'[s][i].addr = trees'[t][j].addr
              PROVE  s = t /\ i = j
            <4>1. CASE s = r /\ i = n + 1 /\ trees'[s][i].addr = addr
                <5>1. trees'[t][j].addr = addr
                    BY <3>1, <4>1
                <5>2. t = r /\ j = n + 1
                    BY <2>4, <2>5, <5>1
                <5> QED BY <4>1, <5>2
            <4>2. CASE t = r /\ j = n + 1 /\ trees'[t][j].addr = addr
                <5>1. trees'[s][i].addr = addr
                    BY <3>1, <4>2
                <5>2. s = r /\ i = n + 1
                    BY <2>4, <2>5, <5>1
                <5> QED BY <4>2, <5>2
            <4>3. CASE /\ i \in 1 .. Len(trees[s]) /\ trees'[s][i].addr = trees[s][i].addr
                       /\ j \in 1 .. Len(trees[t]) /\ trees'[t][j].addr = trees[t][j].addr
                <5>1. trees[s][i].addr = trees[t][j].addr
                    BY <3>1, <4>3
                <5> QED BY <1>1, <4>3, <5>1, SameAddress
            <4>4. \/ i \in 1 .. Len(trees[s]) /\ trees'[s][i].addr = trees[s][i].addr
                  \/ s = r /\ i = n + 1 /\ trees'[s][i].addr = addr
                BY <2>4
            <4>5. \/ j \in 1 .. Len(trees[t]) /\ trees'[t][j].addr = trees[t][j].addr
                  \/ t = r /\ j = n + 1 /\ trees'[t][j].addr = addr
                BY <2>4
            <4> QED BY <4>1, <4>2, <4>3, <4>4, <4>5, Zenon
        <3>2. ASSUME NEW s \in Roots, NEW t \in Roots, NEW i \in 1 .. Len(trees'[s]),
                     NEW j \in 1 .. Len(old_addresses[t])
              PROVE  trees'[s][i].addr # old_addresses[t][j][1]
            BY <1>1, <2>4, <2>5 DEF AddressesDiffer
        <3> QED BY <1>1, <2>1, <3>1, <3>2 DEF AddressesDiffer
    <2> QED BY <1>1, <2>1, <2>3, <2>6, <2>7, <2>8
<1> QED BY <1>2, <1>4, <1>5

-----------------------------------------------------------------------------
(* A leaf, and where the loop goes on after it. *)

Left == Remaining \ LeafItems
Pending == IF Left = {} THEN NoKey ELSE FirstKey(Left)

LEMMA LeafFacts ==
    ASSUME TreeType, queue # <<>>
    PROVE  /\ Head(queue) \in Roots
           /\ Pending \in Keys /\ (Left # {} => Pending \in items[Head(queue)])
           /\ \A k \in items[Head(queue)] :
                 KeyBefore(k, at) \/ k \in LeafItems \/ (Left # {} /\ ~ KeyBefore(k, Pending))
           /\ Range(Sorted(LeafItems)) = LeafItems
<1> DEFINE r == Head(queue)
<1>1. r \in Roots
    <2>1. queue \in Seq(Roots)
        BY DEF TreeType
    <2> QED BY <2>1, QueueParts
<1>2. items[r] \in SUBSET Keys /\ IsFiniteSet(items[r])
    BY <1>1 DEF TreeType, ItemsType
<1>3. Remaining \subseteq items[r] /\ LeafItems \subseteq Remaining
    BY DEF Remaining, LeafItems, Near
<1>4. /\ Left \in SUBSET Keys /\ IsFiniteSet(Left)
      /\ LeafItems \in SUBSET Keys /\ IsFiniteSet(LeafItems)
    BY <1>2, <1>3, FS_Subset DEF Left
<1>5. NoKey \in Keys
    BY DEF NoKey, Keys
<1>6. Left # {} => Pending \in Left /\ \A l \in Left : ~ KeyBefore(l, Pending)
    BY <1>4, FirstOfKeys DEF Pending
<1>7. Pending \in Keys /\ (Left # {} => Pending \in items[r])
    BY <1>3, <1>4, <1>5, <1>6 DEF Pending, Left
<1>8. ASSUME NEW k \in items[r]
      PROVE  KeyBefore(k, at) \/ k \in LeafItems \/ (Left # {} /\ ~ KeyBefore(k, Pending))
    <2>1. KeyBefore(k, at) \/ k \in LeafItems \/ k \in Left
        BY DEF Remaining, Left
    <2> QED BY <1>6, <2>1
<1>9. Range(Sorted(LeafItems)) = LeafItems
    BY <1>4, SortedKeys
<1> QED BY <1>1, <1>7, <1>8, <1>9

LEMMA EndLeafShape ==
    ASSUME EndLeaf
    PROVE  /\ layout = "leaves" /\ phase # "failed"
           /\ AddBlock(Head(queue), 0, Sorted(LeafItems), Pending)
           /\ IF Left # {}
              THEN UNCHANGED <<layout, queue, child, level>>
              ELSE /\ layout' = IF Len(trees'[Head(queue)]) = 1 THEN "next" ELSE "nodes"
                   /\ queue' = IF Len(trees'[Head(queue)]) = 1 THEN Tail(queue) ELSE queue
                   /\ child' = 1 /\ level' = 1
           /\ UNCHANGED <<known, finished>>
BY Zenon DEF EndLeaf, Pending, Left

\* A node is made of children from the next one on.
LastChild(r) == CHOOSE i \in NodeChildren(r) : \A j \in NodeChildren(r) : j <= i

LEMMA EndNodeShape ==
    ASSUME EndNode
    PROVE  /\ layout = "nodes" /\ phase # "failed"
           /\ \E pointers : AddBlock(Head(queue), level, pointers, NoKey)
           /\ child' = LastChild(Head(queue)) + 1
           /\ IF /\ child' \in DOMAIN trees[Head(queue)]
                 /\ trees[Head(queue)][child'].level = level - 1
              THEN UNCHANGED <<layout, queue, level>>
              ELSE IF \A i \in DOMAIN trees[Head(queue)] :
                         trees[Head(queue)][i].level # level
              THEN layout' = "next" /\ queue' = Tail(queue) /\ level' = level
              ELSE level' = level + 1 /\ UNCHANGED <<layout, queue>>
           /\ UNCHANGED <<known, finished>>
<1> DEFINE r == Head(queue)
           B == {i \in DOMAIN trees[r] : trees[r][i].level = level - 1}
           L == {i \in DOMAIN trees[r] : trees[r][i].level = level}
<1>1. layout = "nodes" /\ phase # "failed" /\ UNCHANGED <<known, finished>>
    BY DEF EndNode
<1>2. \E pointers : AddBlock(r, level, pointers, NoKey)
    BY Zenon DEF EndNode
<1>3. child' = LastChild(r) + 1
    BY Zenon DEF EndNode, LastChild
<1>4. IF LastChild(r) + 1 \in B
      THEN UNCHANGED <<layout, queue, level>>
      ELSE IF L = {}
      THEN layout' = "next" /\ queue' = Tail(queue) /\ UNCHANGED level
      ELSE level' = level + 1 /\ UNCHANGED <<layout, queue>>
    BY Zenon DEF EndNode, LastChild
<1>5. LastChild(r) + 1 \in B <=> child' \in DOMAIN trees[r] /\ trees[r][child'].level = level - 1
    BY <1>3
<1>6. L = {} <=> \A i \in DOMAIN trees[r] : trees[r][i].level # level
    OBVIOUS
<1> HIDE DEF r, B, L
<1>7. IF /\ child' \in DOMAIN trees[r] /\ trees[r][child'].level = level - 1
      THEN UNCHANGED <<layout, queue, level>>
      ELSE IF \A i \in DOMAIN trees[r] : trees[r][i].level # level
      THEN layout' = "next" /\ queue' = Tail(queue) /\ level' = level
      ELSE level' = level + 1 /\ UNCHANGED <<layout, queue>>
    BY <1>4, <1>5, <1>6
<1> QED BY <1>1, <1>2, <1>3, <1>7 DEF r

\* A step that puts a block keeps the types, whatever it does to the queue.
LEMMA PutType ==
    ASSUME TreeInv, phase = "trees", NEW r \in Roots, NEW lvl \in Nat, NEW content,
           NEW pending \in Keys, AddBlock(r, lvl, content, pending),
           queue' \in Seq(Roots), level' \in Nat, known' = known
    PROVE  TreeType' /\ BlocksAllocated' /\ AddressesDiffer'
<1>1. TreeType
    BY DEF TreeInv
<1>2. /\ ItemsStay /\ at' \in Keys
      /\ PutOld(r, lvl, content) \/ PutNew(r, lvl, content) \/ PutNowhere
    BY AddBlockShape
<1>3. /\ BlockListsType' /\ BlocksAllocated' /\ AddressesDiffer'
      /\ DOMAIN trees' = Roots /\ DOMAIN addresses' = Roots /\ DOMAIN old_addresses' = Roots
      /\ extents_changed' \in BOOLEAN
    BY <1>2, PutKeeps
<1>4. Roots' = Roots /\ ItemsType'
    BY <1>2 DEF ItemsStay, Roots
<1>5. known' \in Nat
    BY <1>1 DEF TreeType
<1> QED BY <1>1, <1>2, <1>3, <1>4, <1>5 DEF TreeType

-----------------------------------------------------------------------------
(* The items at the start. *)

\* A volume has finitely many clusters.
FiniteBitmaps == \A used \in Bitmaps : IsFiniteSet(used)

LEMMA OneKey ==
    ASSUME NEW k \in Keys
    PROVE  {k} \in SUBSET Keys /\ IsFiniteSet({k})
<1>1. IsFiniteSet({k})
    BY FS_Singleton, Zenon
<1> QED BY <1>1

\* The keys of the ROOT_ITEMs and of the items of files.
LEMMA FirstItems ==
    /\ \A ids \in SUBSET Nat : IsFiniteSet(ids) =>
          RootItems(ids) \in SUBSET Keys /\ IsFiniteSet(RootItems(ids))
    /\ \A sizes \in Seq(Nat \ {0}) :
          FileItems(sizes) \in SUBSET Keys /\ IsFiniteSet(FileItems(sizes))
<1>1. ASSUME NEW ids \in SUBSET Nat, IsFiniteSet(ids)
      PROVE  RootItems(ids) \in SUBSET Keys /\ IsFiniteSet(RootItems(ids))
    <2> DEFINE S == ids \ {RootTree, ChunkTree}
               f == [id \in S |-> <<id, ROOT_ITEM, 0>>]
    <2>1. RootItems(ids) = {f[id] : id \in S}
        BY DEF RootItems
    <2>2. IsFiniteSet(S)
        BY <1>1, FS_Subset
    <2>3. \A id \in S : f[id] \in Keys
        BY DEF Keys, ROOT_ITEM
    <2> HIDE DEF S, f
    <2> QED BY <2>1, <2>2, <2>3, FiniteValues
<1>2. ASSUME NEW sizes \in Seq(Nat \ {0})
      PROVE  FileItems(sizes) \in SUBSET Keys /\ IsFiniteSet(FileItems(sizes))
    <2> DEFINE S == 1 .. Len(sizes)
               f == [i \in S |-> <<i, INODE_ITEM, sizes[i]>>]
    <2>1. DOMAIN sizes = S /\ Len(sizes) \in Nat /\ \A i \in S : sizes[i] \in Nat
        OBVIOUS
    <2>2. FileItems(sizes) = {f[i] : i \in S}
        BY <2>1 DEF FileItems
    <2>3. IsFiniteSet(S)
        <3>1. 1 \in Int /\ Len(sizes) \in Int
            BY <2>1
        <3> QED BY <3>1, FS_Interval
    <2>4. \A i \in S : f[i] \in Keys
        BY <2>1 DEF Keys, INODE_ITEM
    <2> HIDE DEF S, f
    <2> QED BY <2>2, <2>3, <2>4, FiniteValues
<1> QED BY <1>1, <1>2

\* The EXTENT_ITEMs of the data.
LEMMA DataItemKeys ==
    ASSUME FiniteBitmaps, in_use \in Bitmaps
    PROVE  DataItems \in SUBSET Keys /\ IsFiniteSet(DataItems)
<1> DEFINE S == {a \div ClusterSize : a \in in_use}
           list == RunList(S)
           f == [r \in Range(list) |->
                    <<r.offset * ClusterSize, EXTENT_ITEM, r.length * ClusterSize>>]
<1>1. IsFiniteSet(in_use) /\ in_use \subseteq Nat
    BY DEF FiniteBitmaps
<1>2. S \in SUBSET Nat /\ IsFiniteSet(S)
    <2> DEFINE g == [a \in in_use |-> a \div ClusterSize]
    <2>1. S = {g[a] : a \in in_use}
        OBVIOUS
    <2>2. \A a \in Nat : a \div ClusterSize \in Nat
        OBVIOUS
    <2>3. S \in SUBSET Nat
        BY <1>1, <2>2
    <2> HIDE DEF g, S
    <2> QED BY <1>1, <2>1, <2>3, FiniteValues
<1> HIDE DEF S
<1>3. list \in Seq(Entries)
    BY <1>2, RunListInOrder
<1>4. Range(list) \subseteq Entries /\ IsFiniteSet(Range(list))
    <2> DEFINE q == list
               n == Len(q)
    <2>1. q \in Seq(Entries)
        BY <1>3
    <2> HIDE DEF q
    <2>2. DOMAIN q = 1 .. n /\ n \in Nat /\ \A i \in 1 .. n : q[i] \in Entries
        BY <2>1
    <2>3. Range(q) = {q[i] : i \in 1 .. n}
        BY <2>2 DEF Range
    <2>4. IsFiniteSet(1 .. n)
        <3>1. 1 \in Int /\ n \in Int
            BY <2>2
        <3> HIDE DEF n
        <3> QED BY <3>1, FS_Interval
    <2>5. IsFiniteSet(Range(q)) /\ Range(q) \subseteq Entries
        <3> HIDE DEF n
        <3> QED BY <2>2, <2>3, <2>4, FiniteValues
    <2> QED BY <2>5 DEF q
<1>5. DataItems = {f[r] : r \in Range(list)}
    BY DEF DataItems, S
<1>6. \A r \in Entries : r.offset * ClusterSize \in Nat /\ r.length * ClusterSize \in Nat
    BY EntryFields
<1>7. \A r \in Range(list) : f[r] \in Keys
    <2> HIDE DEF list
    <2> QED BY <1>4, <1>6 DEF Keys, EXTENT_ITEM
<1> HIDE DEF f, list
<1> QED BY <1>4, <1>5, <1>7, FiniteValues

LEMMA InitTree ==
    ASSUME FiniteBitmaps
    PROVE  TreeInit => TreeInv
<1> SUFFICES ASSUME TreeInit PROVE TreeInv
    OBVIOUS
<1>1. Init /\ layout = "scan"
    BY DEF TreeInit
<1>2. SpaceInv
    <2>1. phase = "scan" /\ DOMAIN chunks = {} /\ allocated = {}
          /\ space_list = Extent(Reserved, DeviceSize)
        BY <1>1 DEF Init
    <2>2. GrantedAbove
        BY <2>1 DEF GrantedAbove, Granted, Extent
    <2> QED BY <1>1, <2>1, <2>2, InitGeometry DEF SpaceInv, TreePhase
<1>3. PICK content \in Contents :
        LET ids == 1 .. 4 + Len(content) IN
         /\ items = [id \in ids |->
                       CASE id = RootTree -> RootItems(ids)
                         [] id = ExtentTree -> {}
                         [] id = ChunkTree -> {TheDevItem}
                         [] id = DevTree -> {<<0, DEV_STATS, 1>>}
                         [] OTHER -> FileItems(content[id - 4])]
         /\ trees = [id \in ids |-> <<>>]
         /\ addresses = [id \in ids |-> <<>>]
         /\ old_addresses = [id \in ids |-> <<>>]
    BY Zenon DEF TreeInit
<1> DEFINE ids == 1 .. 4 + Len(content)
<1>4. content \in Seq(Seq(Nat \ {0})) /\ Len(content) \in Nat
    OBVIOUS
<1>5. ids \in SUBSET Nat /\ IsFiniteSet(ids) /\ {1, 2, 3, 4} \subseteq ids
    <2> DEFINE n == 4 + Len(content)
    <2>1. 1 \in Int /\ n \in Int /\ n >= 4
        BY <1>4
    <2> HIDE DEF n
    <2>2. IsFiniteSet(1 .. n)
        BY <2>1, FS_Interval
    <2>3. 1 .. n \in SUBSET Nat /\ {1, 2, 3, 4} \subseteq 1 .. n
        BY <2>1
    <2> QED BY <2>2, <2>3 DEF n
<1>6. \A id \in ids : id \notin 1 .. 4 => content[id - 4] \in Seq(Nat \ {0})
    <2> TAKE id \in ids
    <2> HAVE id \notin 1 .. 4
    <2>1. id - 4 \in 1 .. Len(content)
        BY <1>4
    <2> QED BY <1>4, <2>1
<1>7. Roots = ids /\ trees = [id \in ids |-> <<>>] /\ addresses = [id \in ids |-> <<>>]
      /\ old_addresses = [id \in ids |-> <<>>]
    BY <1>3 DEF Roots
<1>8. ASSUME NEW id \in ids PROVE items[id] \in SUBSET Keys /\ IsFiniteSet(items[id])
    <2>1. items[id] = CASE id = RootTree -> RootItems(ids)
                        [] id = ExtentTree -> {}
                        [] id = ChunkTree -> {TheDevItem}
                        [] id = DevTree -> {<<0, DEV_STATS, 1>>}
                        [] OTHER -> FileItems(content[id - 4])
        BY <1>3
    <2> HIDE DEF ids
    <2> USE DEF RootTree, ExtentTree, ChunkTree, DevTree
    <2>2. CASE id = RootTree
        <3>1. items[id] = RootItems(ids)
            BY <2>1, <2>2
        <3> QED BY <1>5, <3>1, FirstItems
    <2>3. CASE id = ExtentTree
        <3>1. items[id] = {}
            BY <2>1, <2>3
        <3> QED BY <3>1, FS_EmptySet
    <2>4. CASE id = ChunkTree
        <3>1. items[id] = {TheDevItem}
            BY <2>1, <2>4
        <3>2. TheDevItem \in Keys
            BY DEF TheDevItem, Keys, DEV_ITEM
        <3> QED BY <3>1, <3>2, OneKey
    <2>5. CASE id = DevTree
        <3>1. items[id] = {<<0, DEV_STATS, 1>>}
            BY <2>1, <2>5
        <3>2. <<0, DEV_STATS, 1>> \in Keys
            BY DEF Keys, DEV_STATS
        <3> QED BY <3>1, <3>2, OneKey
    <2>6. CASE id \notin {RootTree, ExtentTree, ChunkTree, DevTree}
        <3>1. items[id] = FileItems(content[id - 4])
            BY <2>1, <2>6
        <3>2. id \notin 1 .. 4
            BY <2>6
        <3> QED BY <1>6, <3>1, <3>2, FirstItems
    <2> QED BY <2>2, <2>3, <2>4, <2>5, <2>6
<1> HIDE DEF ids
<1>9. \A r \in ids : trees[r] = <<>> /\ addresses[r] = <<>> /\ old_addresses[r] = <<>>
    BY <1>7
<1>10. BlockListsType
    BY <1>7, <1>9, EmptyList DEF BlockListsType
<1>11. BlocksAllocated /\ AddressesDiffer
    BY <1>7, <1>9, EmptyList DEF BlocksAllocated, AddressesDiffer
<1>12. ItemsType
    BY <1>7, <1>8 DEF ItemsType
<1>13. queue \in Seq(Roots) /\ at \in Keys /\ level \in Nat /\ known \in Nat
       /\ extents_changed \in BOOLEAN
    BY DEF TreeInit, Keys, NoKey
<1>14. TreeType
    BY <1>5, <1>7, <1>10, <1>12, <1>13 DEF TreeType
<1> QED BY <1>1, <1>2, <1>11, <1>14 DEF TreeInv, QueueFilled

-----------------------------------------------------------------------------
(* Blocks never share space. *)

\* A step that puts no block where there was none, and takes none away.
LEMMA ListsKept ==
    ASSUME TreeInv, Roots' = Roots,
           UNCHANGED <<trees, addresses, old_addresses, allocated>>
    PROVE  BlockListsType' /\ BlocksAllocated' /\ AddressesDiffer'
<1>1. TreeType /\ BlocksAllocated /\ AddressesDiffer /\ BlockListsType
    BY DEF TreeInv, TreeType
<1>2. trees' = trees /\ addresses' = addresses /\ old_addresses' = old_addresses
      /\ allocated' = allocated
    OBVIOUS
<1>3. BlockListsType'
    BY <1>1, <1>2 DEF BlockListsType
<1>4. BlocksAllocated'
    BY <1>1, <1>2 DEF BlocksAllocated
<1>5. AddressesDiffer'
    BY <1>1, <1>2 DEF AddressesDiffer
<1> QED BY <1>3, <1>4, <1>5

LEMMA PrepareTree ==
    ASSUME FiniteBitmaps, TreeInv, Prepare
    PROVE  TreeType' /\ BlocksAllocated' /\ AddressesDiffer'
<1>1. /\ UNCHANGED <<trees, addresses, old_addresses, at, level, extents_changed, known>>
      /\ \/ UNCHANGED <<items, queue>>
         \/ /\ items' = [items EXCEPT ![ExtentTree] = DataItems]
            /\ queue' = Ascending(Roots \ Rebuilt)
    BY DEF Prepare
<1>2. allocated' = allocated
    BY DEF Prepare, ScanSegment, NextPhase
<1>3. TreeType /\ in_use \in Bitmaps
    BY DEF TreeInv, SpaceInv, GeometryInv, IInv, TypeOK
<1>4. DOMAIN items' = Roots /\ ItemsType'
    <2>1. CASE UNCHANGED items
        BY <1>3, <2>1 DEF TreeType, ItemsType, Roots
    <2>2. CASE items' = [items EXCEPT ![ExtentTree] = DataItems]
        <3>1. DOMAIN items' = Roots
            BY <2>2 DEF Roots
        <3>2. \A r \in Roots : items'[r] = IF r = ExtentTree THEN DataItems ELSE items[r]
            BY <2>2 DEF Roots
        <3>3. \A r \in Roots : items'[r] \in SUBSET Keys /\ IsFiniteSet(items'[r])
            BY <1>3, <3>2, DataItemKeys DEF TreeType, ItemsType
        <3> QED BY <3>1, <3>3 DEF ItemsType, Roots
    <2> QED BY <1>1, <2>1, <2>2
<1>5. Roots' = Roots
    BY <1>4 DEF Roots
<1>6. queue' \in Seq(Roots)
    <2> DEFINE S == Roots \ Rebuilt
    <2>1. S \in SUBSET Nat /\ IsFiniteSet(S) /\ queue \in Seq(Roots)
        BY <1>3, FS_Subset DEF TreeType
    <2>2. Ascending(S) \in Seq(S)
        <3> HIDE DEF S
        <3> QED BY <2>1, AscendingIn
    <2>3. Ascending(S) \in Seq(Roots)
        BY <2>2
    <2> QED BY <1>1, <2>1, <2>3
<1>7. BlockListsType' /\ BlocksAllocated' /\ AddressesDiffer'
    BY <1>1, <1>2, <1>5, ListsKept
<1> QED BY <1>1, <1>3, <1>4, <1>5, <1>6, <1>7 DEF TreeType

\* The old addresses of a root that is laid out again are those of its blocks.
LEMMA BeginTreeTree ==
    ASSUME TreeInv, BeginTree
    PROVE  TreeType' /\ BlocksAllocated' /\ AddressesDiffer'
<1> DEFINE r == Head(queue)
<1>1. /\ TreeType /\ BlocksAllocated /\ AddressesDiffer /\ BlockListsType
      /\ DOMAIN trees = Roots /\ DOMAIN addresses = Roots /\ DOMAIN old_addresses = Roots
    BY DEF TreeInv, TreeType
<1>2. /\ old_addresses' = [old_addresses EXCEPT ![r] = addresses[r]]
      /\ addresses' = [addresses EXCEPT ![r] = <<>>]
      /\ trees' = [trees EXCEPT ![r] = <<>>]
      /\ queue # <<>> /\ at' = NoKey /\ level' = 0
      /\ UNCHANGED <<vars, items, queue, extents_changed, known>>
    BY DEF BeginTree
<1>3. r \in Roots
    <2>1. queue \in Seq(Roots)
        BY <1>1 DEF TreeType
    <2> QED BY <1>2, <2>1, QueueParts
<1> HIDE DEF r
<1>4. /\ DOMAIN trees' = Roots /\ DOMAIN addresses' = Roots /\ DOMAIN old_addresses' = Roots
      /\ trees'[r] = <<>> /\ addresses'[r] = <<>> /\ old_addresses'[r] = addresses[r]
      /\ \A s \in Roots : s # r => /\ trees'[s] = trees[s] /\ addresses'[s] = addresses[s]
                                   /\ old_addresses'[s] = old_addresses[s]
      /\ Roots' = Roots /\ allocated' = allocated
    BY <1>1, <1>2, <1>3 DEF Roots, vars
<1>5. /\ IsList(addresses[r]) /\ Len(addresses[r]) = Len(trees[r])
      /\ \A i \in 1 .. Len(addresses[r]) :
            /\ addresses[r][i][1] = trees[r][i].addr /\ addresses[r][i][1] \in Nat
            /\ addresses[r][i][2] \in Nat
    BY <1>1, <1>3 DEF BlockListsType
<1>6. BlockListsType'
    <2>1. ASSUME NEW s \in Roots
          PROVE  /\ IsList(trees'[s]) /\ IsList(old_addresses'[s])
                 /\ Len(addresses'[s]) = Len(trees'[s]) /\ IsList(addresses'[s])
                 /\ \A i \in 1 .. Len(trees'[s]) :
                       /\ trees'[s][i].addr \in Nat /\ trees'[s][i].level \in Nat
                       /\ addresses'[s][i] = <<trees'[s][i].addr, trees'[s][i].level>>
                 /\ \A i \in 1 .. Len(old_addresses'[s]) :
                       old_addresses'[s][i][1] \in Nat /\ old_addresses'[s][i][2] \in Nat
        <3>1. CASE s = r
            BY <1>4, <1>5, <3>1, EmptyList
        <3>2. CASE s # r
            BY <1>1, <1>4, <3>2 DEF BlockListsType
        <3> QED BY <3>1, <3>2
    <2> QED BY <1>4, <2>1 DEF BlockListsType
<1>7. BlocksAllocated'
    <2>1. ASSUME NEW s \in Roots
          PROVE  /\ \A i \in 1 .. Len(trees'[s]) : BlockSpace(s, trees'[s][i].addr) \in allocated
                 /\ \A i \in 1 .. Len(old_addresses'[s]) :
                       BlockSpace(s, old_addresses'[s][i][1]) \in allocated
        <3>1. CASE s = r
            BY <1>1, <1>4, <1>5, <3>1, EmptyList DEF BlocksAllocated
        <3>2. CASE s # r
            BY <1>1, <1>4, <3>2 DEF BlocksAllocated
        <3> QED BY <3>1, <3>2
    <2> QED BY <1>4, <2>1 DEF BlocksAllocated
<1>8. AddressesDiffer'
\* Each block now was one; each old address now was one of another root, or a block of r.
    <2>1. ASSUME NEW s \in Roots, NEW i \in 1 .. Len(trees'[s])
          PROVE  s # r /\ i \in 1 .. Len(trees[s]) /\ trees'[s][i].addr = trees[s][i].addr
        BY <1>4, EmptyList
    <2>2. ASSUME NEW s \in Roots, NEW i \in 1 .. Len(old_addresses'[s])
          PROVE  \/ /\ s = r /\ i \in 1 .. Len(trees[s])
                    /\ old_addresses'[s][i][1] = trees[s][i].addr
                 \/ /\ s # r /\ i \in 1 .. Len(old_addresses[s])
                    /\ old_addresses'[s][i][1] = old_addresses[s][i][1]
        <3>1. CASE s = r
            BY <1>4, <1>5, <3>1
        <3>2. CASE s # r
            BY <1>4, <3>2
        <3> QED BY <3>1, <3>2
    <2>3. ASSUME NEW s \in Roots, NEW t \in Roots, NEW i \in 1 .. Len(trees'[s]),
                 NEW j \in 1 .. Len(trees'[t]), trees'[s][i].addr = trees'[t][j].addr
          PROVE  s = t /\ i = j
        <3>1. trees[s][i].addr = trees[t][j].addr
            BY <2>1, <2>3
        <3> QED BY <1>1, <2>1, <3>1, SameAddress
    <2>4. ASSUME NEW s \in Roots, NEW t \in Roots, NEW i \in 1 .. Len(old_addresses'[s]),
                 NEW j \in 1 .. Len(old_addresses'[t]),
                 old_addresses'[s][i][1] = old_addresses'[t][j][1]
          PROVE  s = t /\ i = j
        <3>1. CASE s = r /\ t = r
            <4>1. /\ i \in 1 .. Len(trees[s]) /\ j \in 1 .. Len(trees[t])
                  /\ trees[s][i].addr = trees[t][j].addr
                BY <2>2, <2>4, <3>1
            <4> QED BY <1>1, <4>1, SameAddress
        <3>2. CASE s # r /\ t # r
            <4>1. /\ i \in 1 .. Len(old_addresses[s]) /\ j \in 1 .. Len(old_addresses[t])
                  /\ old_addresses[s][i][1] = old_addresses[t][j][1]
                BY <2>2, <2>4, <3>2
            <4> QED BY <1>1, <4>1, SameOldAddress
        <3>3. CASE s = r /\ t # r
            <4>1. /\ i \in 1 .. Len(trees[s]) /\ j \in 1 .. Len(old_addresses[t])
                  /\ trees[s][i].addr = old_addresses[t][j][1]
                BY <2>2, <2>4, <3>3
            <4> QED BY <1>1, <4>1, NotOldAddress
        <3>4. CASE s # r /\ t = r
            <4>1. /\ j \in 1 .. Len(trees[t]) /\ i \in 1 .. Len(old_addresses[s])
                  /\ trees[t][j].addr = old_addresses[s][i][1]
                BY <2>2, <2>4, <3>4
            <4> QED BY <1>1, <4>1, NotOldAddress
        <3> QED BY <3>1, <3>2, <3>3, <3>4
    <2>5. ASSUME NEW s \in Roots, NEW t \in Roots, NEW i \in 1 .. Len(trees'[s]),
                 NEW j \in 1 .. Len(old_addresses'[t]),
                 trees'[s][i].addr = old_addresses'[t][j][1]
          PROVE  FALSE
        <3>1. CASE t = r
            <4>1. j \in 1 .. Len(trees[t]) /\ trees[s][i].addr = trees[t][j].addr
                BY <2>1, <2>2, <2>5, <3>1
            <4>2. s = t
                BY <1>1, <2>1, <4>1, SameAddress
            <4> QED BY <2>1, <3>1, <4>2
        <3>2. CASE t # r
            <4>1. /\ i \in 1 .. Len(trees[s]) /\ j \in 1 .. Len(old_addresses[t])
                  /\ trees[s][i].addr = old_addresses[t][j][1]
                BY <2>1, <2>2, <2>5, <3>2
            <4> QED BY <1>1, <4>1, NotOldAddress
        <3> QED BY <3>1, <3>2
    <2> QED BY <1>4, <2>3, <2>4, <2>5 DEF AddressesDiffer
<1>9. ItemsType' /\ Roots' = Roots
    BY <1>1, <1>2 DEF TreeType, ItemsType, Roots
<1>10. at' \in Keys /\ level' \in Nat
    BY <1>2 DEF NoKey, Keys
<1> QED BY <1>1, <1>2, <1>4, <1>6, <1>7, <1>8, <1>9, <1>10 DEF TreeType

\* The items that a chunk adds.
LEMMA ChunkItemKeys ==
    ASSUME NEW c \in Chunks
    PROVE  /\ ChunkItem(c) \in Keys /\ DevExtent(c) \in Keys /\ BlockGroupItem(c) \in Keys
           /\ BlockGroupItem(c)[2] # METADATA_ITEM /\ BlockGroupItem(c)[1] = c.start
           /\ ChunkItem(c)[2] # METADATA_ITEM /\ DevExtent(c)[2] # METADATA_ITEM
<1>1. c.start \in Nat /\ c.length \in Nat
    BY DEF Chunks
<1> QED BY <1>1
    DEF Keys, ChunkItem, DevExtent, BlockGroupItem, CHUNK_ITEM, DEV_EXTENT, BLOCK_GROUP_ITEM,
        METADATA_ITEM

LEMMA AddedFinite ==
    ASSUME chunks \in Seq(Chunks), known \in Nat
    PROVE  /\ {chunks[i] : i \in known + 1 .. Len(chunks)} \subseteq Chunks
           /\ IsFiniteSet({chunks[i] : i \in known + 1 .. Len(chunks)})
<1> DEFINE I == known + 1 .. Len(chunks)
           A == {chunks[i] : i \in I}
<1>1. Len(chunks) \in Nat /\ \A i \in 1 .. Len(chunks) : chunks[i] \in Chunks
    OBVIOUS
<1>2. IsFiniteSet(I)
    <2>1. known + 1 \in Int /\ Len(chunks) \in Int
        BY <1>1
    <2> QED BY <2>1, FS_Interval
<1>3. A \subseteq Chunks
    BY <1>1
<1> HIDE DEF I
<1>4. IsFiniteSet(A)
    BY <1>2, FiniteValues
<1> QED BY <1>3, <1>4 DEF I

LEMMA RebuildTree ==
    ASSUME TreeInv, Rebuild
    PROVE  TreeType' /\ BlocksAllocated' /\ AddressesDiffer'
<1> DEFINE Added == {chunks[i] : i \in known + 1 .. Len(chunks)}
           CI == {ChunkItem(c) : c \in Added}
           DE == {DevExtent(c) : c \in Added}
           BG == {BlockGroupItem(c) : c \in Added}
<1>1. TreeType /\ chunks \in Seq(Chunks)
    BY DEF TreeInv, SpaceInv, GeometryInv, IInv, TypeOK
<1>2. /\ items' = [items EXCEPT ![ChunkTree] = @ \cup CI, ![DevTree] = @ \cup DE,
                                ![ExtentTree] = @ \cup BG]
      /\ known' = Len(chunks) /\ extents_changed' = FALSE
      /\ queue' = <<ExtentTree, ChunkTree, DevTree>>
      /\ UNCHANGED <<vars, trees, addresses, old_addresses, at, level>>
    BY DEF Rebuild
<1>3. Added \subseteq Chunks /\ IsFiniteSet(Added) /\ Len(chunks) \in Nat
    <2>1. known \in Nat
        BY <1>1 DEF TreeType
    <2>2. Len(chunks) \in Nat
        BY <1>1
    <2> QED BY <1>1, <2>1, <2>2, AddedFinite
<1>4. /\ CI \subseteq Keys /\ DE \subseteq Keys /\ BG \subseteq Keys
      /\ IsFiniteSet(CI) /\ IsFiniteSet(DE) /\ IsFiniteSet(BG)
    <2> HIDE DEF Added
    <2> DEFINE f == [c \in Added |-> ChunkItem(c)]
               g == [c \in Added |-> DevExtent(c)]
               h == [c \in Added |-> BlockGroupItem(c)]
    <2>1. CI = {f[c] : c \in Added} /\ DE = {g[c] : c \in Added} /\ BG = {h[c] : c \in Added}
        OBVIOUS
    <2>2. CI \subseteq Keys /\ DE \subseteq Keys /\ BG \subseteq Keys
        BY <1>3, ChunkItemKeys
    <2>3. /\ IsFiniteSet({f[c] : c \in Added}) /\ IsFiniteSet({g[c] : c \in Added})
          /\ IsFiniteSet({h[c] : c \in Added})
        <3> HIDE DEF f, g, h
        <3> QED BY <1>3, FiniteValues
    <2> QED BY <2>1, <2>2, <2>3
<1> HIDE DEF CI, DE, BG, Added
<1>5. DOMAIN items' = Roots /\ Roots' = Roots
    BY <1>2 DEF Roots
<1>6. ASSUME NEW r \in Roots
      PROVE  \E N \in {{}, CI, DE, BG} : items'[r] = items[r] \cup N
    <2> DEFINE f == [items EXCEPT ![ChunkTree] = @ \cup CI]
               g == [f EXCEPT ![DevTree] = items[DevTree] \cup DE]
               h == [g EXCEPT ![ExtentTree] = items[ExtentTree] \cup BG]
    <2>1. items' = h
        BY <1>2
    <2>2. f[r] = IF r = ChunkTree THEN items[r] \cup CI ELSE items[r]
        BY DEF Roots
    <2>3. g[r] = IF r = DevTree THEN items[r] \cup DE ELSE f[r]
        BY DEF Roots
    <2>4. h[r] = IF r = ExtentTree THEN items[r] \cup BG ELSE g[r]
        BY DEF Roots
    <2> HIDE DEF f, g, h
    <2> QED BY <2>1, <2>2, <2>3, <2>4
<1>7. ASSUME NEW r \in Roots PROVE items'[r] \in SUBSET Keys /\ IsFiniteSet(items'[r])
    <2>1. PICK N \in {{}, CI, DE, BG} : items'[r] = items[r] \cup N
        BY <1>6
    <2>2. N \subseteq Keys /\ IsFiniteSet(N)
        BY <1>4, FS_EmptySet
    <2>3. items[r] \in SUBSET Keys /\ IsFiniteSet(items[r])
        BY <1>1 DEF TreeType, ItemsType
    <2>4. IsFiniteSet(items[r] \cup N)
        BY <2>2, <2>3, FS_Union, Zenon
    <2> QED BY <2>1, <2>2, <2>3, <2>4
<1>8. ItemsType'
    BY <1>5, <1>7 DEF ItemsType
<1>9. queue' \in Seq(Roots)
    <2>1. ExtentTree \in Roots /\ ChunkTree \in Roots /\ DevTree \in Roots
        BY <1>1 DEF TreeType, ExtentTree, ChunkTree, DevTree
    <2> QED BY <1>2, <2>1
<1>10. BlockListsType' /\ BlocksAllocated' /\ AddressesDiffer'
    BY <1>2, <1>5, ListsKept DEF vars
<1>11. /\ DOMAIN trees' = Roots /\ DOMAIN addresses' = Roots /\ DOMAIN old_addresses' = Roots
       /\ Roots \in SUBSET Nat /\ IsFiniteSet(Roots) /\ {1, 2, 3, 4} \subseteq Roots
       /\ at' \in Keys /\ level' \in Nat /\ known' \in Nat /\ extents_changed' \in BOOLEAN
    BY <1>1, <1>2, <1>3 DEF TreeType
<1> QED BY <1>5, <1>8, <1>9, <1>10, <1>11 DEF TreeType

LEMMA EndLeafTree ==
    ASSUME TreeInv, EndLeaf
    PROVE  TreeType' /\ BlocksAllocated' /\ AddressesDiffer'
<1>1. TreeType /\ TreePhase
    BY DEF TreeInv, SpaceInv
<1>2. phase = "trees" /\ layout = "leaves" /\ AddBlock(Head(queue), 0, Sorted(LeafItems), Pending)
    BY <1>1, EndLeafShape DEF TreePhase
<1>3. queue # <<>>
    BY <1>2 DEF TreeInv, QueueFilled
<1>4. Head(queue) \in Roots /\ Pending \in Keys /\ queue \in Seq(Roots)
    BY <1>1, <1>3, LeafFacts DEF TreeType
<1>5. queue' \in Seq(Roots)
    <2>1. Tail(queue) \in Seq(Roots)
        BY <1>3, <1>4, QueueParts
    <2> QED BY <1>4, <2>1, EndLeafShape
<1>6. level' \in Nat /\ known' = known /\ 0 \in Nat
    BY <1>1, EndLeafShape DEF TreeType
<1> QED BY <1>2, <1>4, <1>5, <1>6, PutType


LEMMA EndNodeTree ==
    ASSUME TreeInv, EndNode
    PROVE  TreeType' /\ BlocksAllocated' /\ AddressesDiffer'
<1>1. TreeType /\ TreePhase
    BY DEF TreeInv, SpaceInv
<1>2. /\ phase = "trees" /\ layout = "nodes"
      /\ \E pointers : AddBlock(Head(queue), level, pointers, NoKey)
    BY <1>1, EndNodeShape DEF TreePhase
<1>3. queue # <<>>
    BY <1>2 DEF TreeInv, QueueFilled
<1>4. Head(queue) \in Roots /\ Tail(queue) \in Seq(Roots) /\ NoKey \in Keys
    <2>1. queue \in Seq(Roots)
        BY <1>1 DEF TreeType
    <2>2. NoKey \in Keys
        BY DEF NoKey, Keys
    <2> QED BY <1>3, <2>1, <2>2, QueueParts
<1>5. queue' \in Seq(Roots) /\ level' \in Nat /\ known' = known /\ level \in Nat
    <2>1. queue \in Seq(Roots) /\ level \in Nat
        BY <1>1 DEF TreeType
    <2>2. known' = known
        BY EndNodeShape
    <2>3. queue' \in {queue, Tail(queue)} /\ level' \in {level, level + 1}
        BY Zenon, EndNodeShape
    <2>4. level' \in Nat
        BY <2>1, <2>3
    <2> QED BY <1>4, <2>1, <2>2, <2>3, <2>4
<1>6. PICK pointers : AddBlock(Head(queue), level, pointers, NoKey)
    BY <1>2
<1> QED BY <1>2, <1>4, <1>5, <1>6, PutType

\* The last steps leave the trees alone.
LEMMA LastStepsTree ==
    ASSUME TreeInv, TooLarge \/ UpdateTrees \/ WriteSuper \/ UNCHANGED <<vars, tvars>>
    PROVE  TreeType' /\ BlocksAllocated' /\ AddressesDiffer'
<1>1. TreeType
    BY DEF TreeInv
<1>2. UNCHANGED <<items, trees, addresses, old_addresses, allocated, queue, at, level, known,
                  extents_changed>>
    BY DEF TooLarge, UpdateTrees, WriteSuper, vars, tvars, building
<1>3. Roots' = Roots
    BY <1>2 DEF Roots
<1>4. BlockListsType' /\ BlocksAllocated' /\ AddressesDiffer'
    BY <1>2, <1>3, ListsKept
<1>5. ItemsType'
    BY <1>1, <1>2, <1>3 DEF TreeType, ItemsType
<1> QED BY <1>1, <1>2, <1>3, <1>4, <1>5 DEF TreeType

LEMMA QueueFilledStep ==
    ASSUME TreeInv, [TreeNext]_<<vars, tvars>>
    PROVE  QueueFilled'
<1>1. QueueFilled /\ (layout = "scan" => phase \in {"scan", "protect", "rewrite"})
    BY DEF TreeInv, SpaceInv, TreePhase
<1>2. CASE Prepare
    BY <1>2 DEF Prepare, QueueFilled
<1>3. CASE BeginTree
    BY <1>3 DEF BeginTree, QueueFilled
<1>4. CASE EndLeaf
    BY <1>1, <1>4, EndLeafShape DEF QueueFilled
<1>5. CASE EndNode
    BY <1>1, <1>5, EndNodeShape DEF QueueFilled
<1>6. CASE Rebuild
    BY <1>6 DEF Rebuild, QueueFilled
<1>7. CASE TooLarge \/ UpdateTrees \/ WriteSuper \/ UNCHANGED <<vars, tvars>>
    BY <1>1, <1>7 DEF TooLarge, UpdateTrees, WriteSuper, QueueFilled, tvars, building
<1> QED BY <1>2, <1>3, <1>4, <1>5, <1>6, <1>7 DEF TreeNext

LEMMA TreeInvStep ==
    ASSUME WholeStripes, FiniteBitmaps, TreeInv, [TreeNext]_<<vars, tvars>>
    PROVE  TreeInv'
<1>1. SpaceInv'
    BY SpaceStep DEF TreeInv
<1>2. TreeType' /\ BlocksAllocated' /\ AddressesDiffer'
    BY PrepareTree, BeginTreeTree, EndLeafTree, EndNodeTree, RebuildTree, LastStepsTree
    DEF TreeNext
<1>3. QueueFilled'
    BY QueueFilledStep
<1> QED BY <1>1, <1>2, <1>3 DEF TreeInv

LEMMA TreeInvariant ==
    ASSUME WholeStripes, FiniteBitmaps
    PROVE  TreeSpec => []TreeInv
<1>1. TreeInit => TreeInv
    BY InitTree
<1>2. TreeInv /\ [TreeNext]_<<vars, tvars>> => TreeInv'
    BY TreeInvStep
<1> QED BY <1>1, <1>2, PTL DEF TreeSpec

BlockExtent(r, i) == Extent(trees[r][i].addr, TreeSize)

\* No unit of the device is in two blocks, be they of one tree or of two.
BlocksApart ==
    \A r, s \in Roots : \A i \in 1 .. Len(trees[r]), j \in 1 .. Len(trees[s]) :
        r # s \/ i # j => BlockExtent(r, i) \cap BlockExtent(s, j) = {}

\* Each lies in a chunk of its kind, where neither a cluster that the scan finds in use
\* is nor what write_superblocks and clear_first_cluster write.
BlocksClear ==
    \A r \in Roots : \A i \in 1 .. Len(trees[r]) :
        /\ \E n \in DOMAIN chunks :
              /\ chunks[n].type = TypeFor(r)
              /\ BlockExtent(r, i) \subseteq Extent(chunks[n].start, chunks[n].length)
        /\ BlockExtent(r, i) \cap ClusterSpace(Located) = {}
        /\ BlockExtent(r, i) \cap (Extent(0, Reserved) \cup SuperSpace(0, DeviceSize)) = {}

LEMMA BlockFields ==
    ASSUME NEW r, NEW addr
    PROVE  /\ BlockSpace(r, addr).addr = addr /\ BlockSpace(r, addr).length = TreeSize
           /\ BlockSpace(r, addr).type = TypeFor(r)
BY DEF BlockSpace, Allocation

\* Two blocks at two addresses are two allocations.
LEMMA SeparateBlocks ==
    ASSUME TreeInv, NEW r \in Roots, NEW s \in Roots,
           NEW i \in 1 .. Len(trees[r]), NEW j \in 1 .. Len(trees[s]), r # s \/ i # j
    PROVE  BlockExtent(r, i) \cap BlockExtent(s, j) = {}
<1> DEFINE a == trees[r][i].addr
           b == trees[s][j].addr
<1>1. AddressesDiffer /\ BlocksAllocated /\ AllocationsDisjoint
    BY DEF TreeInv, SpaceInv, GeometryInv, IInv
<1>2. a # b
    BY <1>1, SameAddress
<1>3. BlockSpace(r, a) \in allocated /\ BlockSpace(s, b) \in allocated
    BY <1>1 DEF BlocksAllocated
<1> HIDE DEF a, b
<1>4. /\ BlockSpace(r, a).addr = a /\ BlockSpace(r, a).length = TreeSize
      /\ BlockSpace(s, b).addr = b /\ BlockSpace(s, b).length = TreeSize
    BY BlockFields
<1>5. BlockSpace(r, a) # BlockSpace(s, b)
    BY <1>2, <1>4
<1>6. Extent(a, TreeSize) \cap Extent(b, TreeSize) = {}
    BY <1>1, <1>3, <1>4, <1>5 DEF AllocationsDisjoint
<1> QED BY <1>6 DEF BlockExtent, a, b

LEMMA ClearBlock ==
    ASSUME TreeInv, NEW r \in Roots, NEW i \in 1 .. Len(trees[r])
    PROVE  /\ \E n \in DOMAIN chunks :
                 /\ chunks[n].type = TypeFor(r)
                 /\ BlockExtent(r, i) \subseteq Extent(chunks[n].start, chunks[n].length)
           /\ BlockExtent(r, i) \cap ClusterSpace(Located) = {}
           /\ BlockExtent(r, i) \cap (Extent(0, Reserved) \cup SuperSpace(0, DeviceSize)) = {}
<1> DEFINE a == trees[r][i].addr
           A == BlockSpace(r, a)
<1>1. BlocksAllocated /\ InsideChunk /\ AvoidsSuperblocks /\ NoOverwrite
    BY LocatedNotGranted DEF TreeInv, SpaceInv, GeometryInv
<1>2. A \in allocated
    BY <1>1 DEF BlocksAllocated
<1>3. A.addr = a /\ A.length = TreeSize /\ A.type = TypeFor(r)
    BY BlockFields
<1>4. BlockExtent(r, i) = Extent(A.addr, A.length)
    BY <1>3 DEF BlockExtent
<1> HIDE DEF A, a
<1>5. BlockExtent(r, i) \subseteq Granted
    BY <1>2, <1>4 DEF Granted
<1>6. \E n \in DOMAIN chunks :
         /\ chunks[n].type = TypeFor(r)
         /\ BlockExtent(r, i) \subseteq Extent(chunks[n].start, chunks[n].length)
    BY <1>1, <1>2, <1>3, <1>4 DEF InsideChunk
<1> QED BY <1>1, <1>5, <1>6 DEF NoOverwrite, AvoidsSuperblocks

\* Each time round, a tree is laid out in its blocks of the time before and in new ones;
\* that no block is ever used twice rests on get_address taking each old address from the
\* list, and on the allocator.
THEOREM BlocksNeverShare ==
    ASSUME WholeStripes, FiniteBitmaps
    PROVE  TreeSpec => [](BlocksApart /\ BlocksClear)
<1>1. TreeInv => BlocksApart
    BY SeparateBlocks DEF BlocksApart
<1>2. TreeInv => BlocksClear
    BY ClearBlock DEF BlocksClear
<1> QED BY <1>1, <1>2, TreeInvariant, PTL

-----------------------------------------------------------------------------
(* The blocks of one tree, as a list that grows at its end.                 *)

\* The keys in the leaves.
InLeaves(list) == UNION {Range(b.content) : b \in {t \in Range(list) : t.level = 0}}

\* A finished tree: its keys are in leaves, and its last block is above all others.
Whole(list, keys) ==
    /\ keys \subseteq InLeaves(list) /\ Len(list) # 0
    /\ \A i \in 1 .. Len(list) - 1 : list[i].level < list[Len(list)].level

\* Leaves for the keys before k.
LeavesPartly(list, keys, k) ==
    /\ \A i \in 1 .. Len(list) : list[i].level = 0
    /\ \A l \in keys : l \in InLeaves(list) \/ ~ KeyBefore(l, k)

\* Nodes of the level lvl are made for the blocks from the n-th one on.
Growing(list, keys, n, lvl) ==
    /\ keys \subseteq InLeaves(list)
    /\ n \in 1 .. Len(list) /\ list[n].level + 1 = lvl
    /\ \A i \in 1 .. Len(list) : list[i].level <= lvl
    /\ \A i, j \in 1 .. Len(list) : i <= j => list[i].level <= list[j].level

\* The list p has one block more than q.
OneMore(q, p) ==
    /\ IsList(q) /\ IsList(p) /\ Len(q) \in Nat /\ Len(p) = Len(q) + 1
    /\ \A i \in 1 .. Len(q) : p[i] = q[i]
    /\ \A i \in 1 .. Len(p) : p[i].level \in Nat

LEMMA InLeavesOf ==
    ASSUME NEW q, IsList(q), NEW k
    PROVE  k \in InLeaves(q) <=>
              \E i \in 1 .. Len(q) : q[i].level = 0 /\ k \in Range(q[i].content)
<1>1. DOMAIN q = 1 .. Len(q)
    BY DEF IsList
<1> QED BY <1>1 DEF InLeaves, Range

LEMMA MoreLeaves ==
    ASSUME NEW q, NEW p, OneMore(q, p)
    PROVE  /\ InLeaves(q) \subseteq InLeaves(p)
           /\ p[Len(p)].level = 0 => Range(p[Len(p)].content) \subseteq InLeaves(p)
<1>1. /\ IsList(q) /\ IsList(p) /\ Len(q) \in Nat /\ Len(p) = Len(q) + 1
      /\ \A i \in 1 .. Len(q) : p[i] = q[i]
    BY DEF OneMore
<1>2. ASSUME NEW k \in InLeaves(q) PROVE k \in InLeaves(p)
    <2>1. PICK i \in 1 .. Len(q) : q[i].level = 0 /\ k \in Range(q[i].content)
        BY <1>1, InLeavesOf
    <2>2. i \in 1 .. Len(p) /\ p[i] = q[i]
        BY <1>1
    <2> QED BY <1>1, <2>1, <2>2, InLeavesOf
<1>3. ASSUME p[Len(p)].level = 0, NEW k \in Range(p[Len(p)].content)
      PROVE  k \in InLeaves(p)
    <2>1. Len(p) \in 1 .. Len(p)
        BY <1>1
    <2> QED BY <1>1, <1>3, <2>1, InLeavesOf
<1> QED BY <1>2, <1>3

\* One leaf more, after which the loop goes on at k or is at its end.
LEMMA LeafMore ==
    ASSUME NEW q, NEW p, OneMore(q, p), NEW keys, NEW k,
           LeavesPartly(q, keys, k), p[Len(p)].level = 0
    PROVE  /\ \A i \in 1 .. Len(p) : p[i].level = 0
           /\ \A l \in keys : \/ l \in InLeaves(p)
                              \/ ~ KeyBefore(l, k) /\ l \notin Range(p[Len(p)].content)
<1>1. /\ Len(q) \in Nat /\ Len(p) = Len(q) + 1
      /\ \A i \in 1 .. Len(q) : p[i] = q[i]
    BY DEF OneMore
<1>2. /\ \A i \in 1 .. Len(q) : q[i].level = 0
      /\ \A l \in keys : l \in InLeaves(q) \/ ~ KeyBefore(l, k)
    BY DEF LeavesPartly
<1>3. ASSUME NEW i \in 1 .. Len(p) PROVE p[i].level = 0
    <2>1. i = Len(p) \/ i \in 1 .. Len(q)
        BY <1>1
    <2> QED BY <1>1, <1>2, <2>1
<1> QED BY <1>2, <1>3, MoreLeaves

\* All keys are in leaves: either there is only one, or nodes are made for them.
LEMMA LeavesMade ==
    ASSUME NEW p, IsList(p), Len(p) \in Nat \ {0}, NEW keys, keys \subseteq InLeaves(p),
           \A i \in 1 .. Len(p) : p[i].level = 0
    PROVE  /\ Len(p) = 1 => Whole(p, keys)
           /\ Growing(p, keys, 1, 1)
BY DEF Whole, Growing

LEMMA NodeMore ==
    ASSUME NEW q, NEW p, OneMore(q, p), NEW keys, NEW n, NEW lvl \in Nat,
           Growing(q, keys, n, lvl), p[Len(p)].level = lvl
    PROVE  /\ keys \subseteq InLeaves(p)
           /\ \A i \in 1 .. Len(p) : p[i].level <= lvl
           /\ \A i, j \in 1 .. Len(p) : i <= j => p[i].level <= p[j].level
<1>1. /\ Len(q) \in Nat /\ Len(p) = Len(q) + 1
      /\ \A i \in 1 .. Len(q) : p[i] = q[i]
      /\ \A i \in 1 .. Len(p) : p[i].level \in Nat
    BY DEF OneMore
<1>2. /\ keys \subseteq InLeaves(q)
      /\ \A i \in 1 .. Len(q) : q[i].level <= lvl
      /\ \A i, j \in 1 .. Len(q) : i <= j => q[i].level <= q[j].level
    BY DEF Growing
<1>3. ASSUME NEW i \in 1 .. Len(p)
      PROVE  (i = Len(p) /\ p[i].level = lvl) \/ (i \in 1 .. Len(q) /\ p[i] = q[i])
    BY <1>1
<1>4. \A i \in 1 .. Len(p) : p[i].level <= lvl
    BY <1>2, <1>3
<1>5. ASSUME NEW i \in 1 .. Len(p), NEW j \in 1 .. Len(p), i <= j
      PROVE  p[i].level <= p[j].level
    <2>1. CASE j = Len(p)
        BY <1>4, <2>1
    <2>2. CASE j # Len(p)
        <3>1. i \in 1 .. Len(q) /\ j \in 1 .. Len(q)
            BY <1>1, <1>5, <2>2
        <3> QED BY <1>1, <1>2, <1>5, <3>1
    <2> QED BY <2>1, <2>2
<1> QED BY <1>2, <1>4, <1>5, MoreLeaves

\* The tree ends with a node if there was none of its level.
LEMMA NodeEnds ==
    ASSUME NEW q, NEW p, OneMore(q, p), NEW keys, NEW n, NEW lvl \in Nat,
           Growing(q, keys, n, lvl), p[Len(p)].level = lvl,
           \A i \in DOMAIN q : q[i].level # lvl
    PROVE  Whole(p, keys)
<1>1. /\ Len(q) \in Nat /\ Len(p) = Len(q) + 1 /\ DOMAIN q = 1 .. Len(q)
      /\ \A i \in 1 .. Len(q) : p[i] = q[i]
      /\ \A i \in 1 .. Len(p) : p[i].level \in Nat
    BY DEF OneMore, IsList
<1>2. \A i \in 1 .. Len(q) : q[i].level <= lvl
    BY DEF Growing
<1>3. keys \subseteq InLeaves(p)
    BY NodeMore
<1>4. ASSUME NEW i \in 1 .. Len(p) - 1 PROVE p[i].level < p[Len(p)].level
    <2>1. i \in 1 .. Len(q) /\ p[i] = q[i] /\ q[i].level # lvl
        BY <1>1
    <2>2. q[i].level <= lvl /\ p[i].level \in Nat
        BY <1>1, <1>2, <2>1
    <2> QED BY <2>1, <2>2
<1> QED BY <1>1, <1>3, <1>4 DEF Whole

\* Nodes of the next level begin with the first block of this one.
LEMMA LevelEnds ==
    ASSUME NEW q, NEW p, OneMore(q, p), NEW keys, NEW n, NEW lvl \in Nat,
           Growing(q, keys, n, lvl), p[Len(p)].level = lvl,
           NEW i \in DOMAIN q, q[i].level = lvl,
           NEW m \in DOMAIN q, q[m].level = lvl - 1,
           ~ (m + 1 \in DOMAIN q /\ q[m + 1].level = lvl - 1)
    PROVE  Growing(p, keys, m + 1, lvl + 1)
<1>1. /\ Len(q) \in Nat /\ Len(p) = Len(q) + 1 /\ DOMAIN q = 1 .. Len(q)
      /\ \A j \in 1 .. Len(q) : p[j] = q[j]
      /\ \A j \in 1 .. Len(p) : p[j].level \in Nat
    BY DEF OneMore, IsList
<1>2. /\ \A j \in 1 .. Len(q) : q[j].level <= lvl
      /\ \A j, l \in 1 .. Len(q) : j <= l => q[j].level <= q[l].level
    BY DEF Growing
<1>3. \A j \in 1 .. Len(q) : q[j].level \in Nat
    <2> TAKE j \in 1 .. Len(q)
    <2>1. j \in 1 .. Len(p) /\ p[j] = q[j]
        BY <1>1
    <2> QED BY <1>1, <2>1
<1>4. m < i
    <2>1. i \in 1 .. Len(q) /\ m \in 1 .. Len(q)
        BY <1>1
    <2>2. i <= m => q[i].level <= q[m].level
        BY <1>2, <2>1
    <2> QED BY <2>1, <2>2
<1>5. m + 1 \in 1 .. Len(q) /\ q[m + 1].level = lvl
    <2>1. m + 1 \in 1 .. Len(q) /\ m \in 1 .. Len(q)
        BY <1>1, <1>4
    <2>2. q[m].level <= q[m + 1].level /\ q[m + 1].level <= lvl /\ q[m + 1].level \in Nat
        BY <1>2, <1>3, <2>1
    <2>3. q[m + 1].level # lvl - 1
        BY <1>1, <2>1
    <2> QED BY <2>1, <2>2, <2>3
<1>6. m + 1 \in 1 .. Len(p) /\ p[m + 1].level + 1 = lvl + 1
    BY <1>1, <1>5
<1>7. /\ keys \subseteq InLeaves(p)
      /\ \A j \in 1 .. Len(p) : p[j].level <= lvl
      /\ \A j, l \in 1 .. Len(p) : j <= l => p[j].level <= p[l].level
    BY NodeMore, Zenon
<1>8. \A j \in 1 .. Len(p) : p[j].level <= lvl + 1
    <2> TAKE j \in 1 .. Len(p)
    <2>1. p[j].level <= lvl /\ p[j].level \in Nat
        BY <1>1, <1>7
    <2> QED BY <2>1
<1> QED BY <1>6, <1>7, <1>8 DEF Growing

-----------------------------------------------------------------------------
(* No item is missed.  The loop over a tree comes to every item that stays, *)
(* because when the item it stands at is erased it goes on before that; and *)
(* what was added to a tree has all three laid out again.                   *)

BuildInv ==
    phase = "trees" =>
        /\ layout = "leaves" =>
              /\ level = 0
              /\ LeavesPartly(trees[Head(queue)], Lasting(Head(queue)), at)
        /\ layout = "nodes" =>
              Growing(trees[Head(queue)], Lasting(Head(queue)), child, level)
        /\ \A r \in Roots : \/ r \in Range(queue)
                            \/ extents_changed /\ r \in Rebuilt
                            \/ Whole(trees[r], Lasting(r))

\* The chunks that the trees know of have their items, and the root tree those of the roots.
KnownInv ==
    /\ known <= Len(chunks)
    /\ layout = "scan" => known = 0 /\ extents_changed
    /\ \A i \in 1 .. known :
          /\ ChunkItem(chunks[i]) \in Lasting(ChunkTree)
          /\ DevExtent(chunks[i]) \in Lasting(DevTree)
          /\ BlockGroupItem(chunks[i]) \in Lasting(ExtentTree)
    /\ Lasting(RootTree) = RootItems(Roots)

\* A step that puts a block, if it does not fail.
LEMMA BlockPut ==
    ASSUME TreeInv, phase = "trees", phase' = "trees", NEW r \in Roots, NEW lvl \in Nat,
           NEW content, NEW pending \in Keys, AddBlock(r, lvl, content, pending)
    PROVE  /\ ItemsStay /\ GoesOn(pending, lvl) /\ Roots' = Roots
           /\ \A s \in Roots : s # r => trees'[s] = trees[s]
           /\ OneMore(trees[r], trees'[r])
           /\ trees'[r][Len(trees'[r])].level = lvl
           /\ trees'[r][Len(trees'[r])].content = content
           /\ extents_changed' = extents_changed \/ extents_changed' = TRUE
<1>1. TreeType /\ BlockListsType
    BY DEF TreeInv, TreeType
<1>2. /\ ItemsStay /\ GoesOn(pending, lvl)
      /\ PutOld(r, lvl, content) \/ PutNew(r, lvl, content)
    BY AddBlockShape DEF PutNowhere
<1>3. Roots' = Roots
    BY <1>2 DEF ItemsStay, Roots
<1>4. extents_changed' = extents_changed \/ extents_changed' = TRUE
    BY <1>1, <1>2 DEF PutOld, PutNew, TreeType
<1>5. PICK addr \in Nat : PutLast(r, addr, lvl, content)
    <2>1. CASE PutOld(r, lvl, content)
        <3>1. IsList(old_addresses[r]) /\ old_addresses[r] # <<>>
            BY <1>1, <2>1 DEF BlockListsType, PutOld
        <3>2. /\ Head(old_addresses[r]) = old_addresses[r][1]
              /\ 1 \in 1 .. Len(old_addresses[r])
            BY <3>1, Shortened
        <3>3. Head(old_addresses[r])[1] \in Nat
            BY <1>1, <3>2 DEF BlockListsType
        <3> QED BY <2>1, <3>3 DEF PutOld
    <2>2. CASE PutNew(r, lvl, content)
        BY <2>2 DEF PutNew
    <2> QED BY <1>2, <2>1, <2>2
<1>6. /\ IsList(trees'[r]) /\ \A i \in 1 .. Len(trees'[r]) : trees'[r][i].level \in Nat
      /\ Len(trees[r]) \in Nat /\ Len(trees'[r]) = Len(trees[r]) + 1
      /\ \A i \in 1 .. Len(trees[r]) : trees'[r][i] = trees[r][i]
      /\ trees'[r][Len(trees[r]) + 1] = Block(addr, lvl, content)
      /\ \A s \in Roots : s # r => trees'[s] = trees[s]
    BY <1>1, <1>5, PutLastLists
<1>7. IsList(trees[r])
    BY <1>1 DEF BlockListsType
<1>8. OneMore(trees[r], trees'[r])
    BY <1>6, <1>7 DEF OneMore
<1>9. Block(addr, lvl, content).level = lvl /\ Block(addr, lvl, content).content = content
    BY DEF Block
<1> QED BY <1>2, <1>3, <1>4, <1>6, <1>8, <1>9

\* The trees that are not under way stay what they are.
LEMMA OthersStay ==
    ASSUME TreeInv, BuildInv, phase = "trees", queue # <<>>, Roots' = Roots, ItemsStay,
           NEW h \in Roots, h = Head(queue),
           \A s \in Roots : s # h => trees'[s] = trees[s],
           extents_changed' = extents_changed \/ extents_changed' = TRUE,
           \/ queue' = queue
           \/ queue' = Tail(queue) /\ Whole(trees'[h], Lasting(h)')
    PROVE  (\A r \in Roots : \/ r \in Range(queue)
                             \/ extents_changed /\ r \in Rebuilt
                             \/ Whole(trees[r], Lasting(r)))'
<1> SUFFICES ASSUME NEW r \in Roots
             PROVE  \/ r \in Range(queue')
                    \/ extents_changed' /\ r \in Rebuilt
                    \/ Whole(trees'[r], Lasting(r)')
    OBVIOUS
<1>1. queue \in Seq(Roots)
    BY DEF TreeInv, TreeType
<1>2. /\ Head(queue) \in Range(queue)
      /\ \A s \in Range(queue) : s = Head(queue) \/ s \in Range(Tail(queue))
    <2>1. 1 \in DOMAIN queue /\ Head(queue) = queue[1]
        BY <1>1
    <2>2. Head(queue) \in Range(queue)
        BY <2>1 DEF Range
    <2> QED BY <1>1, <2>2, QueueParts
<1>3. Lasting(r)' = Lasting(r)
    BY DEF ItemsStay
<1>4. CASE r \in Range(queue)
    <2>1. CASE r = h /\ queue' = Tail(queue)
        BY <2>1
    <2> QED BY <1>2, <1>4, <2>1
<1>5. CASE r \notin Range(queue)
    <2>1. r # h /\ trees'[r] = trees[r]
        BY <1>2, <1>5
    <2>2. (extents_changed /\ r \in Rebuilt) \/ Whole(trees[r], Lasting(r))
        BY <1>5 DEF BuildInv
    <2> QED BY <1>3, <2>1, <2>2
<1> QED BY <1>4, <1>5

\* What the loop has yet to see it sees where it goes on.
LEMMA BehindStays ==
    ASSUME NEW pending \in Keys, GoesOn(pending, 0), NEW l \in Keys, ~ KeyBefore(l, pending)
    PROVE  ~ KeyBefore(l, at')
<1>1. CASE at' = pending
    BY <1>1
<1>2. CASE at' # pending
    <2>1. /\ pending[2] = METADATA_ITEM /\ at' = MetadataItem(pending[1], 0)
          /\ pending[3] # 0
        BY <1>2 DEF GoesOn
    <2>2. pending[1] \in Nat /\ pending[3] \in Nat
        BY DEF Keys
    <2>3. at' \in Keys /\ KeyBefore(at', pending)
        BY <2>1, <2>2, MetadataKey DEF KeyBefore
    <2> QED BY <2>3, KeyOrder
<1> QED BY <1>1, <1>2

LEMMA EndLeafBuild ==
    ASSUME TreeInv, BuildInv, EndLeaf
    PROVE  BuildInv'
<1> SUFFICES ASSUME phase' = "trees" PROVE BuildInv'
    BY DEF BuildInv
<1>1. /\ layout = "leaves" /\ phase = "trees"
      /\ AddBlock(Head(queue), 0, Sorted(LeafItems), Pending)
      /\ IF Left # {}
         THEN UNCHANGED <<layout, queue, child, level>>
         ELSE /\ layout' = IF Len(trees'[Head(queue)]) = 1 THEN "next" ELSE "nodes"
              /\ queue' = IF Len(trees'[Head(queue)]) = 1 THEN Tail(queue) ELSE queue
              /\ child' = 1 /\ level' = 1
    BY EndLeafShape DEF TreeInv, SpaceInv, TreePhase
<1>2. TreeType /\ queue # <<>>
    BY <1>1 DEF TreeInv, QueueFilled
<1>3. PICK h \in Roots : h = Head(queue)
    BY <1>2, LeafFacts
<1>4. /\ Pending \in Keys /\ Range(Sorted(LeafItems)) = LeafItems
      /\ \A k \in items[h] :
            KeyBefore(k, at) \/ k \in LeafItems \/ (Left # {} /\ ~ KeyBefore(k, Pending))
    BY <1>2, <1>3, LeafFacts
<1>5. AddBlock(h, 0, Sorted(LeafItems), Pending) /\ 0 \in Nat
    BY <1>1, <1>3
<1>6. /\ ItemsStay /\ GoesOn(Pending, 0) /\ Roots' = Roots
      /\ \A s \in Roots : s # h => trees'[s] = trees[s]
      /\ OneMore(trees[h], trees'[h])
      /\ trees'[h][Len(trees'[h])].level = 0
      /\ trees'[h][Len(trees'[h])].content = Sorted(LeafItems)
      /\ extents_changed' = extents_changed \/ extents_changed' = TRUE
    BY <1>1, <1>4, <1>5, BlockPut
<1>7. level = 0 /\ LeavesPartly(trees[h], Lasting(h), at)
    BY <1>1, <1>3 DEF BuildInv
<1>8. Lasting(h)' = Lasting(h)
    BY <1>6 DEF ItemsStay
<1> DEFINE p == trees'[h]
           keys == Lasting(h)
<1>9. /\ \A i \in 1 .. Len(p) : p[i].level = 0
      /\ \A l \in keys : \/ l \in InLeaves(p)
                         \/ ~ KeyBefore(l, at) /\ l \notin LeafItems
    BY <1>4, <1>6, <1>7, LeafMore
<1>10. \A l \in keys : l \in Keys /\ l \in items[h]
    BY <1>2 DEF Lasting, TreeType, ItemsType
<1>11. CASE Left # {}
    <2>1. /\ layout' = "leaves" /\ queue' = queue /\ level' = 0 /\ Head(queue') = h
        BY <1>1, <1>3, <1>7, <1>11
    <2>2. \A l \in keys : l \in InLeaves(p) \/ ~ KeyBefore(l, at')
        <3> TAKE l \in keys
        <3>1. CASE ~ KeyBefore(l, at) /\ l \notin LeafItems
            <4>1. ~ KeyBefore(l, Pending) /\ l \in Keys
                BY <1>4, <1>10, <3>1
            <4> QED BY <1>4, <1>6, <4>1, BehindStays
        <3> QED BY <1>9, <3>1
    <2>3. LeavesPartly(trees'[h], Lasting(h)', at')
        BY <1>8, <1>9, <2>2 DEF LeavesPartly
    <2>4. LeavesPartly(trees[Head(queue)], Lasting(Head(queue)), at)'
        BY <2>1, <2>3
    <2>5. (\A r \in Roots : \/ r \in Range(queue)
                            \/ extents_changed /\ r \in Rebuilt
                            \/ Whole(trees[r], Lasting(r)))'
        BY <1>1, <1>2, <1>3, <1>6, <2>1, OthersStay
    <2> QED BY <2>1, <2>4, <2>5 DEF BuildInv
<1>12. CASE Left = {}
    <2>1. keys \subseteq InLeaves(p)
        BY <1>4, <1>9, <1>10, <1>12
    <2>2. IsList(p) /\ Len(p) \in Nat \ {0}
        BY <1>6 DEF OneMore
    <2>3. (Len(p) = 1 => Whole(p, keys)) /\ Growing(p, keys, 1, 1)
        <3> HIDE DEF p, keys
        <3> QED BY <1>9, <2>1, <2>2, LeavesMade
    <2>4. CASE Len(p) = 1
        <3>1. layout' = "next" /\ queue' = Tail(queue)
            BY <1>1, <1>3, <1>12, <2>4
        <3>2. Whole(trees'[h], Lasting(h)')
            BY <1>8, <2>3, <2>4
        <3>3. (\A r \in Roots : \/ r \in Range(queue)
                                \/ extents_changed /\ r \in Rebuilt
                                \/ Whole(trees[r], Lasting(r)))'
            BY <1>1, <1>2, <1>3, <1>6, <3>1, <3>2, OthersStay
        <3> QED BY <3>1, <3>3 DEF BuildInv
    <2>5. CASE Len(p) # 1
        <3>1. /\ layout' = "nodes" /\ queue' = queue /\ child' = 1 /\ level' = 1
              /\ Head(queue') = h
            BY <1>1, <1>3, <1>12, <2>5
        <3>2. Growing(trees'[h], Lasting(h)', child', level')
            BY <1>8, <2>3, <3>1
        <3>3. Growing(trees[Head(queue)], Lasting(Head(queue)), child, level)'
            BY <3>1, <3>2
        <3>4. (\A r \in Roots : \/ r \in Range(queue)
                                \/ extents_changed /\ r \in Rebuilt
                                \/ Whole(trees[r], Lasting(r)))'
            BY <1>1, <1>2, <1>3, <1>6, <3>1, OthersStay
        <3> QED BY <3>1, <3>3, <3>4 DEF BuildInv
    <2> QED BY <2>4, <2>5
<1> QED BY <1>11, <1>12

\* The last of the children of a node.
LEMMA LastOfBounded ==
    ASSUME NEW b \in Nat, NEW S \in SUBSET (0 .. b), S # {}
    PROVE  \E i \in S : \A j \in S : j <= i
<1> DEFINE T == {d \in Nat : \E i \in S : d = b - i}
<1>1. T \in SUBSET Nat /\ T # {}
    <2>1. PICK i \in S : TRUE
        OBVIOUS
    <2>2. b - i \in T
        BY <2>1
    <2> QED BY <2>2
<1>2. PICK d \in T : \A e \in T : d <= e
    <2> HIDE DEF T
    <2> QED BY <1>1, LeastNatural
<1>3. PICK i \in S : d = b - i
    BY <1>2
<1>4. ASSUME NEW j \in S PROVE j <= i
    <2>1. b - j \in T
        OBVIOUS
    <2>2. d <= b - j
        BY <1>2, <2>1
    <2> QED BY <1>3, <2>2
<1> QED BY <1>3, <1>4

LEMMA LastChildIs ==
    ASSUME TreeInv, NEW r \in Roots, NEW keys, Growing(trees[r], keys, child, level)
    PROVE  /\ LastChild(r) \in DOMAIN trees[r]
           /\ trees[r][LastChild(r)].level = level - 1
<1> DEFINE b == child + NodePtrs - 1
           S == NodeChildren(r)
<1>1. /\ DOMAIN trees[r] = 1 .. Len(trees[r]) /\ Len(trees[r]) \in Nat /\ level \in Nat
      /\ \A i \in 1 .. Len(trees[r]) : trees[r][i].level \in Nat
    <2>1. BlockListsType /\ level \in Nat
        BY DEF TreeInv, TreeType
    <2>2. IsList(trees[r]) /\ \A i \in 1 .. Len(trees[r]) : trees[r][i].level \in Nat
        BY <2>1 DEF BlockListsType
    <2> QED BY <2>1, <2>2 DEF IsList
<1>2. child \in DOMAIN trees[r] /\ child \in Nat /\ trees[r][child].level = level - 1
    BY <1>1 DEF Growing
<1>3. S \in SUBSET (0 .. b) /\ b \in Nat
    <2>1. b \in Nat
        BY <1>2
    <2> QED BY <1>1, <1>2, <2>1 DEF NodeChildren
<1>4. S # {}
    BY <1>1, <1>2 DEF NodeChildren
<1>5. \E i \in S : \A j \in S : j <= i
    <2> HIDE DEF b, S
    <2> QED BY <1>3, <1>4, LastOfBounded
<1>6. LastChild(r) \in S
    BY <1>5, Zenon DEF LastChild
<1> QED BY <1>6 DEF NodeChildren

LEMMA EndNodeBuild ==
    ASSUME TreeInv, BuildInv, EndNode
    PROVE  BuildInv'
<1> SUFFICES ASSUME phase' = "trees" PROVE BuildInv'
    BY DEF BuildInv
<1>1. /\ layout = "nodes" /\ phase = "trees"
      /\ \E pointers : AddBlock(Head(queue), level, pointers, NoKey)
      /\ child' = LastChild(Head(queue)) + 1
      /\ IF /\ child' \in DOMAIN trees[Head(queue)]
            /\ trees[Head(queue)][child'].level = level - 1
         THEN UNCHANGED <<layout, queue, level>>
         ELSE IF \A i \in DOMAIN trees[Head(queue)] : trees[Head(queue)][i].level # level
         THEN layout' = "next" /\ queue' = Tail(queue) /\ level' = level
         ELSE level' = level + 1 /\ UNCHANGED <<layout, queue>>
    BY EndNodeShape DEF TreeInv, SpaceInv, TreePhase
<1>2. TreeType /\ queue # <<>> /\ level \in Nat
    BY <1>1 DEF TreeInv, QueueFilled, TreeType
<1>3. PICK h \in Roots : h = Head(queue)
    BY <1>2, LeafFacts
<1>4. PICK pointers : AddBlock(h, level, pointers, NoKey)
    BY <1>1, <1>3
<1>5. NoKey \in Keys
    BY DEF NoKey, Keys
<1>6. /\ ItemsStay /\ Roots' = Roots
      /\ \A s \in Roots : s # h => trees'[s] = trees[s]
      /\ OneMore(trees[h], trees'[h])
      /\ trees'[h][Len(trees'[h])].level = level
      /\ extents_changed' = extents_changed \/ extents_changed' = TRUE
    BY <1>1, <1>2, <1>4, <1>5, BlockPut
<1>7. Growing(trees[h], Lasting(h), child, level)
    BY <1>1, <1>3 DEF BuildInv
<1>8. Lasting(h)' = Lasting(h)
    BY <1>6 DEF ItemsStay
<1> DEFINE q == trees[h]
           p == trees'[h]
           keys == Lasting(h)
           m == LastChild(h)
<1>9. m \in DOMAIN q /\ q[m].level = level - 1 /\ child' = m + 1
    BY <1>1, <1>3, <1>7, LastChildIs
<1>10. /\ Growing(q, keys, child, level) /\ OneMore(q, p) /\ p[Len(p)].level = level
    BY <1>6, <1>7
<1>11. ASSUME layout' = "nodes", queue' = queue, Growing(p, keys, child', level')
       PROVE  BuildInv'
    <2>1. Growing(trees[Head(queue)], Lasting(Head(queue)), child, level)'
        BY <1>3, <1>8, <1>11
    <2>2. (\A r \in Roots : \/ r \in Range(queue)
                            \/ extents_changed /\ r \in Rebuilt
                            \/ Whole(trees[r], Lasting(r)))'
        BY <1>1, <1>2, <1>3, <1>6, <1>11, OthersStay
    <2> QED BY <1>11, <2>1, <2>2 DEF BuildInv
<1>12. CASE child' \in DOMAIN q /\ q[child'].level = level - 1
    <2>1. layout' = "nodes" /\ queue' = queue /\ level' = level
        BY <1>1, <1>3, <1>12
    <2>2. /\ keys \subseteq InLeaves(p)
          /\ \A i \in 1 .. Len(p) : p[i].level <= level
          /\ \A i, j \in 1 .. Len(p) : i <= j => p[i].level <= p[j].level
        <3> HIDE DEF p, q, keys
        <3> QED BY <1>2, <1>10, NodeMore
    <2>3. child' \in 1 .. Len(p) /\ p[child'].level + 1 = level
        <3>1. DOMAIN q = 1 .. Len(q) /\ Len(q) \in Nat /\ Len(p) = Len(q) + 1
              /\ \A i \in 1 .. Len(q) : p[i] = q[i]
            BY <1>6 DEF OneMore, IsList
        <3> HIDE DEF p, q
        <3> QED BY <1>2, <1>12, <3>1
    <2>4. Growing(p, keys, child', level')
        BY <2>1, <2>2, <2>3 DEF Growing
    <2> QED BY <1>11, <2>1, <2>4
<1>13. CASE /\ ~ (child' \in DOMAIN q /\ q[child'].level = level - 1)
            /\ \A i \in DOMAIN q : q[i].level # level
    <2>1. layout' = "next" /\ queue' = Tail(queue)
        BY <1>1, <1>3, <1>13
    <2>2. Whole(p, keys)
        <3> HIDE DEF p, q, keys
        <3> QED BY <1>2, <1>10, <1>13, NodeEnds
    <2>3. Whole(trees'[h], Lasting(h)')
        BY <1>8, <2>2
    <2>4. (\A r \in Roots : \/ r \in Range(queue)
                            \/ extents_changed /\ r \in Rebuilt
                            \/ Whole(trees[r], Lasting(r)))'
        BY <1>1, <1>2, <1>3, <1>6, <2>1, <2>3, OthersStay
    <2> QED BY <2>1, <2>4 DEF BuildInv
<1>14. CASE /\ ~ (child' \in DOMAIN q /\ q[child'].level = level - 1)
            /\ \E i \in DOMAIN q : q[i].level = level
    <2>1. layout' = "nodes" /\ queue' = queue /\ level' = level + 1
        BY <1>1, <1>3, <1>14
    <2>2. PICK i \in DOMAIN q : q[i].level = level
        BY <1>14
    <2>3. ~ (m + 1 \in DOMAIN q /\ q[m + 1].level = level - 1)
        BY <1>9, <1>14
    <2>4. Growing(p, keys, m + 1, level + 1)
        <3> HIDE DEF p, q, keys, m
        <3> QED BY <1>2, <1>9, <1>10, <2>2, <2>3, LevelEnds
    <2> QED BY <1>9, <1>11, <2>1, <2>4
<1> QED BY <1>12, <1>13, <1>14

\* The items that a rebuild adds, and to what.
LEMMA RebuildItems ==
    ASSUME TreeInv, Rebuild
    PROVE  /\ Roots' = Roots
           /\ \A r \in Roots : items[r] \subseteq items'[r]
           /\ \A r \in Roots \ Rebuilt : items'[r] = items[r]
           /\ \A i \in known + 1 .. Len(chunks) :
                 /\ ChunkItem(chunks[i]) \in items'[ChunkTree]
                 /\ DevExtent(chunks[i]) \in items'[DevTree]
                 /\ BlockGroupItem(chunks[i]) \in items'[ExtentTree]
<1> DEFINE Added == {chunks[i] : i \in known + 1 .. Len(chunks)}
           CI == {ChunkItem(c) : c \in Added}
           DE == {DevExtent(c) : c \in Added}
           BG == {BlockGroupItem(c) : c \in Added}
           f == [items EXCEPT ![ChunkTree] = @ \cup CI]
           g == [f EXCEPT ![DevTree] = items[DevTree] \cup DE]
           h == [g EXCEPT ![ExtentTree] = items[ExtentTree] \cup BG]
<1>1. items' = h
    BY DEF Rebuild
<1>2. ChunkTree \in Roots /\ DevTree \in Roots /\ ExtentTree \in Roots
    BY DEF TreeInv, TreeType, ChunkTree, DevTree, ExtentTree
<1>3. \A i \in known + 1 .. Len(chunks) :
         /\ ChunkItem(chunks[i]) \in CI /\ DevExtent(chunks[i]) \in DE
         /\ BlockGroupItem(chunks[i]) \in BG
    <2> TAKE i \in known + 1 .. Len(chunks)
    <2>1. chunks[i] \in Added
        OBVIOUS
    <2> HIDE DEF Added
    <2> QED BY <2>1
<1> HIDE DEF Added, CI, DE, BG
<1>4. DOMAIN items' = Roots
    BY <1>1 DEF Roots
<1>5. ASSUME NEW r \in Roots
      PROVE  /\ items[r] \subseteq items'[r]
             /\ r \notin Rebuilt => items'[r] = items[r]
             /\ r = ChunkTree => CI \subseteq items'[r]
             /\ r = DevTree => DE \subseteq items'[r]
             /\ r = ExtentTree => BG \subseteq items'[r]
    <2>1. f[r] = IF r = ChunkTree THEN items[r] \cup CI ELSE items[r]
        BY DEF Roots
    <2>2. g[r] = IF r = DevTree THEN items[r] \cup DE ELSE f[r]
        BY DEF Roots
    <2>3. h[r] = IF r = ExtentTree THEN items[r] \cup BG ELSE g[r]
        BY DEF Roots
    <2> HIDE DEF f, g, h
    <2> QED BY <1>1, <2>1, <2>2, <2>3 DEF ChunkTree, DevTree, ExtentTree, Rebuilt
<1> HIDE DEF f, g, h
<1> QED BY <1>2, <1>3, <1>4, <1>5 DEF Roots

LEMMA PrepareBuild ==
    ASSUME TreeInv, KnownInv, Prepare
    PROVE  BuildInv'
<1> SUFFICES ASSUME phase' = "trees" PROVE BuildInv'
    BY DEF BuildInv
<1>1. /\ items' = [items EXCEPT ![ExtentTree] = DataItems]
      /\ queue' = Ascending(Roots \ Rebuilt) /\ layout' = "next"
      /\ extents_changed' = extents_changed /\ layout = "scan"
    BY DEF Prepare
<1>2. extents_changed' /\ Roots' = Roots
    BY <1>1 DEF KnownInv, Roots
<1>3. \A r \in Roots \ Rebuilt : r \in Range(queue')
    <2> DEFINE S == Roots \ Rebuilt
    <2>1. Roots \in SUBSET Nat /\ IsFiniteSet(Roots)
        BY DEF TreeInv, TreeType
    <2>2. S \in SUBSET Roots
        OBVIOUS
    <2>3. IsFiniteSet(S)
        <3> HIDE DEF S
        <3> QED BY <2>1, <2>2, FS_Subset
    <2>4. \A r \in S : \E i \in DOMAIN Ascending(S) : Ascending(S)[i] = r
        <3>1. S \in SUBSET Nat
            BY <2>1
        <3> HIDE DEF S
        <3> QED BY <2>3, <3>1, AscendingIn
    <2> QED BY <1>1, <2>4 DEF Range
<1> QED BY <1>1, <1>2, <1>3 DEF BuildInv

LEMMA BeginTreeBuild ==
    ASSUME TreeInv, BuildInv, BeginTree
    PROVE  BuildInv'
<1>1. /\ layout = "next" /\ queue # <<>> /\ phase = "trees"
      /\ trees' = [trees EXCEPT ![Head(queue)] = <<>>]
      /\ layout' = "leaves" /\ at' = NoKey /\ level' = 0
      /\ UNCHANGED <<vars, items, queue, extents_changed>>
    BY DEF BeginTree, TreeInv, SpaceInv, TreePhase
<1>2. TreeType /\ phase' = phase /\ Roots' = Roots /\ DOMAIN trees = Roots
    BY <1>1 DEF TreeInv, TreeType, vars, Roots
<1>3. PICK h \in Roots : h = Head(queue)
    BY <1>1, <1>2, LeafFacts
<1>4. ItemsStay
    BY <1>1, <1>2, SameItems
<1>5. /\ trees'[h] = <<>> /\ \A s \in Roots : s # h => trees'[s] = trees[s]
    BY <1>1, <1>2, <1>3
<1>6. (\A r \in Roots : \/ r \in Range(queue)
                        \/ extents_changed /\ r \in Rebuilt
                        \/ Whole(trees[r], Lasting(r)))'
    BY <1>1, <1>2, <1>3, <1>4, <1>5, OthersStay
<1>7. \A l \in Lasting(h) : ~ KeyBefore(l, NoKey)
    BY <1>2, NoKeyFirst DEF Lasting, TreeType, ItemsType
<1>8. Lasting(h)' = Lasting(h) /\ Head(queue') = h
    BY <1>1, <1>3, <1>4 DEF ItemsStay
<1>9. LeavesPartly(trees'[h], Lasting(h)', at')
    BY <1>1, <1>5, <1>7, <1>8, EmptyList DEF LeavesPartly
<1>10. LeavesPartly(trees[Head(queue)], Lasting(Head(queue)), at)'
    BY <1>8, <1>9
<1> QED BY <1>1, <1>6, <1>10 DEF BuildInv

LEMMA RebuildBuild ==
    ASSUME TreeInv, BuildInv, Rebuild
    PROVE  BuildInv'
<1>1. /\ layout = "next" /\ queue = <<>> /\ phase = "trees" /\ layout' = "next"
      /\ queue' = <<ExtentTree, ChunkTree, DevTree>> /\ trees' = trees
    BY DEF Rebuild, TreeInv, SpaceInv, TreePhase
<1>2. Roots' = Roots /\ \A r \in Roots \ Rebuilt : items'[r] = items[r]
    BY RebuildItems
<1>3. ASSUME NEW r \in Roots
      PROVE  r \in Range(queue') \/ Whole(trees'[r], Lasting(r)')
    <2>1. CASE r \in Rebuilt
        <3>1. r = queue'[1] \/ r = queue'[2] \/ r = queue'[3]
            BY <1>1, <2>1 DEF Rebuilt
        <3>2. DOMAIN queue' = {1, 2, 3}
            BY <1>1
        <3> QED BY <3>1, <3>2 DEF Range
    <2>2. CASE r \notin Rebuilt
        <3>1. r \notin Range(queue)
            BY <1>1, EmptyList
        <3>2. Whole(trees[r], Lasting(r))
            BY <1>1, <2>2, <3>1 DEF BuildInv
        <3>3. Lasting(r)' = Lasting(r)
            BY <1>2, <2>2 DEF Lasting
        <3> QED BY <1>1, <3>2, <3>3
    <2> QED BY <2>1, <2>2
<1> QED BY <1>1, <1>2, <1>3 DEF BuildInv

LEMMA LastStepsBuild ==
    ASSUME TreeInv, BuildInv, TooLarge \/ UpdateTrees \/ WriteSuper \/ UNCHANGED <<vars, tvars>>
    PROVE  BuildInv'
<1> SUFFICES ASSUME phase' = "trees" PROVE BuildInv'
    BY DEF BuildInv
<1>1. /\ UNCHANGED <<items, trees, queue, extents_changed, level, child, at>>
      /\ phase = "trees" /\ layout' \in {layout, "super", "done"}
    BY DEF TooLarge, UpdateTrees, WriteSuper, vars, tvars, building, TreeInv, SpaceInv, TreePhase
<1>2. /\ items' = items /\ trees' = trees /\ queue' = queue /\ level' = level /\ at' = at
      /\ child' = child /\ extents_changed' = extents_changed
    BY <1>1
<1>3. \A r : Lasting(r)' = Lasting(r)
    BY <1>2 DEF Lasting
<1>4. Roots' = Roots /\ Head(queue') = Head(queue)
    BY <1>2 DEF Roots
<1>5. Lasting(Head(queue))' = Lasting(Head(queue))
    BY <1>2 DEF Lasting
<1>6. layout' = "leaves" =>
         level' = 0 /\ LeavesPartly(trees[Head(queue)], Lasting(Head(queue)), at)'
    BY <1>1, <1>2, <1>4, <1>5 DEF BuildInv
<1>7. layout' = "nodes" => Growing(trees[Head(queue)], Lasting(Head(queue)), child, level)'
    BY <1>1, <1>2, <1>4, <1>5 DEF BuildInv
<1>8. (\A r \in Roots : \/ r \in Range(queue)
                        \/ extents_changed /\ r \in Rebuilt
                        \/ Whole(trees[r], Lasting(r)))'
    BY <1>1, <1>2, <1>3, <1>4 DEF BuildInv
<1> QED BY <1>6, <1>7, <1>8 DEF BuildInv

LEMMA RootKeys ==
    ASSUME NEW ids
    PROVE  \A k \in RootItems(ids) : k[2] # METADATA_ITEM
BY DEF RootItems, ROOT_ITEM, METADATA_ITEM

LEMMA InitKnown == TreeInit => KnownInv
<1> SUFFICES ASSUME TreeInit PROVE KnownInv
    OBVIOUS
<1>1. known = 0 /\ extents_changed /\ Len(chunks) = 0
    BY DEF TreeInit, Init
<1>2. PICK content \in Contents :
         items = [id \in 1 .. 4 + Len(content) |->
                       CASE id = RootTree -> RootItems(1 .. 4 + Len(content))
                         [] id = ExtentTree -> {}
                         [] id = ChunkTree -> {TheDevItem}
                         [] id = DevTree -> {<<0, DEV_STATS, 1>>}
                         [] OTHER -> FileItems(content[id - 4])]
    BY Zenon DEF TreeInit
<1> DEFINE ids == 1 .. 4 + Len(content)
<1>3. RootTree \in ids
    <2>1. Len(content) \in Nat
        OBVIOUS
    <2> QED BY <2>1 DEF RootTree
<1> HIDE DEF ids
<1>4. Roots = ids /\ items[RootTree] = RootItems(ids)
    BY <1>2, <1>3 DEF Roots, ids, RootTree, ExtentTree, ChunkTree, DevTree
<1>5. Lasting(RootTree) = RootItems(Roots)
    BY <1>4, RootKeys DEF Lasting
<1> QED BY <1>1, <1>5 DEF KnownInv

\* Chunks do not move, and none goes away.
LEMMA ChunksRemain ==
    ASSUME TreeInv, [TreeNext]_<<vars, tvars>>, layout # "scan", Len(chunks') \in Nat,
           DOMAIN chunks' = 1 .. Len(chunks')
    PROVE  /\ Len(chunks) <= Len(chunks')
           /\ \A i \in 1 .. Len(chunks) :
                 chunks'[i].start = chunks[i].start /\ chunks'[i].length = chunks[i].length
<1>1. SpaceInv /\ TreePhase /\ IInv /\ ChunksApart /\ FreeInside
    BY DEF TreeInv, SpaceInv, GeometryInv
<1>2. DOMAIN chunks = 1 .. Len(chunks) /\ Len(chunks) \in Nat
    <2>1. chunks \in Seq(Chunks)
        BY <1>1 DEF IInv, TypeOK
    <2> QED BY <2>1
<1>3. Quiet \/ Calls
    <2>1. ~ ScanSegment
        BY <1>1 DEF ScanSegment, TreePhase
    <2> QED BY <1>1, <2>1, TreeSteps
<1>4. CASE Quiet
    BY <1>2, <1>4 DEF Quiet, ChunksKept
<1>5. CASE Calls
    <2>1. ChunksStay
        BY <1>1, <1>5, CallGrants DEF Calls
    <2>2. ASSUME Len(chunks) > Len(chunks') PROVE FALSE
        <3>1. Len(chunks) \in DOMAIN chunks
            BY <1>2, <2>2
        <3>2. Len(chunks) \in DOMAIN chunks'
            BY <2>1, <3>1 DEF ChunksStay
        <3> QED BY <1>2, <2>2, <3>2
    <2> QED BY <1>2, <2>1, <2>2 DEF ChunksStay
<1> QED BY <1>3, <1>4, <1>5

\* A step that leaves the items that stay and what the trees know of.
LEMMA KnownKept ==
    ASSUME TreeInv, KnownInv, known' = known, Roots' = Roots, ItemsStay,
           layout' = "scan" => layout = "scan" /\ extents_changed' = extents_changed,
           Len(chunks) <= Len(chunks'), Len(chunks') \in Nat,
           \A i \in 1 .. Len(chunks) :
              chunks'[i].start = chunks[i].start /\ chunks'[i].length = chunks[i].length
    PROVE  KnownInv'
<1>1. Len(chunks) \in Nat /\ known \in Nat /\ {1, 2, 3, 4} \subseteq Roots
    <2>1. chunks \in Seq(Chunks)
        BY DEF TreeInv, SpaceInv, GeometryInv, IInv, TypeOK
    <2> QED BY <2>1 DEF TreeInv, TreeType
<1>2. /\ Lasting(ChunkTree)' = Lasting(ChunkTree) /\ Lasting(DevTree)' = Lasting(DevTree)
      /\ Lasting(ExtentTree)' = Lasting(ExtentTree) /\ Lasting(RootTree)' = Lasting(RootTree)
    <2>1. ChunkTree \in Roots /\ DevTree \in Roots /\ ExtentTree \in Roots /\ RootTree \in Roots
        BY <1>1 DEF ChunkTree, DevTree, ExtentTree, RootTree
    <2> QED BY <2>1 DEF ItemsStay, ChunkTree, DevTree, ExtentTree, RootTree
<1>3. \A i \in 1 .. known :
         /\ ChunkItem(chunks[i])' = ChunkItem(chunks[i])
         /\ DevExtent(chunks[i])' = DevExtent(chunks[i])
         /\ BlockGroupItem(chunks[i])' = BlockGroupItem(chunks[i])
    <2> TAKE i \in 1 .. known
    <2>1. chunks'[i].start = chunks[i].start /\ chunks'[i].length = chunks[i].length
        BY <1>1 DEF KnownInv
    <2> QED BY <2>1 DEF ChunkItem, DevExtent, BlockGroupItem
<1>4. known' <= Len(chunks')
    BY <1>1 DEF KnownInv
<1> QED BY <1>2, <1>3, <1>4 DEF KnownInv

LEMMA PrepareKnown ==
    ASSUME TreeInv, KnownInv, Prepare, Len(chunks') \in Nat
    PROVE  KnownInv'
<1>1. /\ known' = 0 /\ extents_changed'
      /\ items' = items \/ items' = [items EXCEPT ![ExtentTree] = DataItems]
    BY DEF Prepare, KnownInv
<1>2. Roots' = Roots /\ items'[RootTree] = items[RootTree]
    <2>1. RootTree \in Roots /\ RootTree # ExtentTree
        BY DEF TreeInv, TreeType, RootTree, ExtentTree
    <2> QED BY <1>1, <2>1 DEF Roots
<1>3. Lasting(RootTree)' = RootItems(Roots)'
    BY <1>2 DEF KnownInv, Lasting, RootTree
<1> QED BY <1>1, <1>3 DEF KnownInv

LEMMA RebuildKnown ==
    ASSUME TreeInv, KnownInv, Rebuild
    PROVE  KnownInv'
<1>1. known' = Len(chunks) /\ chunks' = chunks /\ layout' = "next" /\ chunks \in Seq(Chunks)
    BY DEF Rebuild, vars, TreeInv, SpaceInv, GeometryInv, IInv, TypeOK
<1>2. /\ Roots' = Roots
      /\ \A r \in Roots : items[r] \subseteq items'[r]
      /\ \A r \in Roots \ Rebuilt : items'[r] = items[r]
      /\ \A i \in known + 1 .. Len(chunks) :
            /\ ChunkItem(chunks[i]) \in items'[ChunkTree]
            /\ DevExtent(chunks[i]) \in items'[DevTree]
            /\ BlockGroupItem(chunks[i]) \in items'[ExtentTree]
    BY RebuildItems
<1>3. /\ ChunkTree \in Roots /\ DevTree \in Roots /\ ExtentTree \in Roots
      /\ RootTree \in Roots \ Rebuilt /\ known \in Nat
    BY DEF TreeInv, TreeType, ChunkTree, DevTree, ExtentTree, RootTree, Rebuilt
<1>4. Lasting(RootTree)' = RootItems(Roots)'
    BY <1>2, <1>3 DEF KnownInv, Lasting, RootTree
<1>5. ASSUME NEW i \in 1 .. Len(chunks)
      PROVE  /\ ChunkItem(chunks[i]) \in Lasting(ChunkTree)'
             /\ DevExtent(chunks[i]) \in Lasting(DevTree)'
             /\ BlockGroupItem(chunks[i]) \in Lasting(ExtentTree)'
    <2>1. chunks[i] \in Chunks
        BY <1>1
    <2>2. /\ ChunkItem(chunks[i])[2] # METADATA_ITEM /\ DevExtent(chunks[i])[2] # METADATA_ITEM
          /\ BlockGroupItem(chunks[i])[2] # METADATA_ITEM
        BY <2>1, ChunkItemKeys
    <2>3. /\ ChunkItem(chunks[i]) \in items'[ChunkTree]
          /\ DevExtent(chunks[i]) \in items'[DevTree]
          /\ BlockGroupItem(chunks[i]) \in items'[ExtentTree]
        <3>1. CASE i \in 1 .. known
            <4>1. /\ ChunkItem(chunks[i]) \in items[ChunkTree]
                  /\ DevExtent(chunks[i]) \in items[DevTree]
                  /\ BlockGroupItem(chunks[i]) \in items[ExtentTree]
                BY <3>1 DEF KnownInv, Lasting
            <4> QED BY <1>2, <1>3, <4>1
        <3>2. CASE i \in known + 1 .. Len(chunks)
            BY <1>2, <3>2
        <3>3. i \in 1 .. known \/ i \in known + 1 .. Len(chunks)
            BY <1>1, <1>3
        <3> QED BY <3>1, <3>2, <3>3
    <2> QED BY <2>2, <2>3 DEF Lasting, ChunkTree, DevTree, ExtentTree
<1>6. Len(chunks) \in Nat
    BY <1>1
<1>7. \A i \in 1 .. known' :
         /\ ChunkItem(chunks[i])' \in Lasting(ChunkTree)'
         /\ DevExtent(chunks[i])' \in Lasting(DevTree)'
         /\ BlockGroupItem(chunks[i])' \in Lasting(ExtentTree)'
    BY <1>1, <1>5 DEF ChunkItem, DevExtent, BlockGroupItem
<1> QED BY <1>1, <1>4, <1>6, <1>7 DEF KnownInv

LEMMA KnownStep ==
    ASSUME TreeInv, TreeInv', KnownInv, [TreeNext]_<<vars, tvars>>
    PROVE  KnownInv'
<1>1. TreeType /\ TreePhase /\ chunks \in Seq(Chunks) /\ chunks' \in Seq(Chunks)
    BY DEF TreeInv, SpaceInv, GeometryInv, IInv, TypeOK
<1>2. /\ Len(chunks) \in Nat /\ Len(chunks') \in Nat
      /\ DOMAIN chunks' = 1 .. Len(chunks')
    BY <1>1
<1>3. CASE Prepare
    BY <1>2, <1>3, PrepareKnown
<1>4. CASE Rebuild
    BY <1>4, RebuildKnown
<1>5. CASE BeginTree \/ TooLarge \/ UpdateTrees \/ WriteSuper \/ UNCHANGED <<vars, tvars>>
    <2>1. /\ items' = items /\ known' = known /\ chunks' = chunks
          /\ layout' = "scan" => layout = "scan" /\ extents_changed' = extents_changed
        BY <1>5 DEF BeginTree, TooLarge, UpdateTrees, WriteSuper, vars, tvars, building
    <2>2. ItemsStay /\ Roots' = Roots
        BY <1>1, <2>1, SameItems DEF Roots
    <2> QED BY <1>2, <2>1, <2>2, KnownKept
<1>6. CASE EndLeaf \/ EndNode
    <2>1. /\ known' = known /\ layout # "scan" /\ phase = "trees" /\ layout' # "scan"
        BY <1>1, <1>6, EndLeafShape, EndNodeShape DEF TreePhase
    <2>2. ItemsStay
        <3>1. queue # <<>>
            BY <1>6 DEF TreeInv, QueueFilled, EndLeaf, EndNode
        <3>2. Head(queue) \in Roots /\ Pending \in Keys
            BY <1>1, <3>1, LeafFacts
        <3>3. NoKey \in Keys /\ level \in Nat /\ 0 \in Nat
            BY <1>1 DEF NoKey, Keys, TreeType
        <3> QED BY <1>6, <2>1, <3>2, <3>3, EndLeafShape, EndNodeShape, AddBlockShape
    <2>3. Roots' = Roots
        BY <2>2 DEF ItemsStay, Roots
    <2>4. /\ Len(chunks) <= Len(chunks')
          /\ \A i \in 1 .. Len(chunks) :
                chunks'[i].start = chunks[i].start /\ chunks'[i].length = chunks[i].length
        BY <1>2, <2>1, ChunksRemain
    <2> QED BY <1>2, <2>1, <2>2, <2>3, <2>4, KnownKept
<1> QED BY <1>3, <1>4, <1>5, <1>6 DEF TreeNext

-----------------------------------------------------------------------------
(* What is written at the end. *)

\* What update_root_root, update_extent_root and write_superblocks go by.
RootItemsNow ==
    [r \in {r \in Roots : <<r, ROOT_ITEM, 0>> \in LaidOut(RootTree)} |->
        [addr |-> Top(r).addr, level |-> Top(r).level]]
BgStarts ==
    {c.start : c \in {d \in Range(chunks) : BlockGroupItem(d) \in LaidOut(ExtentTree)}}
SysExtents == {[start |-> c.start, length |-> c.length] : c \in SysChunks}

LaidInv ==
    Laid =>
        /\ known = Len(chunks)
        /\ \A r \in Roots : Whole(trees[r], Lasting(r))
        /\ root_items = RootItemsNow /\ DOMAIN bg_used = BgStarts
        /\ layout = "done" => super.sys_chunks = SysExtents

LEMMA SameTrees ==
    ASSUME UNCHANGED <<items, trees, chunks>>
    PROVE  /\ Roots' = Roots /\ RootItemsNow' = RootItemsNow /\ BgStarts' = BgStarts
           /\ SysExtents' = SysExtents /\ \A r : Lasting(r)' = Lasting(r)
<1>1. items' = items /\ trees' = trees /\ chunks' = chunks
    OBVIOUS
<1>2. Roots' = Roots /\ \A r : Lasting(r)' = Lasting(r)
    BY <1>1 DEF Roots, Lasting
<1>3. \A r : LaidOut(r)' = LaidOut(r) /\ Top(r)' = Top(r)
    BY <1>1 DEF LaidOut, Top
<1>4. LaidOut(RootTree)' = LaidOut(RootTree) /\ LaidOut(ExtentTree)' = LaidOut(ExtentTree)
    BY <1>3 DEF RootTree, ExtentTree
<1>5. RootItemsNow' = RootItemsNow
    BY <1>2, <1>3, <1>4 DEF RootItemsNow
<1>6. BgStarts' = BgStarts
    BY <1>1, <1>4 DEF BgStarts
<1>7. SysExtents' = SysExtents
    BY <1>1 DEF SysExtents, SysChunks
<1> QED BY <1>2, <1>5, <1>6, <1>7

LEMMA LaidStep ==
    ASSUME TreeInv, BuildInv, LaidInv, [TreeNext]_<<vars, tvars>>
    PROVE  LaidInv'
<1>1. TreePhase
    BY DEF TreeInv, SpaceInv
<1>2. CASE Prepare \/ BeginTree \/ EndLeaf \/ EndNode \/ Rebuild \/ TooLarge
    <2>1. layout' \notin {"super", "done"}
        BY <1>1, <1>2, EndLeafShape, EndNodeShape
        DEF Prepare, BeginTree, Rebuild, TooLarge, TreePhase, tvars, building
    <2> QED BY <2>1 DEF LaidInv, Laid
<1>3. CASE UpdateTrees
    <2>1. /\ layout' = "super" /\ queue = <<>> /\ ~ extents_changed /\ Len(chunks) = known
          /\ phase = "trees"
          /\ UNCHANGED <<vars, items, trees, known>>
        BY <1>1, <1>3 DEF UpdateTrees, Settled, TreePhase
    <2>2. root_items' = RootItemsNow
        BY <1>3, Zenon DEF UpdateTrees, RootItemsNow
    <2>3. DOMAIN bg_used' = BgStarts
        BY <1>3 DEF UpdateTrees, BgStarts
    <2>4. ASSUME NEW r \in Roots PROVE Whole(trees[r], Lasting(r))
        <3>1. r \notin Range(queue)
            BY <2>1, EmptyList
        <3> QED BY <2>1, <3>1 DEF BuildInv
    <2>5. /\ Roots' = Roots /\ RootItemsNow' = RootItemsNow /\ BgStarts' = BgStarts
          /\ \A r : Lasting(r)' = Lasting(r)
        BY <2>1, SameTrees DEF vars
    <2>6. known' = Len(chunks') /\ trees' = trees
        BY <2>1 DEF vars
    <2>7. \A r \in Roots' : Whole(trees[r], Lasting(r))'
        BY <2>4, <2>5, <2>6
    <2> QED BY <2>1, <2>2, <2>3, <2>5, <2>6, <2>7 DEF LaidInv
<1>4. CASE WriteSuper \/ UNCHANGED <<vars, tvars>>
    <2>1. UNCHANGED <<items, trees, chunks, known, root_items, bg_used>>
        BY <1>4 DEF WriteSuper, vars, tvars, building, finished
    <2>2. Laid' => Laid
        BY <1>4 DEF WriteSuper, tvars, building, Laid
    <2>3. layout' = "done" => super'.sys_chunks = SysExtents \/ (layout = "done" /\ super' = super)
        <3>1. CASE UNCHANGED <<vars, tvars>>
            BY <3>1 DEF tvars, building, finished
        <3>2. CASE WriteSuper
            <4>1. CASE layout' = layout
                BY <3>2, <4>1 DEF WriteSuper
            <4>2. CASE layout' # layout
                <5>1. ~ (Cardinality(SysChunks) > MaxSysChunks)
                    BY <3>2, <4>2 DEF WriteSuper
                <5>2. \E a, b, c, d, e :
                        super' = [root |-> a, root_level |-> b, chunk_root |-> c,
                                  chunk_root_level |-> d, sys_chunks |-> SysExtents,
                                  bytes_used |-> e]
                    BY <3>2, <5>1, Zenon DEF WriteSuper, SysExtents
                <5> QED BY <5>2
            <4> QED BY <4>1, <4>2
        <3> QED BY <1>4, <3>1, <3>2
    <2>4. /\ Roots' = Roots /\ RootItemsNow' = RootItemsNow /\ BgStarts' = BgStarts
          /\ SysExtents' = SysExtents /\ \A r : Lasting(r)' = Lasting(r)
        BY <2>1, SameTrees
    <2>5. /\ trees' = trees /\ chunks' = chunks /\ known' = known
          /\ root_items' = root_items /\ bg_used' = bg_used
        BY <2>1
    <2>6. Laid' => \A r \in Roots' : Whole(trees[r], Lasting(r))'
        BY <2>2, <2>4, <2>5 DEF LaidInv
    <2>7. layout' = "done" => super'.sys_chunks = SysExtents'
        BY <2>2, <2>3, <2>4 DEF LaidInv, Laid
    <2> QED BY <2>2, <2>4, <2>5, <2>6, <2>7 DEF LaidInv
<1> QED BY <1>2, <1>3, <1>4 DEF TreeNext

LayoutInv == TreeInv /\ BuildInv /\ KnownInv /\ LaidInv

LEMMA InitLayout ==
    ASSUME FiniteBitmaps
    PROVE  TreeInit => LayoutInv
<1> SUFFICES ASSUME TreeInit PROVE LayoutInv
    OBVIOUS
<1>1. layout = "scan" /\ phase = "scan"
    BY DEF TreeInit, Init
<1>2. BuildInv /\ LaidInv
    BY <1>1 DEF BuildInv, LaidInv, Laid
<1> QED BY <1>2, InitTree, InitKnown DEF LayoutInv

LEMMA LayoutStep ==
    ASSUME WholeStripes, FiniteBitmaps, LayoutInv, [TreeNext]_<<vars, tvars>>
    PROVE  LayoutInv'
<1>1. TreeInv /\ BuildInv /\ KnownInv /\ LaidInv
    BY DEF LayoutInv
<1>2. TreeInv'
    BY <1>1, TreeInvStep
<1>3. BuildInv'
    BY <1>1, PrepareBuild, BeginTreeBuild, EndLeafBuild, EndNodeBuild, RebuildBuild,
       LastStepsBuild
    DEF TreeNext
<1>4. KnownInv'
    BY <1>1, <1>2, KnownStep
<1>5. LaidInv'
    BY <1>1, LaidStep
<1> QED BY <1>2, <1>3, <1>4, <1>5 DEF LayoutInv

LEMMA LayoutInvariant ==
    ASSUME WholeStripes, FiniteBitmaps
    PROVE  TreeSpec => []LayoutInv
<1>1. TreeInit => LayoutInv
    BY InitLayout
<1>2. LayoutInv /\ [TreeNext]_<<vars, tvars>> => LayoutInv'
    BY LayoutStep
<1> QED BY <1>1, <1>2, PTL DEF TreeSpec

\* However often the trees were laid out, while items were added and while the items of
\* blocks changed their keys under the loop of create_trees: of what is written, every item
\* that is not a block's own is in a leaf of its tree, and the block that is the top of a
\* tree is above all its others.
THEOREM AllItemsWritten ==
    ASSUME WholeStripes, FiniteBitmaps
    PROVE  TreeSpec =>
             [](Laid => \A r \in Roots :
                    /\ {k \in items[r] : k[2] # METADATA_ITEM} \subseteq LaidOut(r)
                    /\ \A i \in 1 .. Len(trees[r]) - 1 : trees[r][i].level < Top(r).level)
<1> DEFINE P == Laid => \A r \in Roots :
                    /\ {k \in items[r] : k[2] # METADATA_ITEM} \subseteq LaidOut(r)
                    /\ \A i \in 1 .. Len(trees[r]) - 1 : trees[r][i].level < Top(r).level
<1>1. LayoutInv => P
    BY DEF LayoutInv, LaidInv, Whole, Lasting, LaidOut, InLeaves, Top
<1>2. TreeSpec => []LayoutInv
    BY LayoutInvariant
<1> QED BY <1>1, <1>2, PTL

LEMMA TopOfTree ==
    ASSUME TreeInv, NEW r \in Roots, NEW keys, Whole(trees[r], keys)
    PROVE  /\ Top(r) \in BlocksOf(r)
           /\ \A b \in BlocksOf(r) : b.level < Top(r).level \/ b = Top(r)
<1>1. IsList(trees[r])
    BY DEF TreeInv, TreeType, BlockListsType
<1>2. DOMAIN trees[r] = 1 .. Len(trees[r]) /\ Len(trees[r]) \in Nat
    BY <1>1 DEF IsList
<1>3. Len(trees[r]) \in DOMAIN trees[r]
    BY <1>2 DEF Whole
<1>4. Top(r) \in BlocksOf(r)
    BY <1>3 DEF Top, BlocksOf, Range
<1>5. ASSUME NEW b \in BlocksOf(r) PROVE b.level < Top(r).level \/ b = Top(r)
    <2>1. PICK i \in 1 .. Len(trees[r]) : b = trees[r][i]
        BY <1>2 DEF BlocksOf, Range
    <2>2. i = Len(trees[r]) \/ i \in 1 .. Len(trees[r]) - 1
        BY <1>2
    <2> QED BY <2>1, <2>2 DEF Whole, Top
<1> QED BY <1>4, <1>5

LEMMA BootableFromInv ==
    ASSUME LayoutInv
    PROVE  Bootable
<1> SUFFICES ASSUME layout = "done" PROVE Bootable
    BY DEF Bootable
<1>1. /\ TreeInv /\ KnownInv /\ known = Len(chunks)
      /\ \A r \in Roots : Whole(trees[r], Lasting(r))
      /\ root_items = RootItemsNow /\ DOMAIN bg_used = BgStarts
      /\ super.sys_chunks = SysExtents
    BY DEF LayoutInv, LaidInv, Laid
<1>2. /\ ChunkTree \in Roots /\ DevTree \in Roots /\ ExtentTree \in Roots /\ RootTree \in Roots
      /\ Roots \subseteq Nat
    BY <1>1 DEF TreeInv, TreeType, ChunkTree, DevTree, ExtentTree, RootTree
<1>3. \A r \in Roots : Lasting(r) \subseteq LaidOut(r)
    BY <1>1 DEF Whole, LaidOut, InLeaves
<1>4. chunks \in Seq(Chunks)
    BY <1>1 DEF TreeInv, SpaceInv, GeometryInv, IInv, TypeOK
<1>5. DOMAIN chunks = 1 .. Len(chunks)
    BY <1>4
<1>6. ASSUME NEW b \in BlocksOf(ChunkTree)
      PROVE  \E c \in super.sys_chunks : Extent(b.addr, TreeSize) \subseteq Extent(c.start, c.length)
    <2>1. PICK i \in 1 .. Len(trees[ChunkTree]) : b = trees[ChunkTree][i]
        <3>1. IsList(trees[ChunkTree])
            BY <1>1, <1>2 DEF TreeInv, TreeType, BlockListsType
        <3> QED BY <3>1 DEF IsList, BlocksOf, Range
    <2>2. PICK n \in DOMAIN chunks :
             /\ chunks[n].type = TypeFor(ChunkTree)
             /\ BlockExtent(ChunkTree, i) \subseteq Extent(chunks[n].start, chunks[n].length)
        BY <1>1, <1>2, ClearBlock
    <2> DEFINE c == chunks[n]
               e == [start |-> c.start, length |-> c.length]
    <2>3. c \in Range(chunks) /\ c.type = "system"
        BY <2>2 DEF Range, TypeFor
    <2>4. ChunkItem(c) \in items[ChunkTree]
        BY <1>1, <1>5, <2>2 DEF KnownInv, Lasting
    <2>5. c \in SysChunks
        BY <2>3, <2>4 DEF SysChunks
    <2>6. e \in SysExtents
        <3> HIDE DEF c
        <3> QED BY <2>5 DEF SysExtents
    <2>7. Extent(b.addr, TreeSize) \subseteq Extent(e.start, e.length)
        BY <2>1, <2>2 DEF BlockExtent
    <2> HIDE DEF e, c
    <2> QED BY <1>1, <2>6, <2>7
<1>7. ASSUME NEW c \in Range(chunks)
      PROVE  /\ ChunkItem(c) \in LaidOut(ChunkTree)
             /\ DevExtent(c) \in LaidOut(DevTree)
             /\ c.start \in DOMAIN bg_used
    <2>1. PICK i \in DOMAIN chunks : c = chunks[i]
        BY DEF Range
    <2>2. /\ ChunkItem(c) \in Lasting(ChunkTree) /\ DevExtent(c) \in Lasting(DevTree)
          /\ BlockGroupItem(c) \in Lasting(ExtentTree)
        BY <1>1, <1>5, <2>1 DEF KnownInv
    <2>3. BlockGroupItem(c) \in LaidOut(ExtentTree)
        BY <1>2, <1>3, <2>2
    <2>4. c.start \in BgStarts
        BY <2>3 DEF BgStarts
    <2> QED BY <1>1, <1>2, <1>3, <2>2, <2>4
<1>8. ASSUME NEW r \in Roots \ {RootTree, ChunkTree}
      PROVE  \E b \in BlocksOf(r) :
                /\ root_items[r] = [addr |-> b.addr, level |-> b.level]
                /\ \A other \in BlocksOf(r) : other.level < b.level \/ other = b
    <2>1. <<r, ROOT_ITEM, 0>> \in RootItems(Roots)
        BY DEF RootItems
    <2>2. <<r, ROOT_ITEM, 0>> \in LaidOut(RootTree)
        BY <1>1, <1>2, <1>3, <2>1 DEF KnownInv
    <2>3. root_items[r] = [addr |-> Top(r).addr, level |-> Top(r).level]
        BY <1>1, <2>2 DEF RootItemsNow
    <2>4. /\ Top(r) \in BlocksOf(r)
          /\ \A b \in BlocksOf(r) : b.level < Top(r).level \/ b = Top(r)
        BY <1>1, TopOfTree
    <2> QED BY <2>3, <2>4
<1> QED BY <1>6, <1>7, <1>8 DEF Bootable

\* From the superblock that write_superblocks writes everything is found: the blocks of the
\* chunk tree by the system chunks that the superblock itself describes, the chunks by the
\* chunk tree, and the other trees by their ROOT_ITEMs.
THEOREM AlwaysBootable ==
    ASSUME WholeStripes, FiniteBitmaps
    PROVE  TreeSpec => []Bootable
<1>1. LayoutInv => Bootable
    BY BootableFromInv
<1>2. TreeSpec => []LayoutInv
    BY LayoutInvariant
<1> QED BY <1>1, <1>2, PTL

=============================================================================
