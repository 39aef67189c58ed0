------------------------- MODULE ConversionProofs --------------------------
(***************************************************************************)
(* What a crash at any point of the conversion leaves: until the           *)
(* superblocks are written the device holds what NTFS put there, wherever  *)
(* it is in use, and when they are, every tree block is in its place.      *)
(*                                                                         *)
(* First, what parse_data_bitmap, split_runs and the insertion of an entry *)
(* do to a list: it stays in order, and covers just the clusters it        *)
(* should.                                                                 *)
(***************************************************************************)
EXTENDS Conversion, ChunkSpaceProofs

-----------------------------------------------------------------------------
(* The numbers of a set in ascending order are those of the set.           *)

Below(S, x) == {y \in S : y < x}
Rank(S, x) == Cardinality(Below(S, x))

LEMMA BelowFinite ==
    ASSUME NEW S \in SUBSET Nat, IsFiniteSet(S), NEW x \in Nat
    PROVE  IsFiniteSet(Below(S, x)) /\ Rank(S, x) \in Nat
BY FS_Subset, FS_CardinalityType DEF Below, Rank

LEMMA RankGrows ==
    ASSUME NEW S \in SUBSET Nat, IsFiniteSet(S), NEW x \in S, NEW y \in S, x < y
    PROVE  Rank(S, x) < Rank(S, y)
<1>1. /\ IsFiniteSet(Below(S, x)) /\ IsFiniteSet(Below(S, y))
      /\ Rank(S, x) \in Nat /\ Rank(S, y) \in Nat
    BY BelowFinite
<1>2. Below(S, x) \cup {x} \subseteq Below(S, y) /\ x \notin Below(S, x)
    <2>1. \A z \in S : z < x => z < y
        OBVIOUS
    <2>2. ~ (x < x)
        OBVIOUS
    <2> QED BY <2>1, <2>2 DEF Below
<1>3. /\ IsFiniteSet(Below(S, x) \cup {x})
      /\ Cardinality(Below(S, x) \cup {x}) = Rank(S, x) + 1
    BY <1>1, <1>2, FS_AddElement DEF Rank
<1>4. Rank(S, x) + 1 <= Rank(S, y)
    BY <1>1, <1>2, <1>3, FS_Subset DEF Rank
<1> QED BY <1>1, <1>4

\* Every rank below the size of the set is that of a member: the least that is not
\* would be that of the least member above those of smaller rank.
LEMMA RankTaken ==
    ASSUME NEW S \in SUBSET Nat, IsFiniteSet(S), NEW i \in 1 .. Cardinality(S)
    PROVE  \E x \in S : Rank(S, x) = i - 1
<1> DEFINE Bad == {j \in 1 .. Cardinality(S) : \A x \in S : Rank(S, x) # j - 1}
<1>1. Cardinality(S) \in Nat
    BY FS_CardinalityType
<1>2. ASSUME Bad # {} PROVE FALSE
    <2>1. Bad \in SUBSET Nat
        BY <1>1
    <2>2. PICK j \in Bad : \A k \in Bad : j <= k
        BY <1>2, <2>1, LeastNatural
    <2>3. j \in 1 .. Cardinality(S) /\ \A x \in S : Rank(S, x) # j - 1
        OBVIOUS
    <2>4. \E L \in SUBSET S : /\ IsFiniteSet(L) /\ Cardinality(L) = j - 1
                              /\ \A z \in S \ L : \A y \in L : y < z
        <3>1. CASE j = 1
            <4>1. IsFiniteSet({}) /\ Cardinality({}) = j - 1
                BY <3>1, FS_EmptySet
            <4> QED BY <4>1
        <3>2. CASE j > 1
            <4>1. j - 1 \in 1 .. Cardinality(S) /\ j - 1 \notin Bad
                BY <1>1, <2>2, <2>3, <3>2
            <4>2. PICK x \in S : Rank(S, x) = j - 2
                BY <2>3, <4>1
            <4>3. IsFiniteSet(Below(S, x)) /\ x \notin Below(S, x)
                BY BelowFinite DEF Below
            <4>4. /\ IsFiniteSet(Below(S, x) \cup {x})
                  /\ Cardinality(Below(S, x) \cup {x}) = (j - 2) + 1
                BY <4>2, <4>3, FS_AddElement DEF Rank
            <4>5. \A z \in S \ (Below(S, x) \cup {x}) : \A y \in Below(S, x) \cup {x} : y < z
                BY DEF Below
            <4>6. Below(S, x) \cup {x} \in SUBSET S
                BY DEF Below
            <4>7. (j - 2) + 1 = j - 1
                BY <2>3
            <4> QED BY <4>4, <4>5, <4>6, <4>7
        <3> QED BY <2>3, <3>1, <3>2
    <2>5. PICK L \in SUBSET S : /\ IsFiniteSet(L) /\ Cardinality(L) = j - 1
                                /\ \A z \in S \ L : \A y \in L : y < z
        BY <2>4
    <2>6. S \ L # {}
        <3>1. S \ L = {} => L = S
            OBVIOUS
        <3>2. Cardinality(L) # Cardinality(S)
            BY <1>1, <2>3, <2>5
        <3> QED BY <3>1, <3>2
    <2>7. PICK z \in S \ L : \A y \in S \ L : z <= y
        BY <2>6, LeastNatural
    <2>8. Below(S, z) = L
        <3>1. \A y \in S : y < z <=> y \in L
            <4>1. \A y \in S \ L : ~ (y < z)
                BY <2>7
            <4> QED BY <2>5, <4>1
        <3> QED BY <3>1 DEF Below
    <2>9. Rank(S, z) = j - 1
        BY <2>5, <2>8 DEF Rank
    <2> QED BY <2>3, <2>9
<1> QED BY <1>2

LEMMA AscendingIn ==
    ASSUME NEW S \in SUBSET Nat, IsFiniteSet(S)
    PROVE  /\ Ascending(S) \in Seq(S)
           /\ \A x \in S : \E i \in DOMAIN Ascending(S) : Ascending(S)[i] = x
<1>1. Cardinality(S) \in Nat
    BY FS_CardinalityType
<1> DEFINE At(i) == CHOOSE x \in S : Rank(S, x) = i - 1
<1>2. Ascending(S) = [i \in 1 .. Cardinality(S) |-> At(i)]
    BY Zenon DEF Ascending, Rank, Below
<1>3. \A i \in 1 .. Cardinality(S) : At(i) \in S /\ Rank(S, At(i)) = i - 1
    BY RankTaken
<1>4. ASSUME NEW x \in S
      PROVE  \E i \in 1 .. Cardinality(S) : At(i) = x
    <2>1. Rank(S, x) \in Nat /\ Rank(S, x) < Cardinality(S)
        <3>1. Below(S, x) \subseteq S /\ Below(S, x) # S
            BY DEF Below
        <3>2. /\ Cardinality(Below(S, x)) <= Cardinality(S)
              /\ Cardinality(Below(S, x)) # Cardinality(S)
            BY <3>1, FS_Subset
        <3>3. Rank(S, x) \in Nat
            BY BelowFinite
        <3> QED BY <1>1, <3>2, <3>3 DEF Rank
    <2>2. Rank(S, x) + 1 \in 1 .. Cardinality(S)
        BY <1>1, <2>1
    <2> DEFINE y == At(Rank(S, x) + 1)
    <2>3. y \in S /\ Rank(S, y) = Rank(S, x)
        BY <1>3, <2>1, <2>2
    <2> HIDE DEF y
    <2>4. y = x
        <3>1. y \in Nat /\ x \in Nat
            BY <2>3
        <3>2. CASE y < x
            BY <2>1, <2>3, <3>2, RankGrows
        <3>3. CASE x < y
            BY <2>1, <2>3, <3>3, RankGrows
        <3> QED BY <3>1, <3>2, <3>3
    <2> QED BY <2>2, <2>4 DEF y
<1> HIDE DEF At
<1>5. Ascending(S) \in Seq(S)
    BY <1>1, <1>2, <1>3
<1> QED BY <1>2, <1>4, <1>5

LEMMA AscendingFirst ==
    ASSUME NEW S \in SUBSET Nat, IsFiniteSet(S), S # {}
    PROVE  /\ Ascending(S) # <<>>
           /\ Head(Ascending(S)) \in S
           /\ \A x \in S : Head(Ascending(S)) <= x
<1>1. Cardinality(S) \in Nat /\ Cardinality(S) # 0
    BY FS_CardinalityType, FS_EmptySet
<1> DEFINE At(i) == CHOOSE x \in S : Rank(S, x) = i - 1
<1>2. Ascending(S) = [i \in 1 .. Cardinality(S) |-> At(i)]
    BY Zenon DEF Ascending, Rank, Below
<1>3. 1 \in 1 .. Cardinality(S)
    BY <1>1
<1>4. \E x \in S : Rank(S, x) = 1 - 1
    BY <1>3, RankTaken
<1>5. At(1) \in S /\ Rank(S, At(1)) = 1 - 1
    BY <1>4
<1> HIDE DEF At
<1>6. Below(S, At(1)) = {}
    <2>1. IsFiniteSet(Below(S, At(1)))
        BY <1>5, BelowFinite
    <2>2. Cardinality(Below(S, At(1))) = 0
        BY <1>5 DEF Rank
    <2> QED BY <2>1, <2>2, FS_EmptySet
<1>7. ASSUME NEW x \in S PROVE At(1) <= x
    <2>1. x \in Nat /\ At(1) \in Nat
        BY <1>5
    <2>2. ~ (x < At(1))
        BY <1>6, Zenon DEF Below
    <2> QED BY <2>1, <2>2
<1>8. Ascending(S) \in Seq(S) /\ Ascending(S)[1] = At(1) /\ DOMAIN Ascending(S) = 1 .. Cardinality(S)
    BY <1>2, <1>3, AscendingIn
<1> DEFINE q == Ascending(S)
<1>9. q \in Seq(S) /\ q[1] = At(1) /\ 1 \in DOMAIN q
    BY <1>3, <1>8
<1> HIDE DEF q
<1>10. q # <<>> /\ Head(q) = At(1)
    BY <1>9
<1> QED BY <1>5, <1>7, <1>10 DEF q

-----------------------------------------------------------------------------
(* Lists of entries. *)

Entries == [offset : Nat, length : Nat \ {0}, inode : Int, file_offset : Nat,
            relocated : BOOLEAN, not_in_img : BOOLEAN]

\* No entry reaches the one after it.
InOrder(list) ==
    \A i, j \in DOMAIN list : i < j => list[i].offset + list[i].length <= list[j].offset

Members(list) == {list[i] : i \in DOMAIN list}

\* The clusters of the entries.
Covered(list) == UNION {Extent(r.offset, r.length) : r \in Members(list)}

EndsBy(list, k) == \A r \in Members(list) : r.offset + r.length <= k
StartsFrom(list, k) == \A r \in Members(list) : r.offset >= k

LEMMA EntryType ==
    ASSUME NEW offset \in Nat, NEW length \in Nat \ {0}, NEW inode \in Int,
           NEW file_offset \in Nat, NEW relocated \in BOOLEAN, NEW not_in_img \in BOOLEAN
    PROVE  /\ DataAlloc(offset, length, inode, file_offset, relocated, not_in_img) \in Entries
           /\ DataAlloc(offset, length, inode, file_offset, relocated, not_in_img).offset = offset
           /\ DataAlloc(offset, length, inode, file_offset, relocated, not_in_img).length = length
BY DEF DataAlloc, Entries

LEMMA EntryFields ==
    ASSUME NEW r \in Entries
    PROVE  r.offset \in Nat /\ r.length \in Nat /\ r.length > 0
BY DEF Entries

LEMMA MemberEntries ==
    ASSUME NEW list \in Seq(Entries)
    PROVE  Members(list) \subseteq Entries
BY DEF Members

\* A list followed by another.
LEMMA TwoParts ==
    ASSUME NEW S, NEW s \in Seq(S), NEW t \in Seq(S)
    PROVE  /\ s \o t \in Seq(S)
           /\ Members(s \o t) = Members(s) \cup Members(t)
           /\ \A k \in DOMAIN (s \o t) :
                 \/ k \in DOMAIN s /\ (s \o t)[k] = s[k]
                 \/ k > Len(s) /\ k - Len(s) \in DOMAIN t /\ (s \o t)[k] = t[k - Len(s)]
<1> DEFINE q == s \o t
<1>1. /\ q \in Seq(S) /\ DOMAIN q = 1 .. Len(s) + Len(t)
      /\ DOMAIN s = 1 .. Len(s) /\ DOMAIN t = 1 .. Len(t)
      /\ Len(s) \in Nat /\ Len(t) \in Nat
      /\ \A k \in 1 .. Len(s) : q[k] = s[k]
      /\ \A k \in 1 .. Len(t) : q[k + Len(s)] = t[k]
    OBVIOUS
<1> HIDE DEF q
<1>2. ASSUME NEW k \in DOMAIN q
      PROVE  \/ k \in DOMAIN s /\ q[k] = s[k]
             \/ k > Len(s) /\ k - Len(s) \in DOMAIN t /\ q[k] = t[k - Len(s)]
    <2>1. CASE k <= Len(s)
        BY <1>1, <2>1
    <2>2. CASE k > Len(s)
        <3>1. k - Len(s) \in 1 .. Len(t) /\ (k - Len(s)) + Len(s) = k
            BY <1>1, <2>2
        <3> QED BY <1>1, <2>2, <3>1
    <2> QED BY <1>1, <2>1, <2>2
<1>3. \A k \in DOMAIN s : k \in DOMAIN q /\ q[k] = s[k]
    BY <1>1
<1>4. \A k \in DOMAIN t : k + Len(s) \in DOMAIN q /\ q[k + Len(s)] = t[k]
    BY <1>1
<1>5. Members(q) = Members(s) \cup Members(t)
    BY <1>2, <1>3, <1>4 DEF Members
<1> QED BY <1>1, <1>2, <1>5 DEF q

LEMMA PartsInOrder ==
    ASSUME NEW S, \A r \in S : r.offset \in Nat /\ r.length \in Nat,
           NEW s \in Seq(S), NEW t \in Seq(S), InOrder(s), InOrder(t),
           NEW k \in Int, EndsBy(s, k), StartsFrom(t, k)
    PROVE  InOrder(s \o t)
<1> DEFINE q == s \o t
<1>1. \A i \in DOMAIN q :
          \/ i \in DOMAIN s /\ q[i] = s[i]
          \/ i > Len(s) /\ i - Len(s) \in DOMAIN t /\ q[i] = t[i - Len(s)]
    BY TwoParts
<1>2. q \in Seq(S) /\ DOMAIN q \subseteq Int
    BY TwoParts
<1>3. DOMAIN s = 1 .. Len(s) /\ Len(s) \in Nat
    OBVIOUS
<1> HIDE DEF q
<1>4. ASSUME NEW i \in DOMAIN q, NEW j \in DOMAIN q, i < j
      PROVE  q[i].offset + q[i].length <= q[j].offset
    <2>1. i \in Int /\ j \in Int /\ q[i] \in S /\ q[j] \in S
        BY <1>2
    <2>2. CASE i \in DOMAIN s /\ j \in DOMAIN s /\ q[i] = s[i] /\ q[j] = s[j]
        BY <1>4, <2>2 DEF InOrder
    <2>3. CASE /\ i \in DOMAIN s /\ q[i] = s[i]
               /\ j - Len(s) \in DOMAIN t /\ q[j] = t[j - Len(s)]
        <3>1. q[i] \in Members(s) /\ q[j] \in Members(t)
            BY <2>3 DEF Members
        <3>2. q[i].offset + q[i].length <= k /\ q[j].offset >= k
            BY <3>1 DEF EndsBy, StartsFrom
        <3> QED BY <2>1, <3>2
    <2>4. CASE /\ i > Len(s) /\ i - Len(s) \in DOMAIN t /\ q[i] = t[i - Len(s)]
               /\ j > Len(s) /\ j - Len(s) \in DOMAIN t /\ q[j] = t[j - Len(s)]
        <3>1. i - Len(s) < j - Len(s)
            BY <1>3, <1>4, <2>1
        <3> QED BY <2>4, <3>1 DEF InOrder
    <2>5. ~ (i > Len(s) /\ j \in DOMAIN s)
        BY <1>3, <1>4, <2>1
    <2> QED BY <1>1, <2>2, <2>3, <2>4, <2>5
<1> QED BY <1>4 DEF InOrder, q

\* So for entries.
LEMMA JoinedMembers ==
    ASSUME NEW s \in Seq(Entries), NEW t \in Seq(Entries)
    PROVE  /\ s \o t \in Seq(Entries)
           /\ Members(s \o t) = Members(s) \cup Members(t)
BY TwoParts

LEMMA JoinedInOrder ==
    ASSUME NEW s \in Seq(Entries), NEW t \in Seq(Entries), InOrder(s), InOrder(t),
           NEW k \in Int, EndsBy(s, k), StartsFrom(t, k)
    PROVE  InOrder(s \o t)
<1>1. \A r \in Entries : r.offset \in Nat /\ r.length \in Nat
    BY EntryFields
<1> QED BY <1>1, PartsInOrder

LEMMA OneInOrder ==
    ASSUME NEW r \in Entries
    PROVE  /\ <<r>> \in Seq(Entries) /\ InOrder(<<r>>) /\ Members(<<r>>) = {r}
           /\ <<>> \in Seq(Entries) /\ InOrder(<<>>) /\ Members(<<>>) = {}
<1>1. /\ <<r>> \in Seq(Entries) /\ <<>> \in Seq(Entries)
      /\ DOMAIN <<r>> = {1} /\ <<r>>[1] = r /\ DOMAIN <<>> = {}
    OBVIOUS
<1>2. Members(<<r>>) = {r} /\ Members(<<>>) = {}
    BY <1>1 DEF Members
<1>3. InOrder(<<r>>) /\ InOrder(<<>>)
    BY <1>1 DEF InOrder
<1> QED BY <1>1, <1>2, <1>3

LEMMA PartInOrder ==
    ASSUME NEW list \in Seq(Entries), InOrder(list), NEW a \in Nat \ {0}, NEW b \in Nat, b <= Len(list)
    PROVE  /\ SubSeq(list, a, b) \in Seq(Entries) /\ InOrder(SubSeq(list, a, b))
           /\ Members(SubSeq(list, a, b)) = {list[k] : k \in a .. b}
<1> DEFINE q == SubSeq(list, a, b)
           n == IF a <= b THEN b - a + 1 ELSE 0
<1>1. /\ DOMAIN list = 1 .. Len(list) /\ Len(list) \in Nat
      /\ \A k \in DOMAIN list : list[k] \in Entries
    OBVIOUS
<1>2. q = [i \in 1 .. n |-> list[a + i - 1]] /\ n \in Nat
    <2>1. q = [i \in 1 .. (b - a + 1) |-> list[a + i - 1]]
        BY <1>1
    <2>2. 1 .. (b - a + 1) = 1 .. n
        OBVIOUS
    <2> QED BY <2>1, <2>2
<1>3. \A i \in 1 .. n : a + i - 1 \in a .. b /\ a + i - 1 \in DOMAIN list
    BY <1>1
<1>4. \A k \in a .. b : k - a + 1 \in 1 .. n /\ a + (k - a + 1) - 1 = k
    OBVIOUS
<1>5. DOMAIN q = 1 .. n /\ \A i \in 1 .. n : q[i] = list[a + i - 1]
    BY <1>2
<1>6. q \in Seq(Entries)
    BY <1>1, <1>2, <1>3
<1> HIDE DEF q, n
<1>7. InOrder(q)
    <2>1. ASSUME NEW i \in 1 .. n, NEW j \in 1 .. n, i < j
          PROVE  q[i].offset + q[i].length <= q[j].offset
        <3>1. a + i - 1 < a + j - 1
            BY <1>2, <2>1
        <3> QED BY <1>3, <1>5, <3>1 DEF InOrder
    <2> QED BY <1>5, <2>1 DEF InOrder
<1>8. Members(q) = {list[k] : k \in a .. b}
    <2>1. \A i \in DOMAIN q : \E k \in a .. b : q[i] = list[k]
        BY <1>3, <1>5
    <2>2. \A k \in a .. b : \E i \in DOMAIN q : list[k] = q[i]
        BY <1>4, <1>5
    <2> QED BY <2>1, <2>2 DEF Members
<1> QED BY <1>6, <1>7, <1>8 DEF q

\* The entries before one, and those after it.
LEMMA AroundEntry ==
    ASSUME NEW list \in Seq(Entries), InOrder(list), NEW i \in DOMAIN list
    PROVE  /\ EndsBy(SubSeq(list, 1, i - 1), list[i].offset)
           /\ StartsFrom(SubSeq(list, i + 1, Len(list)), list[i].offset + list[i].length)
           /\ Members(list) = Members(SubSeq(list, 1, i - 1)) \cup {list[i]}
                                \cup Members(SubSeq(list, i + 1, Len(list)))
<1>1. /\ DOMAIN list = 1 .. Len(list) /\ Len(list) \in Nat /\ i \in Nat \ {0}
      /\ i - 1 \in Nat /\ i - 1 <= Len(list)
    OBVIOUS
<1>2. /\ Members(SubSeq(list, 1, i - 1)) = {list[k] : k \in 1 .. i - 1}
      /\ Members(SubSeq(list, i + 1, Len(list))) = {list[k] : k \in i + 1 .. Len(list)}
    <2>1. 1 \in Nat \ {0} /\ i + 1 \in Nat \ {0} /\ Len(list) <= Len(list)
        BY <1>1
    <2> QED BY <1>1, <2>1, PartInOrder, Zenon
<1>3. \A k \in 1 .. i - 1 : list[k].offset + list[k].length <= list[i].offset
    BY <1>1 DEF InOrder
<1>4. \A k \in i + 1 .. Len(list) : list[i].offset + list[i].length <= list[k].offset
    BY <1>1 DEF InOrder
<1>5. Members(list) = {list[k] : k \in 1 .. i - 1} \cup {list[i]}
                        \cup {list[k] : k \in i + 1 .. Len(list)}
    <2>1. \A k \in DOMAIN list : k \in 1 .. i - 1 \/ k = i \/ k \in i + 1 .. Len(list)
        BY <1>1
    <2>2. 1 .. i - 1 \subseteq DOMAIN list /\ i + 1 .. Len(list) \subseteq DOMAIN list
        BY <1>1
    <2> QED BY <2>1, <2>2 DEF Members
<1>6. EndsBy(SubSeq(list, 1, i - 1), list[i].offset)
    BY <1>2, <1>3 DEF EndsBy
<1>7. StartsFrom(SubSeq(list, i + 1, Len(list)), list[i].offset + list[i].length)
    <2>1. \A k \in i + 1 .. Len(list) : list[k].offset >= list[i].offset + list[i].length
        BY <1>1, <1>4, EntryFields
    <2> QED BY <1>2, <2>1 DEF StartsFrom
<1> QED BY <1>2, <1>5, <1>6, <1>7

-----------------------------------------------------------------------------
(* split_runs. *)

\* What is before the clusters, and what is after them.
LEMMA EntriesBefore ==
    ASSUME NEW r \in Entries, NEW offset \in Nat, r.offset <= offset
    PROVE  /\ Before(r, offset) \in Seq(Entries) /\ InOrder(Before(r, offset))
           /\ StartsFrom(Before(r, offset), r.offset) /\ EndsBy(Before(r, offset), offset)
           /\ Covered(Before(r, offset)) = r.offset .. offset - 1
<1>1. r.offset \in Nat
    BY EntryFields
<1> DEFINE n == offset - r.offset
           b == DataAlloc(r.offset, n, 0, 0, FALSE, FALSE)
<1>2. CASE offset > r.offset
    <2>1. n \in Nat \ {0} /\ r.offset + n = offset
        BY <1>1, <1>2
    <2>2. Before(r, offset) = <<b>>
        BY <1>2 DEF Before
    <2> HIDE DEF n
    <2>3. b \in Entries /\ b.offset = r.offset /\ b.length = n
        BY <1>1, <2>1 DEF DataAlloc, Entries
    <2> HIDE DEF b
    <2>4. <<b>> \in Seq(Entries) /\ InOrder(<<b>>) /\ Members(<<b>>) = {b}
        BY <2>3, OneInOrder
    <2>5. StartsFrom(<<b>>, r.offset) /\ EndsBy(<<b>>, offset)
        BY <1>1, <2>1, <2>3, <2>4 DEF StartsFrom, EndsBy
    <2>6. Covered(<<b>>) = r.offset .. offset - 1
        <3>1. Covered(<<b>>) = Extent(b.offset, b.length)
            BY <2>4 DEF Covered
        <3>2. b.offset + b.length - 1 = offset - 1
            BY <1>1, <2>1, <2>3
        <3> QED BY <2>3, <3>1, <3>2 DEF Extent
    <2> QED BY <2>2, <2>4, <2>5, <2>6
<1>3. CASE ~ (offset > r.offset)
    <2>1. Before(r, offset) = <<>>
        BY <1>3 DEF Before
    <2>2. <<>> \in Seq(Entries) /\ InOrder(<<>>) /\ Members(<<>>) = {}
        BY OneInOrder
    <2>3. StartsFrom(<<>>, r.offset) /\ EndsBy(<<>>, offset) /\ Covered(<<>>) = {}
        BY <2>2 DEF StartsFrom, EndsBy, Covered
    <2>4. r.offset .. offset - 1 = {}
        BY <1>1, <1>3
    <2> QED BY <2>1, <2>2, <2>3, <2>4
<1> QED BY <1>2, <1>3

LEMMA EntriesAfter ==
    ASSUME NEW r \in Entries, NEW end \in Nat, end <= r.offset + r.length
    PROVE  /\ After(r, end) \in Seq(Entries) /\ InOrder(After(r, end))
           /\ StartsFrom(After(r, end), end) /\ EndsBy(After(r, end), r.offset + r.length)
           /\ Covered(After(r, end)) = end .. r.offset + r.length - 1
<1>1. r.offset \in Nat /\ r.length \in Nat /\ r.length > 0
    BY EntryFields
<1> DEFINE n == r.offset + r.length - end
           a == [r EXCEPT !.offset = end, !.length = n]
<1>2. CASE end < r.offset + r.length
    <2>1. n \in Nat \ {0} /\ end + n = r.offset + r.length
        BY <1>1, <1>2
    <2>2. After(r, end) = <<a>>
        BY <1>2 DEF After
    <2> HIDE DEF n
    <2>3. a \in Entries /\ a.offset = end /\ a.length = n
        BY <2>1 DEF Entries
    <2> HIDE DEF a
    <2>4. <<a>> \in Seq(Entries) /\ InOrder(<<a>>) /\ Members(<<a>>) = {a}
        BY <2>3, OneInOrder
    <2>5. StartsFrom(<<a>>, end) /\ EndsBy(<<a>>, r.offset + r.length)
        BY <1>1, <2>1, <2>3, <2>4 DEF StartsFrom, EndsBy
    <2>6. Covered(<<a>>) = end .. r.offset + r.length - 1
        <3>1. Covered(<<a>>) = Extent(a.offset, a.length)
            BY <2>4 DEF Covered
        <3>2. a.offset + a.length - 1 = r.offset + r.length - 1
            BY <1>1, <2>1, <2>3
        <3> QED BY <2>3, <3>1, <3>2 DEF Extent
    <2> QED BY <2>2, <2>4, <2>5, <2>6
<1>3. CASE ~ (end < r.offset + r.length)
    <2>1. After(r, end) = <<>>
        BY <1>3 DEF After
    <2>2. <<>> \in Seq(Entries) /\ InOrder(<<>>) /\ Members(<<>>) = {}
        BY OneInOrder
    <2>3. StartsFrom(<<>>, end) /\ EndsBy(<<>>, r.offset + r.length) /\ Covered(<<>>) = {}
        BY <2>2 DEF StartsFrom, EndsBy, Covered
    <2>4. end .. r.offset + r.length - 1 = {}
        BY <1>1, <1>3
    <2> QED BY <2>1, <2>2, <2>3, <2>4
<1> QED BY <1>2, <1>3

LEMMA JoinedBetween ==
    ASSUME NEW s \in Seq(Entries), NEW t \in Seq(Entries), InOrder(s), InOrder(t),
           NEW k \in Int, NEW l \in Int, k <= l,
           EndsBy(s, k), StartsFrom(t, k), EndsBy(t, l)
    PROVE  /\ s \o t \in Seq(Entries) /\ InOrder(s \o t) /\ EndsBy(s \o t, l)
           /\ Members(s \o t) = Members(s) \cup Members(t)
<1>1. Members(s \o t) = Members(s) \cup Members(t) /\ s \o t \in Seq(Entries)
    BY JoinedMembers
<1>2. InOrder(s \o t)
    BY JoinedInOrder
<1>3. \A r \in Members(s) : r.offset \in Nat /\ r.length \in Nat
    BY MemberEntries, EntryFields
<1>4. \A r \in Members(s) : r.offset + r.length <= l
    BY <1>3 DEF EndsBy
<1>5. EndsBy(s \o t, l)
    BY <1>1, <1>4 DEF EndsBy
<1> QED BY <1>1, <1>2, <1>5

LEMMA ThreeIntervals ==
    ASSUME NEW a \in Int, NEW b \in Int, NEW c \in Int, NEW d \in Int, a <= b, b <= c, c <= d
    PROVE  a .. d - 1 = (a .. b - 1) \cup (b .. c - 1) \cup (c .. d - 1)
OBVIOUS

\* The list in which entry i is divided around the clusters.
Divided(list, i, offset, length, inode, file_offset) ==
    SubSeq(list, 1, i - 1)
      \o Before(list[i], offset)
      \o <<Piece(list[i], offset, length, inode, file_offset)>>
      \o After(list[i], offset + length)
      \o SubSeq(list, i + 1, Len(list))

LEMMA DividedInOrder ==
    ASSUME NEW list \in Seq(Entries), InOrder(list), NEW i \in DOMAIN list,
           NEW offset \in Nat, NEW length \in Nat \ {0}, NEW inode \in Int, NEW file_offset \in Nat,
           list[i].offset <= offset, offset + length <= list[i].offset + list[i].length
    PROVE  LET q == Divided(list, i, offset, length, inode, file_offset)
               r == list[i]
           IN  /\ q \in Seq(Entries) /\ InOrder(q)
               /\ Covered(q) = Covered(list)
               /\ Piece(r, offset, length, inode, file_offset) \in Members(q)
               /\ \A x \in Members(q) :
                     \/ x \in Members(list)
                     \/ x \in Members(Before(r, offset))
                     \/ x \in Members(After(r, offset + length))
                     \/ x = Piece(r, offset, length, inode, file_offset)
               /\ \A x \in Members(list) : x = r \/ x \in Members(q)
<1> DEFINE r == list[i]
           p == Piece(r, offset, length, inode, file_offset)
           A == SubSeq(list, 1, i - 1)
           B == Before(r, offset)
           C == After(r, offset + length)
           E == SubSeq(list, i + 1, Len(list))
           q == Divided(list, i, offset, length, inode, file_offset)
<1>1. /\ r \in Entries /\ r.offset \in Nat /\ r.length \in Nat /\ r.length > 0
      /\ r.offset <= offset /\ offset + length <= r.offset + r.length
      /\ offset + length \in Nat /\ offset <= offset + length
    BY EntryFields
<1>2. /\ A \in Seq(Entries) /\ InOrder(A) /\ E \in Seq(Entries) /\ InOrder(E)
    <2>1. /\ 1 \in Nat \ {0} /\ i + 1 \in Nat \ {0} /\ i - 1 \in Nat /\ i - 1 <= Len(list)
          /\ Len(list) \in Nat /\ Len(list) <= Len(list)
        OBVIOUS
    <2> QED BY <2>1, PartInOrder, Zenon
<1>3. /\ EndsBy(A, r.offset) /\ StartsFrom(E, r.offset + r.length)
      /\ Members(list) = Members(A) \cup {r} \cup Members(E)
    BY AroundEntry
<1>4. /\ B \in Seq(Entries) /\ InOrder(B) /\ StartsFrom(B, r.offset) /\ EndsBy(B, offset)
      /\ Covered(B) = r.offset .. offset - 1
    BY <1>1, EntriesBefore
<1>5. /\ C \in Seq(Entries) /\ InOrder(C) /\ StartsFrom(C, offset + length)
      /\ EndsBy(C, r.offset + r.length)
      /\ Covered(C) = offset + length .. r.offset + r.length - 1
    BY <1>1, EntriesAfter
<1>6. p \in Entries /\ p.offset = offset /\ p.length = length
    <2>1. r.relocated \in BOOLEAN /\ FALSE \in BOOLEAN
        BY <1>1 DEF Entries
    <2> QED BY <2>1 DEF Piece, DataAlloc, Entries
<1>7. q = A \o B \o <<p>> \o C \o E
    BY DEF Divided
<1> HIDE DEF r, p, A, B, C, E, q
<1>8. <<p>> \in Seq(Entries) /\ InOrder(<<p>>) /\ Members(<<p>>) = {p}
    BY <1>6, OneInOrder
<1>9. StartsFrom(<<p>>, offset) /\ EndsBy(<<p>>, offset + length)
    BY <1>1, <1>6, <1>8 DEF StartsFrom, EndsBy
<1> DEFINE AB == A \o B
           ABp == AB \o <<p>>
           ABpC == ABp \o C
<1>10. /\ AB \in Seq(Entries) /\ InOrder(AB) /\ EndsBy(AB, offset)
       /\ Members(AB) = Members(A) \cup Members(B)
    <2>1. r.offset \in Int /\ offset \in Int /\ r.offset <= offset
        BY <1>1
    <2> QED BY <1>2, <1>3, <1>4, <2>1, JoinedBetween
<1>11. /\ ABp \in Seq(Entries) /\ InOrder(ABp) /\ EndsBy(ABp, offset + length)
       /\ Members(ABp) = Members(AB) \cup {p}
    <2>1. offset \in Int /\ offset + length \in Int /\ offset <= offset + length
        BY <1>1
    <2> HIDE DEF AB
    <2>2. /\ ABp \in Seq(Entries) /\ InOrder(ABp) /\ EndsBy(ABp, offset + length)
          /\ Members(ABp) = Members(AB) \cup Members(<<p>>)
        BY <1>8, <1>9, <1>10, <2>1, JoinedBetween, Zenon
    <2> QED BY <1>8, <2>2
<1>12. /\ ABpC \in Seq(Entries) /\ InOrder(ABpC) /\ EndsBy(ABpC, r.offset + r.length)
       /\ Members(ABpC) = Members(ABp) \cup Members(C)
    <2>1. /\ offset + length \in Int /\ r.offset + r.length \in Int
          /\ offset + length <= r.offset + r.length
        BY <1>1
    <2> HIDE DEF ABp
    <2> QED BY <1>5, <1>11, <2>1, JoinedBetween, Zenon
<1>13. /\ q \in Seq(Entries) /\ InOrder(q)
       /\ Members(q) = Members(ABpC) \cup Members(E)
    <2>1. r.offset + r.length \in Int /\ q = ABpC \o E
        BY <1>1, <1>7
    <2> HIDE DEF ABpC
    <2> QED BY <1>2, <1>3, <1>12, <2>1, JoinedInOrder, JoinedMembers, Zenon
<1>14. Members(q) = Members(A) \cup Members(B) \cup {p} \cup Members(C) \cup Members(E)
    <2> HIDE DEF AB, ABp, ABpC
    <2> QED BY <1>10, <1>11, <1>12, <1>13
<1>15. Covered(q) = Covered(list)
    <2>1. Covered(list) = Covered(A) \cup Extent(r.offset, r.length) \cup Covered(E)
        BY <1>3 DEF Covered
    <2>2. Covered(q) = Covered(A) \cup Covered(B) \cup Extent(p.offset, p.length)
                         \cup Covered(C) \cup Covered(E)
        BY <1>14 DEF Covered
    <2>3. Extent(r.offset, r.length) = Covered(B) \cup Extent(p.offset, p.length) \cup Covered(C)
        <3>1. Extent(p.offset, p.length) = offset .. offset + length - 1
            BY <1>6 DEF Extent
        <3> DEFINE a == r.offset
                   c == offset + length
                   d == r.offset + r.length
        <3>2. /\ a \in Int /\ offset \in Int /\ c \in Int /\ d \in Int
              /\ a <= offset /\ offset <= c /\ c <= d
            BY <1>1
        <3>3. /\ Extent(r.offset, r.length) = a .. d - 1 /\ Covered(B) = a .. offset - 1
              /\ Extent(p.offset, p.length) = offset .. c - 1 /\ Covered(C) = c .. d - 1
            BY <1>1, <1>4, <1>5, <3>1 DEF Extent
        <3> HIDE DEF a, c, d
        <3>4. a .. d - 1 = (a .. offset - 1) \cup (offset .. c - 1) \cup (c .. d - 1)
            BY <3>2, ThreeIntervals
        <3> QED BY <3>3, <3>4
    <2> QED BY <2>1, <2>2, <2>3
<1>16. \A x \in Members(q) :
           \/ x \in Members(list) \/ x \in Members(B) \/ x \in Members(C) \/ x = p
    BY <1>3, <1>14
<1>17. p \in Members(q)
    BY <1>14
<1>18. \A x \in Members(list) : x = r \/ x \in Members(q)
    BY <1>3, <1>14
<1> QED BY <1>13, <1>15, <1>16, <1>17, <1>18 DEF q, r, p, B, C

\* The two ways split_runs leaves a list: as it was, or with the entry it met divided.
CutMade(list, offset, length, inode, file_offset) ==
    \/ /\ Met(list, offset, length) = {}
       /\ Cut(list, offset, length, inode, file_offset) = list
    \/ \E i \in Met(list, offset, length) :
          /\ i \in DOMAIN list
          /\ list[i].offset <= offset
          /\ offset + length <= list[i].offset + list[i].length
          /\ Cut(list, offset, length, inode, file_offset)
               = Divided(list, i, offset, length, inode, file_offset)

\* split_runs leaves the list as it is, or divides the entry that holds the clusters.
LEMMA CutCases ==
    ASSUME NEW list \in Seq(Entries), NEW offset \in Nat, NEW length \in Nat \ {0},
           NEW inode \in Int, NEW file_offset \in Nat, ~ Torn(list, offset, length)
    PROVE  CutMade(list, offset, length, inode, file_offset)
<1> USE DEF CutMade
<1>1. CASE Met(list, offset, length) = {}
    BY <1>1 DEF Cut
<1>2. CASE Met(list, offset, length) # {}
    <2> DEFINE i == CHOOSE i \in Met(list, offset, length) : TRUE
    <2>1. i \in Met(list, offset, length)
        BY <1>2
    <2>2. Cut(list, offset, length, inode, file_offset)
            = Divided(list, i, offset, length, inode, file_offset)
        BY <1>2 DEF Cut, Divided
    <2> HIDE DEF i
    <2>3. i \in DOMAIN list
        BY <2>1 DEF Met
    <2>4. list[i].offset \in Nat /\ list[i].length \in Nat
        BY <2>3, EntryFields
    <2>5. ~ (offset < list[i].offset) /\ ~ (offset + length > list[i].offset + list[i].length)
        BY <2>1 DEF Torn
    <2> QED BY <2>1, <2>2, <2>3, <2>4, <2>5
<1> QED BY <1>1, <1>2

LEMMA CutInOrder ==
    ASSUME NEW list \in Seq(Entries), InOrder(list),
           NEW offset \in Nat, NEW length \in Nat \ {0}, NEW inode \in Int, NEW file_offset \in Nat,
           ~ Torn(list, offset, length)
    PROVE  /\ Cut(list, offset, length, inode, file_offset) \in Seq(Entries)
           /\ InOrder(Cut(list, offset, length, inode, file_offset))
           /\ Covered(Cut(list, offset, length, inode, file_offset)) = Covered(list)
BY CutCases, DividedInOrder DEF CutMade

\* A single cluster tears no entry.
LEMMA OneClusterWhole ==
    ASSUME NEW list \in Seq(Entries), NEW k \in Nat
    PROVE  ~ Torn(list, k, 1)
<1> SUFFICES ASSUME NEW i \in Met(list, k, 1)
             PROVE  ~ (k < list[i].offset) /\ ~ (k + 1 > list[i].offset + list[i].length)
    BY DEF Torn
<1>1. i \in DOMAIN list /\ Overlaps(list[i], k, 1)
    BY DEF Met
<1>2. list[i].offset \in Nat /\ list[i].length \in Nat
    BY <1>1, EntryFields
<1> QED BY <1>1, <1>2 DEF Overlaps

\* No cluster has two entries.
LEMMA OneEntry ==
    ASSUME NEW list \in Seq(Entries), InOrder(list), NEW x \in Members(list), NEW y \in Members(list),
           NEW k \in Extent(x.offset, x.length), k \in Extent(y.offset, y.length)
    PROVE  x = y
<1>1. PICK i \in DOMAIN list, j \in DOMAIN list : x = list[i] /\ y = list[j]
    BY DEF Members
<1>2. i \in Int /\ j \in Int
    OBVIOUS
<1>3. x.offset \in Nat /\ x.length \in Nat /\ y.offset \in Nat /\ y.length \in Nat
    BY <1>1, EntryFields
<1>4. ~ (i < j) /\ ~ (j < i)
    <2>1. i < j => x.offset + x.length <= y.offset
        BY <1>1 DEF InOrder
    <2>2. j < i => y.offset + y.length <= x.offset
        BY <1>1 DEF InOrder
    <2>3. k \in Int /\ x.offset <= k /\ k < x.offset + x.length
        BY <1>3 DEF Extent
    <2>4. y.offset <= k /\ k < y.offset + y.length
        BY <1>3 DEF Extent
    <2> QED BY <1>3, <2>1, <2>2, <2>3, <2>4
<1> QED BY <1>1, <1>2, <1>4

\* The search from a cluster that has an entry on finds one.
LEMMA MetFrom ==
    ASSUME NEW list \in Seq(Entries), InOrder(list), NEW k \in Nat, NEW n \in Nat \ {0},
           k \in Covered(list)
    PROVE  Met(list, k, n) # {}
<1>1. PICK i \in DOMAIN list : k \in Extent(list[i].offset, list[i].length)
    BY DEF Covered, Members
<1>2. \A j \in DOMAIN list : list[j].offset \in Nat /\ list[j].length \in Nat
    BY EntryFields
<1>3. list[i].offset <= k /\ k < list[i].offset + list[i].length
    BY <1>1, <1>2 DEF Extent
<1>4. \A j \in 1 .. i : j \in DOMAIN list /\ (j = i \/ j < i)
    OBVIOUS
<1>5. \A j \in 1 .. i : j < i => list[j].offset + list[j].length <= list[i].offset
    BY <1>4 DEF InOrder
<1>6. Overlaps(list[i], k, n)
    BY <1>2, <1>3 DEF Overlaps
<1>7. ASSUME NEW j \in 1 .. i - 1 PROVE ~ Overlaps(list[j], k, n)
    <2>1. j \in 1 .. i /\ j < i
        OBVIOUS
    <2>2. list[j].offset + list[j].length <= list[i].offset /\ j \in DOMAIN list
        BY <1>4, <1>5, <2>1
    <2> QED BY <1>2, <1>3, <2>2 DEF Overlaps
<1>8. ASSUME NEW j \in 1 .. i PROVE list[j].offset <= k + n
    <2>1. list[j].offset \in Nat /\ list[j].length \in Nat /\ list[i].offset \in Nat
        BY <1>2, <1>4
    <2>2. list[j].offset <= list[i].offset
        BY <1>4, <1>5, <2>1
    <2> QED BY <1>3, <2>1, <2>2
<1>9. i \in Met(list, k, n)
    BY <1>6, <1>7, <1>8 DEF Met
<1> QED BY <1>9

\* The search finds the entry of a cluster that has one.
LEMMA MetCovered ==
    ASSUME NEW list \in Seq(Entries), InOrder(list), NEW k \in Nat
    PROVE  Met(list, k, 1) # {} <=> k \in Covered(list)
<1>1. ASSUME k \in Covered(list) PROVE Met(list, k, 1) # {}
    BY <1>1, MetFrom
<1>2. ASSUME NEW i \in Met(list, k, 1) PROVE k \in Covered(list)
    <2>1. i \in DOMAIN list /\ Overlaps(list[i], k, 1)
        BY DEF Met
    <2>2. list[i].offset \in Nat /\ list[i].length \in Nat
        BY <2>1, EntryFields
    <2>3. k \in Extent(list[i].offset, list[i].length)
        BY <2>1, <2>2 DEF Overlaps, Extent
    <2> QED BY <2>1, <2>3 DEF Covered, Members
<1> QED BY <1>1, <1>2

\* The parts of an entry r that the clusters are cut out of: what is before them, the
\* piece, and what is after them.
PartBefore(x, r, offset) ==
    /\ r.offset < offset /\ x.offset = r.offset /\ x.length = offset - r.offset
    /\ x.inode = 0 /\ ~ x.relocated /\ ~ x.not_in_img

PartCut(x, r, offset, length, inode) ==
    /\ x.offset = offset /\ x.length = length
    /\ x.inode = inode /\ x.relocated = r.relocated /\ ~ x.not_in_img

PartAfter(x, r, end) ==
    /\ end < r.offset + r.length /\ x.offset = end /\ x.length = r.offset + r.length - end
    /\ x.inode = r.inode /\ x.relocated = r.relocated /\ x.not_in_img = r.not_in_img

\* What split_runs leaves: the piece, and entries that were there or are parts of the
\* one it divides; only that one is gone.
LEMMA CutParts ==
    ASSUME NEW list \in Seq(Entries), InOrder(list),
           NEW offset \in Nat, NEW length \in Nat \ {0}, NEW inode \in Int, NEW file_offset \in Nat,
           ~ Torn(list, offset, length), Met(list, offset, length) # {}
    PROVE  LET cut == Cut(list, offset, length, inode, file_offset)
           IN  \E r \in Members(list) :
                  LET p == Piece(r, offset, length, inode, file_offset)
                  IN  /\ r.offset <= offset /\ offset + length <= r.offset + r.length
                      /\ p \in Members(cut) /\ PartCut(p, r, offset, length, inode)
                      /\ \A x \in Members(cut) :
                            \/ x \in Members(list)
                            \/ PartBefore(x, r, offset)
                            \/ x = p
                            \/ PartAfter(x, r, offset + length)
                      /\ \A x \in Members(list) : x = r \/ x \in Members(cut)
<1> DEFINE q == Cut(list, offset, length, inode, file_offset)
<1>1. PICK i \in DOMAIN list :
          /\ list[i].offset <= offset
          /\ offset + length <= list[i].offset + list[i].length
          /\ q = Divided(list, i, offset, length, inode, file_offset)
    <2>1. CutMade(list, offset, length, inode, file_offset)
        BY CutCases, Zenon
    <2> QED BY <2>1 DEF CutMade
<1> DEFINE r == list[i]
           p == Piece(r, offset, length, inode, file_offset)
<1>2. /\ p \in Members(q)
      /\ \A x \in Members(q) : \/ x \in Members(list)
                               \/ x \in Members(Before(r, offset))
                               \/ x \in Members(After(r, offset + length))
                               \/ x = p
      /\ \A x \in Members(list) : x = r \/ x \in Members(q)
    BY <1>1, DividedInOrder
<1>3. r \in Entries /\ r \in Members(list) /\ PartCut(p, r, offset, length, inode)
    <2>1. r \in Entries /\ r \in Members(list)
        BY <1>1 DEF Members
    <2>2. PartCut(p, r, offset, length, inode)
        BY DEF PartCut, Piece, DataAlloc
    <2> QED BY <2>1, <2>2
<1> HIDE DEF r
<1>4. ASSUME NEW x \in Members(Before(r, offset)) PROVE PartBefore(x, r, offset)
    <2>1. CASE r.offset < offset
        <3> DEFINE b == DataAlloc(r.offset, offset - r.offset, 0, 0, FALSE, FALSE)
        <3>1. Before(r, offset) = <<b>>
            BY <1>3, <2>1, EntryFields DEF Before
        <3>2. PartBefore(b, r, offset)
            BY <2>1 DEF PartBefore, DataAlloc
        <3> HIDE DEF b
        <3>3. Members(<<b>>) = {b}
            BY DEF Members
        <3> QED BY <3>1, <3>2, <3>3
    <2>2. CASE ~ (r.offset < offset)
        <3>1. Before(r, offset) = <<>>
            BY <1>3, <2>2, EntryFields DEF Before
        <3> QED BY <3>1 DEF Members
    <2> QED BY <2>1, <2>2
<1>5. ASSUME NEW x \in Members(After(r, offset + length)) PROVE PartAfter(x, r, offset + length)
    <2> DEFINE end == offset + length
    <2>1. CASE end < r.offset + r.length
        <3> DEFINE a == [r EXCEPT !.offset = end, !.length = r.offset + r.length - end]
        <3>1. After(r, end) = <<a>>
            BY <2>1 DEF After
        <3>2. PartAfter(a, r, end)
            BY <1>3, <2>1 DEF PartAfter, Entries
        <3> HIDE DEF a
        <3>3. Members(<<a>>) = {a}
            BY DEF Members
        <3> QED BY <3>1, <3>2, <3>3
    <2>2. CASE ~ (end < r.offset + r.length)
        <3>1. After(r, end) = <<>>
            BY <2>2 DEF After
        <3> QED BY <3>1 DEF Members
    <2> QED BY <2>1, <2>2
<1>6. r.offset <= offset /\ offset + length <= r.offset + r.length
    BY <1>1 DEF r
<1> HIDE DEF p, q
<1>7. \A x \in Members(q) : \/ x \in Members(list)
                            \/ PartBefore(x, r, offset)
                            \/ x = p
                            \/ PartAfter(x, r, offset + length)
    BY <1>2, <1>4, <1>5
<1> QED BY <1>2, <1>3, <1>6, <1>7 DEF q, p

LEMMA CutMembers ==
    ASSUME NEW list \in Seq(Entries), InOrder(list),
           NEW offset \in Nat, NEW length \in Nat \ {0}, NEW inode \in Int, NEW file_offset \in Nat,
           ~ Torn(list, offset, length), Met(list, offset, length) # {}
    PROVE  LET cut == Cut(list, offset, length, inode, file_offset)
           IN  \E r \in Members(list) :
                  /\ r.offset <= offset /\ offset + length <= r.offset + r.length
                  /\ \E x \in Members(cut) : PartCut(x, r, offset, length, inode)
                  /\ \A x \in Members(cut) :
                        \/ x \in Members(list)
                        \/ PartBefore(x, r, offset)
                        \/ PartCut(x, r, offset, length, inode)
                        \/ PartAfter(x, r, offset + length)
BY CutParts

-----------------------------------------------------------------------------
(* Insertion in order. *)

LEMMA InsertInOrder ==
    ASSUME NEW list \in Seq(Entries), InOrder(list), NEW r \in Entries,
           Covered(list) \cap Extent(r.offset, r.length) = {}
    PROVE  /\ Insert(list, r) \in Seq(Entries) /\ InOrder(Insert(list, r))
           /\ Members(Insert(list, r)) = Members(list) \cup {r}
<1>1. r.offset \in Nat /\ r.length \in Nat /\ r.length > 0
    BY EntryFields
<1> DEFINE end == r.offset + r.length
           Later == {i \in DOMAIN list : list[i].offset >= end}
           at == CHOOSE i \in Later : \A j \in Later : i <= j
           A == SubSeq(list, 1, at - 1)
           C == SubSeq(list, at, Len(list))
<1>2. DOMAIN list = 1 .. Len(list) /\ Len(list) \in Nat /\ end \in Int /\ end > r.offset
    BY <1>1
\* An entry that does not start after r ends before it.
<1>3. ASSUME NEW i \in DOMAIN list, i \notin Later
      PROVE  list[i].offset + list[i].length <= r.offset
    <2>1. list[i].offset \in Nat /\ list[i].length \in Nat /\ list[i].length > 0
        BY EntryFields
    <2>2. Extent(list[i].offset, list[i].length) \cap Extent(r.offset, r.length) = {}
        BY DEF Covered, Members
    <2>3. list[i].offset < end
        BY <1>2, <1>3, <2>1
    <2>4. CASE list[i].offset >= r.offset
        <3>1. list[i].offset \in Extent(list[i].offset, list[i].length)
            BY <2>1 DEF Extent
        <3>2. list[i].offset <= r.offset + r.length - 1
            BY <1>1, <2>1, <2>3
        <3>3. list[i].offset \in Extent(r.offset, r.length)
            BY <1>1, <2>1, <2>4, <3>2 DEF Extent
        <3> QED BY <2>2, <3>1, <3>3
    <2>5. CASE list[i].offset < r.offset /\ list[i].offset + list[i].length > r.offset
        <3>1. r.offset \in Extent(list[i].offset, list[i].length)
            BY <1>1, <2>1, <2>5 DEF Extent
        <3>2. r.offset \in Extent(r.offset, r.length)
            BY <1>1 DEF Extent
        <3> QED BY <2>2, <3>1, <3>2
    <2> QED BY <1>1, <2>1, <2>4, <2>5
<1>4. <<r>> \in Seq(Entries) /\ InOrder(<<r>>) /\ Members(<<r>>) = {r}
    BY OneInOrder
<1>5. StartsFrom(<<r>>, r.offset) /\ EndsBy(<<r>>, end)
    <2>1. r.offset >= r.offset /\ end <= end
        BY <1>1
    <2> QED BY <1>4, <2>1 DEF StartsFrom, EndsBy
<1>6. CASE Later = {}
    <2>1. EndsBy(list, r.offset)
        BY <1>3, <1>6 DEF EndsBy, Members
    <2>2. Insert(list, r) = list \o <<r>>
        <3>1. Insert(list, r) = Append(list, r)
            BY <1>6, Zenon DEF Insert
        <3> QED BY <3>1
    <2>3. r.offset \in Int
        BY <1>1
    <2> QED BY <1>4, <1>5, <2>1, <2>2, <2>3, JoinedInOrder, JoinedMembers
<1>7. CASE Later # {}
    <2>1. at \in Later /\ \A j \in Later : at <= j
        <3>1. Later \in SUBSET Nat
            BY <1>2
        <3>2. \E i \in Later : \A j \in Later : i <= j
            BY <1>7, <3>1, LeastNatural
        <3> QED BY <3>2, Zenon
    <2>2. Insert(list, r) = A \o <<r>> \o C
        BY <1>7, Zenon DEF Insert
    <2> HIDE DEF at
    <2>3. at \in 1 .. Len(list) /\ at \in DOMAIN list /\ list[at].offset >= end
        BY <1>2, <2>1
    <2>4. /\ A \in Seq(Entries) /\ InOrder(A) /\ Members(A) = {list[k] : k \in 1 .. at - 1}
        <3>1. 1 \in Nat \ {0} /\ at - 1 \in Nat /\ at - 1 <= Len(list)
            BY <1>2, <2>3
        <3> QED BY <3>1, PartInOrder, Zenon
    <2>5. /\ C \in Seq(Entries) /\ InOrder(C) /\ Members(C) = {list[k] : k \in at .. Len(list)}
        <3>1. at \in Nat \ {0} /\ Len(list) \in Nat /\ Len(list) <= Len(list)
            BY <1>2, <2>3
        <3> QED BY <3>1, PartInOrder, Zenon
    <2>6. EndsBy(A, r.offset)
        <3>1. \A k \in 1 .. at - 1 : k \in DOMAIN list /\ k \notin Later
            <4>1. \A k \in 1 .. at - 1 : k \in DOMAIN list /\ ~ (at <= k)
                BY <1>2, <2>3
            <4> HIDE DEF Later
            <4> QED BY <2>1, <4>1
        <3>2. \A k \in 1 .. at - 1 : list[k].offset + list[k].length <= r.offset
            BY <1>3, <3>1
        <3> QED BY <2>4, <3>2 DEF EndsBy
    <2>7. StartsFrom(C, end)
        <3>1. ASSUME NEW k \in at .. Len(list) PROVE list[k].offset >= end
            <4>1. k \in DOMAIN list /\ (k = at \/ at < k)
                BY <1>2, <2>3
            <4>2. /\ list[k].offset \in Nat /\ list[at].offset \in Nat
                  /\ list[at].length \in Nat
                BY <2>3, <4>1, EntryFields
            <4>3. at < k => list[at].offset + list[at].length <= list[k].offset
                BY <2>3, <4>1 DEF InOrder
            <4> HIDE DEF end
            <4> QED BY <1>2, <2>3, <4>1, <4>2, <4>3
        <3> QED BY <2>5, <3>1 DEF StartsFrom
    <2>8. Members(A) \cup Members(C) = Members(list)
        <3>1. \A k \in DOMAIN list : k \in 1 .. at - 1 \/ k \in at .. Len(list)
            BY <1>2, <2>3
        <3>2. 1 .. at - 1 \subseteq DOMAIN list /\ at .. Len(list) \subseteq DOMAIN list
            BY <1>2, <2>3
        <3> QED BY <2>4, <2>5, <3>1, <3>2 DEF Members
    <2> HIDE DEF A, C
    <2> DEFINE Ar == A \o <<r>>
    <2>9. /\ Ar \in Seq(Entries) /\ InOrder(Ar) /\ EndsBy(Ar, end)
          /\ Members(Ar) = Members(A) \cup Members(<<r>>)
        <3>1. r.offset \in Int /\ r.offset <= end
            BY <1>1, <1>2
        <3> HIDE DEF end
        <3> QED BY <1>2, <1>4, <1>5, <2>4, <2>6, <3>1, JoinedBetween, Zenon
    <2> HIDE DEF Ar
    <2>10. Insert(list, r) = Ar \o C
        BY <2>2 DEF Ar
    <2>11. end \in Int
        BY <1>2
    <2> HIDE DEF end, Later
    <2>12. Ar \o C \in Seq(Entries) /\ InOrder(Ar \o C) /\ Members(Ar \o C) = Members(Ar) \cup Members(C)
        BY <2>5, <2>7, <2>9, <2>11, JoinedInOrder, JoinedMembers
    <2>13. Members(Ar \o C) = Members(list) \cup {r}
        BY <1>4, <2>8, <2>9, <2>12
    <2> QED BY <2>10, <2>12, <2>13
<1> QED BY <1>6, <1>7

-----------------------------------------------------------------------------
(* The entries that parse_data_bitmap starts with. *)

LEMMA AscendingStrictly ==
    ASSUME NEW S \in SUBSET Nat, IsFiniteSet(S),
           NEW i \in DOMAIN Ascending(S), NEW j \in DOMAIN Ascending(S), i < j
    PROVE  Ascending(S)[i] < Ascending(S)[j]
<1>1. Cardinality(S) \in Nat
    BY FS_CardinalityType
<1> DEFINE At(k) == CHOOSE x \in S : Rank(S, x) = k - 1
<1>2. Ascending(S) = [k \in 1 .. Cardinality(S) |-> At(k)]
    BY Zenon DEF Ascending, Rank, Below
<1>3. \A k \in 1 .. Cardinality(S) : At(k) \in S /\ Rank(S, At(k)) = k - 1
    BY RankTaken
<1> HIDE DEF At
<1>4. i \in 1 .. Cardinality(S) /\ j \in 1 .. Cardinality(S)
    BY <1>2
<1>5. Ascending(S)[i] = At(i) /\ Ascending(S)[j] = At(j)
    BY <1>2, <1>4
<1>6. /\ At(i) \in S /\ At(j) \in S /\ Rank(S, At(i)) < Rank(S, At(j))
      /\ Rank(S, At(i)) \in Nat /\ Rank(S, At(j)) \in Nat
    BY <1>1, <1>3, <1>4
<1>7. ~ (At(j) < At(i)) /\ At(i) # At(j)
    <2>1. At(j) < At(i) => Rank(S, At(j)) < Rank(S, At(i))
        BY <1>6, RankGrows
    <2> QED BY <1>6, <2>1
<1>8. At(i) \in Nat /\ At(j) \in Nat
    BY <1>6
<1>9. At(i) < At(j)
    BY <1>7, <1>8
<1> QED BY <1>5, <1>9

\* A run has an end.
LEMMA RunEnds ==
    ASSUME NEW S \in SUBSET Nat, IsFiniteSet(S), NEW k \in S
    PROVE  \E n \in 1 .. Cardinality(S) : k .. k + n - 1 \subseteq S /\ k + n \notin S
<1> DEFINE T == {n \in Nat : k + n \notin S}
           c == Cardinality(S)
<1>1. c \in Nat
    BY FS_CardinalityType
<1>2. \E n \in 0 .. c : n \in T
    <2> SUFFICES ASSUME \A n \in 0 .. c : k + n \in S PROVE FALSE
        BY <1>1
    <2>1. k .. k + c \subseteq S
        <3>1. \A u \in k .. k + c : u - k \in 0 .. c /\ k + (u - k) = u
            BY <1>1
        <3> QED BY <3>1
    <2>2. IsFiniteSet(k .. k + c) /\ Cardinality(k .. k + c) = c + 1
        <3>1. k \in Int /\ k + c \in Int /\ k <= k + c /\ (k + c) - k + 1 = c + 1
            BY <1>1
        <3> HIDE DEF c
        <3> QED BY <3>1, FS_Interval
    <2>3. Cardinality(k .. k + c) <= c
        BY <2>1, FS_Subset
    <2> QED BY <1>1, <2>2, <2>3
<1>3. PICK n \in T : \A m \in T : n <= m
    <2>1. T # {} /\ T \in SUBSET Nat
        BY <1>2
    <2> HIDE DEF T
    <2> QED BY <2>1, LeastNatural
<1>4. n \in 1 .. c /\ k + n \notin S
    BY <1>1, <1>2, <1>3
<1>5. k .. k + n - 1 \subseteq S
    <2>1. \A u \in k .. k + n - 1 : u - k \in Nat /\ u - k < n /\ k + (u - k) = u
        BY <1>4
    <2>2. \A u \in k .. k + n - 1 : u - k \notin T
        BY <1>3, <1>4, <2>1
    <2> QED BY <2>1, <2>2
<1> QED BY <1>4, <1>5

LEMMA RunListInOrder ==
    ASSUME NEW S \in SUBSET Nat, IsFiniteSet(S)
    PROVE  /\ RunList(S) \in Seq(Entries) /\ InOrder(RunList(S))
           /\ Covered(RunList(S)) = S
           /\ \A r \in Members(RunList(S)) : r.inode = 0 /\ ~ r.relocated /\ ~ r.not_in_img
<1> DEFINE Starts == {k \in S : k - 1 \notin S}
           starts == Ascending(Starts)
           Length(k) == CHOOSE n \in 1 .. Cardinality(S) : k .. k + n - 1 \subseteq S /\ k + n \notin S
           q == RunList(S)
<1>1. Cardinality(S) \in Nat /\ Starts \in SUBSET Nat /\ IsFiniteSet(Starts)
    BY FS_CardinalityType, FS_Subset
<1>2. q = [i \in DOMAIN starts |-> DataAlloc(starts[i], Length(starts[i]), 0, 0, FALSE, FALSE)]
    BY Zenon DEF RunList
<1>3. ASSUME NEW k \in S
      PROVE  /\ Length(k) \in Nat \ {0} /\ k .. k + Length(k) - 1 \subseteq S /\ k + Length(k) \notin S
    <2>1. \E n \in 1 .. Cardinality(S) : k .. k + n - 1 \subseteq S /\ k + n \notin S
        BY RunEnds
    <2>2. /\ Length(k) \in 1 .. Cardinality(S)
          /\ k .. k + Length(k) - 1 \subseteq S /\ k + Length(k) \notin S
        BY <2>1, Zenon
    <2> HIDE DEF Length
    <2> QED BY <1>1, <2>2
<1> HIDE DEF Length
<1>4. starts \in Seq(Starts)
    BY <1>1, AscendingIn
<1>5. \A i, j \in DOMAIN starts : i < j => starts[i] < starts[j]
    BY <1>1, AscendingStrictly
<1> HIDE DEF starts, q
<1>6. DOMAIN starts = 1 .. Len(starts) /\ Len(starts) \in Nat
    BY <1>4
<1>7. \A i \in DOMAIN starts : starts[i] \in Nat /\ starts[i] \in S /\ starts[i] - 1 \notin S
    <2>1. \A k \in Starts : k \in Nat /\ k \in S /\ k - 1 \notin S
        OBVIOUS
    <2> HIDE DEF Starts
    <2>2. \A i \in DOMAIN starts : starts[i] \in Starts
        BY <1>4
    <2> QED BY <2>1, <2>2
<1>8. ASSUME NEW i \in DOMAIN starts
      PROVE  /\ q[i] \in Entries /\ q[i].offset = starts[i] /\ q[i].length = Length(starts[i])
             /\ q[i].inode = 0 /\ ~ q[i].relocated /\ ~ q[i].not_in_img
    <2>1. q[i] = DataAlloc(starts[i], Length(starts[i]), 0, 0, FALSE, FALSE)
        BY <1>2
    <2>2. starts[i] \in Nat /\ Length(starts[i]) \in Nat \ {0}
        BY <1>3, <1>7
    <2> QED BY <2>1, <2>2 DEF DataAlloc, Entries
<1>9. DOMAIN q = DOMAIN starts
    BY <1>2
<1>10. q \in Seq(Entries)
    <2>1. q = [i \in 1 .. Len(starts) |-> q[i]]
        BY <1>2, <1>6, <1>9
    <2> QED BY <1>6, <1>8, <2>1
<1>11. InOrder(q)
    <2>1. ASSUME NEW i \in DOMAIN starts, NEW j \in DOMAIN starts, i < j
          PROVE  starts[i] + Length(starts[i]) <= starts[j]
        <3> DEFINE a == starts[i]
                   b == starts[j]
                   n == Length(a)
        <3>1. /\ a \in Nat /\ b \in Nat /\ a \in S /\ b - 1 \notin S /\ a < b
              /\ n \in Nat \ {0} /\ a .. a + n - 1 \subseteq S
            BY <1>3, <1>5, <1>7, <2>1
        <3> HIDE DEF a, b, n
        <3>2. ~ (b - 1 \in a .. a + n - 1)
            BY <3>1
        <3> QED BY <3>1, <3>2 DEF a, b, n
    <2> QED BY <1>8, <1>9, <2>1 DEF InOrder
<1>12. Covered(q) \subseteq S
    <2>1. \A i \in DOMAIN starts : Extent(q[i].offset, q[i].length) \subseteq S
        BY <1>3, <1>7, <1>8 DEF Extent
    <2> QED BY <1>9, <2>1 DEF Covered, Members
<1>13. \A r \in Members(q) : r.inode = 0 /\ ~ r.relocated /\ ~ r.not_in_img
    BY <1>8, <1>9 DEF Members
\* The run of a cluster starts at the least from which all are in the set.
<1>14. ASSUME NEW k \in S PROVE k \in Covered(q)
    <2> DEFINE T == {j \in S : j <= k /\ j .. k \subseteq S}
    <2>1. T \in SUBSET Nat /\ k \in T
        <3>1. k .. k = {k} /\ k <= k
            OBVIOUS
        <3> QED BY <3>1
    <2>2. PICK j \in T : \A l \in T : j <= l
        BY <2>1, LeastNatural
    <2>3. j \in S /\ j \in Nat /\ j <= k /\ j .. k \subseteq S
        BY <2>1
    <2>4. j - 1 \notin S
        <3> SUFFICES ASSUME j - 1 \in S PROVE FALSE
            OBVIOUS
        <3>1. j - 1 .. k \subseteq S
            <4>1. \A u \in j - 1 .. k : u = j - 1 \/ u \in j .. k
                BY <2>3
            <4> QED BY <2>3, <4>1
        <3>2. j - 1 \in T /\ ~ (j <= j - 1)
            BY <2>3, <3>1
        <3> QED BY <2>2, <3>2
    <2>5. j \in Starts
        BY <2>3, <2>4
    <2>6. PICK i \in DOMAIN starts : starts[i] = j
        BY <1>1, <2>5, AscendingIn DEF starts
    <2>7. Length(j) \in Nat \ {0} /\ j + Length(j) \notin S
        BY <1>3, <2>3
    <2>8. ~ (j + Length(j) <= k)
        <3>1. j + Length(j) <= k => j + Length(j) \in j .. k
            BY <2>3, <2>7
        <3> QED BY <2>3, <2>7, <3>1
    <2>9. k \in Extent(q[i].offset, q[i].length)
        <3>1. q[i].offset = j /\ q[i].length = Length(j)
            BY <1>8, <2>6
        <3> QED BY <2>3, <2>7, <2>8, <3>1 DEF Extent
    <2>10. q[i] \in Members(q)
        BY <1>9 DEF Members
    <2> QED BY <2>9, <2>10 DEF Covered
<1>15. Covered(q) = S
    BY <1>12, <1>14
<1> QED BY <1>10, <1>11, <1>13, <1>15 DEF q

-----------------------------------------------------------------------------
(* The lists of all segments, whose entries cover clusters of a known set. *)

Listed(R, Segs, Known) ==
    /\ R \in [Segs -> Seq(Entries)]
    /\ \A s \in Segs : InOrder(R[s]) /\ Covered(R[s]) \subseteq Known

LEMMA OneListed ==
    ASSUME NEW R, NEW Segs, NEW Known, Listed(R, Segs, Known), NEW t, NEW list,
           t \in Segs => /\ list \in Seq(Entries) /\ InOrder(list)
                         /\ Covered(list) \subseteq Known
    PROVE  Listed([R EXCEPT ![t] = list], Segs, Known)
<1> DEFINE Q == [R EXCEPT ![t] = list]
<1>1. /\ R \in [Segs -> Seq(Entries)]
      /\ \A s \in Segs : InOrder(R[s]) /\ Covered(R[s]) \subseteq Known
    BY DEF Listed
<1>2. DOMAIN Q = Segs /\ Q = [s \in Segs |-> IF s = t THEN list ELSE R[s]]
    BY <1>1
<1>3. \A s \in Segs : Q[s] = IF s = t THEN list ELSE R[s]
    BY <1>2
<1>4. Q \in [Segs -> Seq(Entries)]
    BY <1>1, <1>2
<1> HIDE DEF Q
<1>5. \A s \in Segs : InOrder(Q[s]) /\ Covered(Q[s]) \subseteq Known
    BY <1>1, <1>3
<1>6. Listed(Q, Segs, Known)
    BY <1>4, <1>5 DEF Listed
<1> QED BY <1>6 DEF Q

LEMMA MoreListed ==
    ASSUME NEW R, NEW Segs, NEW Known, NEW More, Known \subseteq More, Listed(R, Segs, Known)
    PROVE  Listed(R, Segs, More)
BY DEF Listed

LEMMA ListedCut ==
    ASSUME NEW R, NEW Segs, NEW Known, Listed(R, Segs, Known), NEW t,
           NEW offset \in Nat, NEW length \in Nat \ {0}, NEW inode \in Int, NEW file_offset \in Nat,
           t \in Segs => ~ Torn(R[t], offset, length)
    PROVE  Listed([R EXCEPT ![t] = Cut(R[t], offset, length, inode, file_offset)], Segs, Known)
<1> DEFINE list == Cut(R[t], offset, length, inode, file_offset)
<1>1. ASSUME t \in Segs
      PROVE  list \in Seq(Entries) /\ InOrder(list) /\ Covered(list) \subseteq Known
    <2>1. R[t] \in Seq(Entries) /\ InOrder(R[t]) /\ Covered(R[t]) \subseteq Known
        BY <1>1 DEF Listed
    <2> QED BY <1>1, <2>1, CutInOrder
<1> HIDE DEF list
<1>2. Listed([R EXCEPT ![t] = list], Segs, Known)
    BY <1>1, OneListed
<1> QED BY <1>2 DEF list

\* An entry for clusters that were not known.
LEMMA ListedInsert ==
    ASSUME NEW R, NEW Segs, NEW Known, Listed(R, Segs, Known), NEW t, NEW r \in Entries,
           Known \cap Extent(r.offset, r.length) = {}
    PROVE  Listed([R EXCEPT ![t] = Insert(R[t], r)], Segs, Known \cup Extent(r.offset, r.length))
<1> DEFINE list == Insert(R[t], r)
           More == Known \cup Extent(r.offset, r.length)
<1>1. ASSUME t \in Segs
      PROVE  list \in Seq(Entries) /\ InOrder(list) /\ Covered(list) \subseteq More
    <2>1. R[t] \in Seq(Entries) /\ InOrder(R[t]) /\ Covered(R[t]) \subseteq Known
        BY <1>1 DEF Listed
    <2>2. Covered(R[t]) \cap Extent(r.offset, r.length) = {}
        BY <2>1
    <2>3. list \in Seq(Entries) /\ InOrder(list) /\ Members(list) = Members(R[t]) \cup {r}
        BY <2>1, <2>2, InsertInOrder
    <2>4. Covered(list) = Covered(R[t]) \cup Extent(r.offset, r.length)
        BY <2>3 DEF Covered
    <2> QED BY <2>1, <2>3, <2>4
<1> HIDE DEF list
<1>2. Listed(R, Segs, More)
    BY MoreListed
<1>3. Listed([R EXCEPT ![t] = list], Segs, More)
    BY <1>1, <1>2, OneListed
<1> QED BY <1>3 DEF list

USE ChunkSpaceAssumption, BitmapAssumption

-----------------------------------------------------------------------------
(* What a call of an allocator gives the conversion. *)

\* Nothing before the reserved area ends is free in a chunk, or granted.
GrantedAbove ==
    /\ \A i \in DOMAIN chunks : \A u \in chunks[i].free : u >= Reserved
    /\ \A u \in Granted : u >= Reserved

LEMMA ScanSegmentAbove ==
    ASSUME IInv, GrantedAbove, ScanSegment
    PROVE  GrantedAbove'
<1>1. TypeOK /\ Base(seg) < DeviceSize /\ seg \in Nat /\ Base(seg) \in Nat
      /\ UNCHANGED allocated
    BY ScanSegmentShape DEF IInv
<1>2. Granted' = Granted
    BY <1>1 DEF Granted
<1>3. \A u \in SegmentChunk(seg).free : u >= Reserved
    <2>1. /\ SegmentChunk(seg).free \subseteq Unused(seg) \ Extent(Base(seg), Shift(seg))
          /\ Base(seg) + Shift(seg) >= Reserved /\ Shift(seg) \in Nat
        BY <1>1, SegmentChunkPlace, ChunkStart DEF SpaceListRemove
    <2>2. \A u \in Unused(seg) : u \in Nat /\ u >= Base(seg)
        BY <1>1 DEF Unused
    <2> QED BY <1>1, <2>1, <2>2 DEF Extent
<1>4. CASE UNCHANGED chunks
    BY <1>2, <1>4 DEF GrantedAbove
<1>5. CASE /\ DOMAIN chunks' = 1 .. Len(chunks) + 1
           /\ DOMAIN chunks = 1 .. Len(chunks) /\ Len(chunks) \in Nat
           /\ \A k \in DOMAIN chunks : chunks'[k] = chunks[k]
           /\ chunks'[Len(chunks) + 1] = SegmentChunk(seg)
    <2>1. \A k \in DOMAIN chunks' : k \in DOMAIN chunks \/ k = Len(chunks) + 1
        BY <1>5
    <2>2. \A i \in DOMAIN chunks' : \A u \in chunks'[i].free : u >= Reserved
        BY <1>3, <1>5, <2>1 DEF GrantedAbove
    <2> QED BY <1>2, <2>2 DEF GrantedAbove
<1> QED BY <1>4, <1>5, ScanSegmentShape

\* A call that does not fail grants units that were granted to nobody, after the
\* reserved area, and Returned is the first of them.
LEMMA CallReturns ==
    ASSUME IInv, GrantedAbove, NEW type, NEW size, NEW length, NEW counted,
           AllocatorCall(type, size, length, counted)
    PROVE  /\ GrantedAbove'
           /\ UNCHANGED <<in_use, seg>>
           /\ \/ phase' = "failed" /\ allocated' = allocated
              \/ /\ phase' = phase
                 /\ Returned \in Nat
                 /\ allocated' = allocated \cup {Allocation(Returned, length, type, counted)}
                 /\ Granted' = Granted \cup Extent(Returned, length)
                 /\ Extent(Returned, length) \cap Granted = {}
                 /\ \A u \in Extent(Returned, length) : u >= Reserved
<1>1. /\ type \in Types /\ size \in Nat /\ length \in Nat \ {0} /\ counted \in BOOLEAN
      /\ size >= SystemChunkSize
      /\ Allocate(type, size, length, counted)
    BY DEF AllocatorCall
<1>2. TypeOK /\ FreeApart /\ ScanProgress /\ space_list \in SUBSET Nat
    BY DEF IInv, TypeOK
<1>3. \A u \in space_list : u >= Reserved
    BY <1>2 DEF ScanProgress, Extent
\* An allocation of units of nobody is a new one.
<1>4. ASSUME NEW addr \in Nat,
             allocated' = allocated \cup {Allocation(addr, length, type, counted)},
             Extent(addr, length) \cap Granted = {}
      PROVE  Returned = addr /\ Granted' = Granted \cup Extent(addr, length)
    <2> DEFINE new == Allocation(addr, length, type, counted)
    <2>1. new.addr = addr /\ new.length = length
        BY <1>1, AllocationType
    <2> HIDE DEF new
    <2>2. addr \in Extent(addr, length)
        BY <1>1 DEF Extent
    <2>3. new \notin allocated
        <3>1. ASSUME new \in allocated PROVE FALSE
            <4>1. Extent(new.addr, new.length) \subseteq Granted
                BY <3>1 DEF Granted
            <4> QED BY <1>4, <2>1, <2>2, <4>1
        <3> QED BY <3>1
    <2>4. allocated' \ allocated = {new}
        BY <1>4, <2>3 DEF new
    <2>5. (CHOOSE a \in {new} : TRUE) = new
        OBVIOUS
    <2>6. Returned = addr
        BY <2>1, <2>4, <2>5 DEF Returned
    <2>7. Granted' = Granted \cup Extent(addr, length)
        BY <1>4, <2>1, GrantedGrows DEF new
    <2> QED BY <2>6, <2>7
<1>5. ASSUME NEW i \in DOMAIN chunks, NEW addr \in Nat, TakenFrom(i, addr, length, type, counted)
      PROVE  /\ GrantedAbove' /\ UNCHANGED <<in_use, seg, phase>>
             /\ allocated' = allocated \cup {Allocation(addr, length, type, counted)}
             /\ Extent(addr, length) \cap Granted = {}
             /\ \A u \in Extent(addr, length) : u >= Reserved
    <2>1. /\ Extent(addr, length) \subseteq chunks[i].free
          /\ DOMAIN chunks' = DOMAIN chunks
          /\ \A k \in DOMAIN chunks : chunks'[k].free \subseteq chunks[k].free
          /\ allocated' = allocated \cup {Allocation(addr, length, type, counted)}
          /\ UNCHANGED <<in_use, seg, phase>>
        BY <1>5 DEF TakenFrom
    <2>2. Extent(addr, length) \cap Granted = {}
        BY <1>2, <2>1 DEF FreeApart
    <2>3. \A u \in Extent(addr, length) : u >= Reserved
        BY <2>1 DEF GrantedAbove
    <2>4. Granted' = Granted \cup Extent(addr, length)
        BY <1>4, <2>1, <2>2
    <2>5. GrantedAbove'
        BY <2>1, <2>3, <2>4 DEF GrantedAbove
    <2> QED BY <2>1, <2>2, <2>3, <2>5
<1>6. ASSUME NEW n \in Nat, NEW start \in Nat, ChunkMade(n, start, size, type)
      PROVE  /\ \A u \in Extent(start, size) : u >= Reserved
             /\ Extent(start, size) \cap Granted = {}
             /\ \A i \in DOMAIN chunks' : i = n \/ (i \in DOMAIN chunks /\ chunks'[i] = chunks[i])
             /\ UNCHANGED <<in_use, seg>>
    <2>1. /\ Extent(start, size) \subseteq space_list /\ UNCHANGED <<in_use, seg>>
          /\ DOMAIN chunks' = 1 .. n /\ n = Len(chunks) + 1 /\ DOMAIN chunks = 1 .. Len(chunks)
          /\ \A k \in DOMAIN chunks : chunks'[k] = chunks[k]
        BY <1>6 DEF ChunkMade
    <2>2. size > 0
        BY <1>1
    <2>3. start \in Fits(space_list, size)
        BY <1>1, <2>1, <2>2 DEF Fits, Extent
    <2>4. Extent(start, size) \subseteq Usable(space_list)
        BY <1>1, <1>2, <2>3, ChunkIsUsable
    <2>5. Extent(start, size) \cap Granted = {}
        BY <1>2, <2>4 DEF FreeApart
    <2>6. \A i \in 1 .. n : i = n \/ i \in 1 .. Len(chunks)
        BY <2>1
    <2> QED BY <1>3, <2>1, <2>5, <2>6
<1>7. ASSUME NEW n \in Nat, NEW start \in Nat, ChunkMade(n, start, size, type),
             NEW addr \in Nat, TakenFromNew(n, start, size, type, addr, length, counted)
      PROVE  /\ GrantedAbove' /\ UNCHANGED phase
             /\ allocated' = allocated \cup {Allocation(addr, length, type, counted)}
             /\ Extent(addr, length) \cap Granted = {}
             /\ \A u \in Extent(addr, length) : u >= Reserved
    <2>1. /\ Extent(addr, length) \subseteq Extent(start, size)
          /\ chunks'[n].free \subseteq Extent(start, size)
          /\ allocated' = allocated \cup {Allocation(addr, length, type, counted)}
          /\ UNCHANGED phase
        BY <1>7 DEF TakenFromNew
    <2>2. /\ Extent(addr, length) \cap Granted = {}
          /\ \A u \in Extent(addr, length) : u >= Reserved
        BY <1>6, <1>7, <2>1
    <2>3. Granted' = Granted \cup Extent(addr, length)
        BY <1>4, <2>1, <2>2
    <2>4. GrantedAbove'
        BY <1>6, <1>7, <2>1, <2>2, <2>3 DEF GrantedAbove
    <2> QED BY <2>1, <2>2, <2>4
<1>8. ASSUME NEW n \in Nat, NEW start \in Nat, ChunkMade(n, start, size, type),
             NoRoomInNew(n, start, size)
      PROVE  GrantedAbove' /\ phase' = "failed" /\ allocated' = allocated
    <2>1. /\ chunks'[n].free \subseteq Extent(start, size)
          /\ phase' = "failed" /\ allocated' = allocated
        BY <1>8 DEF NoRoomInNew
    <2>2. Granted' = Granted
        BY <2>1 DEF Granted
    <2> QED BY <1>6, <1>8, <2>1, <2>2 DEF GrantedAbove
<1>9. CASE FromChunk(type, length, counted)
    <2>1. PICK i \in DOMAIN chunks, addr \in Nat : TakenFrom(i, addr, length, type, counted)
        BY <1>1, <1>2, <1>9, FromChunkShape
    <2>2. Returned = addr /\ Granted' = Granted \cup Extent(addr, length)
        BY <1>4, <1>5, <2>1
    <2> QED BY <1>5, <2>1, <2>2
<1>10. CASE NewChunk(type, size, length, counted)
    <2>1. PICK n \in Nat, start \in Nat :
              /\ ChunkMade(n, start, size, type)
              /\ \/ \E addr \in Nat :
                       TakenFromNew(n, start, size, type, addr, length, counted)
                 \/ NoRoomInNew(n, start, size)
        BY <1>1, <1>2, <1>10, NewChunkShape
    <2>2. CASE \E addr \in Nat : TakenFromNew(n, start, size, type, addr, length, counted)
        <3>1. PICK addr \in Nat : TakenFromNew(n, start, size, type, addr, length, counted)
            BY <2>2
        <3>2. Returned = addr /\ Granted' = Granted \cup Extent(addr, length)
            BY <1>4, <1>7, <2>1, <3>1
        <3> QED BY <1>6, <1>7, <2>1, <3>1, <3>2
    <2>3. CASE NoRoomInNew(n, start, size)
        BY <1>6, <1>8, <2>1, <2>3
    <2> QED BY <2>1, <2>2, <2>3
<1>11. CASE NoSpace(type, size, length)
    BY <1>11 DEF NoSpace, GrantedAbove, Granted
<1> QED BY <1>1, <1>9, <1>10, <1>11 DEF Allocate

-----------------------------------------------------------------------------
(* Where convert is. *)

\* The phase of the allocators that belongs to each step.  The program gives up only
\* where it allocates or divides a run, before anything is written over NTFS.
StepPhase ==
    \/ step = "scan" /\ phase = "scan"
    \/ step = "protect" /\ phase \in {"protect", "failed"}
    \/ step = "files" /\ phase \in {"rewrite", "failed"}
    \/ step \in {"extents", "csums"} /\ phase = "rewrite"
    \/ step = "trees" /\ phase \in {"trees", "failed"}
    \/ step \in {"blocks", "supers", "done"} /\ phase = "trees"

ConvertedFiles == {f \in Files : f.mappings = {} => f.length \in DataLengths}

\* What the loops have before them.
Queues ==
    /\ files \in Seq(ConvertedFiles)
    /\ step = "files" => todo \in Seq(ConvertedFiles)
    /\ step = "blocks" => todo \in Seq({a.addr : a \in Blocks})
    /\ step = "supers" => todo \in Seq({sb \in SuperAddrs : sb < DeviceSize})

\* The blocks of trees all have one size, and there are finitely many of them.
BlocksSized ==
    /\ IsFiniteSet(allocated)
    /\ \A a \in Blocks : a.length = TreeSize

\* A unit is changed only if it was granted, but for the superblocks and the first
\* cluster in the end.
OnlyGrantedWritten ==
    /\ DOMAIN disk = 0 .. OrigSize - 1
    /\ \A u \in DOMAIN disk :
          \/ disk[u] = Ntfs(u)
          \/ u \in Granted
          \/ step \in {"supers", "done"} /\ u \in SuperAddrs
          \/ step = "done" /\ u < ClusterSize

ConvInv == IInv /\ GrantedAbove /\ StepPhase /\ Queues /\ BlocksSized /\ OnlyGrantedWritten

LEMMA InitConv == ConvInit => ConvInv
<1> SUFFICES ASSUME ConvInit PROVE ConvInv
    OBVIOUS
<1>1. IInv /\ chunks = <<>> /\ allocated = {} /\ phase = "scan"
    BY InitIInv DEF ConvInit, Init
<1>2. GrantedAbove /\ BlocksSized
    <2>1. IsFiniteSet(allocated) /\ DOMAIN chunks = {}
        BY <1>1, FS_EmptySet
    <2> QED BY <1>1, <2>1 DEF GrantedAbove, BlocksSized, Blocks, Granted
<1>3. StepPhase
    BY <1>1 DEF StepPhase, ConvInit
<1>4. Queues
    <2>1. files \in Layouts /\ step = "scan"
        BY DEF ConvInit
    <2>2. /\ files \in Seq(Files)
          /\ \A i \in DOMAIN files : files[i].mappings = {} => files[i].length \in DataLengths
        BY <2>1, LayoutsAssumption
    <2>3. \A i \in DOMAIN files : files[i] \in ConvertedFiles
        BY <2>2 DEF ConvertedFiles
    <2>4. files \in Seq(ConvertedFiles)
        BY <2>2, <2>3
    <2> QED BY <2>1, <2>4 DEF Queues
<1>5. OnlyGrantedWritten
    <2>1. disk = [u \in 0 .. OrigSize - 1 |-> Ntfs(u)]
        BY DEF ConvInit
    <2> QED BY <2>1 DEF OnlyGrantedWritten
<1> QED BY <1>1, <1>2, <1>3, <1>4, <1>5 DEF ConvInv

\* A step that leaves the chunks alone, and goes on to another phase only when the
\* segments are scanned.
Quiet ==
    /\ ChunksKept
    /\ \/ phase' = phase
       \/ /\ phase' \in {"protect", "rewrite", "trees", "failed"}
          /\ phase # "scan" \/ Base(seg) >= DeviceSize

Calls == \E type, size, length, counted : AllocatorCall(type, size, length, counted)

LEMMA UnchangedQuiet == UNCHANGED vars => Quiet
BY DEF vars, Quiet, ChunksKept

LEMMA NextPhaseQuiet ==
    ASSUME NextPhase
    PROVE  /\ Quiet
           /\ phase = "scan" => phase' = "protect"
           /\ phase = "protect" => phase' = "rewrite"
           /\ phase = "rewrite" => phase' = "trees"
           /\ phase \in {"scan", "protect", "rewrite"}
BY DEF NextPhase, Quiet, ChunksKept

\* The sizes that convert asks the allocators for.
LEMMA DataCalls ==
    ASSUME phase = "protect" \/ phase = "rewrite", NEW length, NEW counted \in BOOLEAN,
           phase = "protect" => length = ClusterSize,
           phase = "rewrite" => length \in DataLengths,
           AllocateData(length, counted)
    PROVE  AllocatorCall("data", DataChunkSize, length, counted)
<1>1. /\ "data" \in Types /\ DataChunkSize \in Nat /\ DataChunkSize >= SystemChunkSize
      /\ length \in Nat \ {0} /\ phase # "scan"
    BY DEF Types
<1> QED BY <1>1 DEF AllocateData, AllocatorCall

LEMMA MetadataCalls ==
    ASSUME phase = "trees", NEW system_chunk \in BOOLEAN, AllocateMetadata(system_chunk)
    PROVE  \/ AllocatorCall("system", SystemChunkSize, TreeSize, TRUE)
           \/ AllocatorCall("metadata", DataChunkSize, TreeSize, TRUE)
<1>1. /\ "system" \in Types /\ "metadata" \in Types /\ "system" # "data" /\ "metadata" # "data"
      /\ DataChunkSize \in Nat /\ SystemChunkSize \in Nat /\ DataChunkSize >= SystemChunkSize
      /\ SystemChunkSize >= SystemChunkSize /\ TreeSize \in Nat \ {0} /\ TRUE \in BOOLEAN
      /\ phase # "scan"
    BY DEF Types
<1>2. \/ Allocate("system", SystemChunkSize, TreeSize, TRUE)
      \/ Allocate("metadata", DataChunkSize, TreeSize, TRUE)
    BY DEF AllocateMetadata
<1> QED BY <1>1, <1>2 DEF AllocatorCall

LEMMA HeadAndTail ==
    ASSUME NEW S, NEW q \in Seq(S), q # <<>>
    PROVE  Head(q) \in S /\ Tail(q) \in Seq(S)
OBVIOUS

\* protect_cluster copies a cluster to where it was given space, if it is in use.
LEMMA ProtectClusterShape ==
    ASSUME StepPhase, ProtectCluster
    PROVE  /\ step = "protect" /\ phase = "protect" /\ UNCHANGED <<step, files>>
           /\ \/ UNCHANGED <<vars, disk>>
              \/ /\ AllocatorCall("data", DataChunkSize, ClusterSize, FALSE)
                 /\ \/ phase' = "failed" /\ UNCHANGED disk
                    \/ /\ phase' # "failed"
                       /\ \E content : /\ DOMAIN content \subseteq 0 .. ClusterSize - 1
                                       /\ disk' = Written(Returned, content)
<1>1. step = "protect" /\ phase = "protect" /\ UNCHANGED <<step, files>>
    BY DEF ProtectCluster, StepPhase
<1> DEFINE k == Head(todo)
           Mine == runs[SegmentOf(k)]
<1>2. CASE Met(Mine, k, 1) = {} /\ Stays /\ UNCHANGED vars
    BY <1>1, <1>2 DEF Stays
<1>3. CASE /\ AllocateData(ClusterSize, FALSE)
           /\ IF phase' = "failed" THEN Stays
              ELSE /\ Relocate(k)
                   /\ UNCHANGED <<fs_extents, img_extents, extent_items, runs2, csums>>
    <2>1. AllocatorCall("data", DataChunkSize, ClusterSize, FALSE)
        BY <1>1, <1>3, DataCalls
    <2>2. CASE phase' = "failed"
        BY <1>1, <1>3, <2>1, <2>2 DEF Stays
    <2>3. CASE phase' # "failed"
        <3> DEFINE Read == {i \in 0 .. ClusterSize - 1 : k * ClusterSize + i < OrigSize}
                   content == [i \in Read |-> disk[k * ClusterSize + i]]
        <3>1. disk' = Written(Returned, content)
            BY <1>3, <2>3 DEF Relocate
        <3>2. DOMAIN content \subseteq 0 .. ClusterSize - 1
            OBVIOUS
        <3> HIDE DEF content
        <3> QED BY <1>1, <2>1, <2>3, <3>1, <3>2
    <2> QED BY <2>2, <2>3
<1> QED BY <1>2, <1>3 DEF ProtectCluster

\* An extent of rewritten data is written to where it was given space.
LEMMA WriteDataShape ==
    ASSUME StepPhase, Queues, WriteData
    PROVE  /\ step = "files" /\ phase = "rewrite" /\ UNCHANGED <<step, files>>
           /\ \E f \in ConvertedFiles :
                 /\ AllocatorCall("data", DataChunkSize, f.length, TRUE) /\ f.length \in Nat
                 /\ \/ phase' = "failed" /\ UNCHANGED disk
                    \/ /\ phase' # "failed"
                       /\ \E content : /\ DOMAIN content \subseteq 0 .. f.length - 1
                                       /\ disk' = Written(Returned, content)
<1>1. step = "files" /\ phase = "rewrite" /\ UNCHANGED <<step, files>>
    BY DEF WriteData, StepPhase
<1> DEFINE f == Head(todo)
           content == [i \in 0 .. f.length - 1 |-> Data(f.inode, f.pos + i)]
<1>2. f \in ConvertedFiles
    BY <1>1, HeadAndTail DEF Queues, WriteData
<1>3. /\ AllocateData(f.length, TRUE) /\ f.mappings = {}
      /\ IF phase' = "failed" THEN UNCHANGED disk ELSE disk' = Written(Returned, content)
    BY DEF WriteData, Stays
<1>4. DOMAIN content \subseteq 0 .. f.length - 1
    OBVIOUS
<1> HIDE DEF f, content
<1>5. f.length \in DataLengths /\ f.length \in Nat
    BY <1>2, <1>3 DEF ConvertedFiles
<1>6. AllocatorCall("data", DataChunkSize, f.length, TRUE)
    BY <1>1, <1>3, <1>5, DataCalls
<1> QED BY <1>1, <1>2, <1>3, <1>4, <1>5, <1>6

\* All other steps up to the writing of the trees leave the device alone.
LEMMA LayOutBlockShape ==
    ASSUME StepPhase, LayOutBlock
    PROVE  /\ step = "trees" /\ phase = "trees" /\ UNCHANGED <<step, files, disk>>
           /\ \/ AllocatorCall("system", SystemChunkSize, TreeSize, TRUE)
              \/ AllocatorCall("metadata", DataChunkSize, TreeSize, TRUE)
<1>1. step = "trees" /\ phase = "trees" /\ UNCHANGED <<step, files, disk>>
    BY DEF LayOutBlock, StepPhase, cvars
<1>2. PICK system_chunk \in BOOLEAN : AllocateMetadata(system_chunk)
    BY DEF LayOutBlock
<1> QED BY <1>1, <1>2, MetadataCalls

LEMMA SplitRunsShape ==
    ASSUME StepPhase, SplitRuns
    PROVE  /\ step = "files" /\ phase = "rewrite" /\ Quiet
           /\ UNCHANGED <<step, todo, files, disk>> /\ phase' \in {phase, "failed"}
<1>1. /\ step = "files" /\ phase = "rewrite" /\ UNCHANGED <<step, todo, files, disk>>
      /\ UNCHANGED <<in_use, seg, space_list, chunks, allocated>>
    BY DEF SplitRuns, StepPhase
<1>2. phase' = "failed" \/ phase' = phase
    BY DEF SplitRuns
<1> QED BY <1>1, <1>2 DEF Quiet, ChunksKept

LEMMA MapFileShape ==
    ASSUME StepPhase, MapFile
    PROVE  /\ step = "files" /\ phase = "rewrite" /\ Quiet /\ UNCHANGED <<vars, step, files, disk>>
           /\ todo # <<>> /\ todo' = Tail(todo)
<1>1. /\ step = "files" /\ phase = "rewrite" /\ todo # <<>> /\ todo' = Tail(todo)
      /\ UNCHANGED <<vars, step, files, disk>>
    BY DEF MapFile, StepPhase
<1> QED BY <1>1, UnchangedQuiet

\* Steps that read the lists or go on to the next loop.
LEMMA ParseDataBitmapShape ==
    ASSUME ParseDataBitmap
    PROVE  /\ Quiet /\ step' = "protect" /\ phase' = "protect" /\ UNCHANGED <<files, disk>>
<1>1. NextPhase /\ phase = "scan" /\ step' = "protect" /\ UNCHANGED <<files, disk>>
    BY DEF ParseDataBitmap
<1> QED BY <1>1, NextPhaseQuiet

LEMMA CalcUsedSpaceShape ==
    ASSUME StepPhase, CalcUsedSpace
    PROVE  /\ Quiet /\ step = "protect" /\ step' = "files" /\ phase' = "rewrite"
           /\ todo' = files /\ UNCHANGED <<files, disk>>
<1>1. NextPhase /\ step = "protect" /\ step' = "files" /\ todo' = files /\ UNCHANGED <<files, disk>>
    BY DEF CalcUsedSpace
<1>2. phase = "protect"
    BY <1>1, NextPhaseQuiet DEF StepPhase
<1> QED BY <1>1, <1>2, NextPhaseQuiet

LEMMA CalcChecksumsShape ==
    ASSUME StepPhase, CalcChecksums
    PROVE  /\ Quiet /\ step = "csums" /\ step' = "trees" /\ phase' = "trees"
           /\ UNCHANGED <<files, disk>>
<1>1. NextPhase /\ step = "csums" /\ step' = "trees" /\ UNCHANGED <<files, disk>>
    BY DEF CalcChecksums
<1>2. phase = "rewrite"
    BY <1>1 DEF StepPhase
<1> QED BY <1>1, <1>2, NextPhaseQuiet

\* The steps in memory that follow one another without a change of the phase.
InMemory ==
    /\ UNCHANGED <<vars, files, disk>>
    /\ \/ step = "files" /\ step' = "extents" /\ phase # "failed"
       \/ step = "extents" /\ step' = "csums"
       \/ step = "csums" /\ step' = "csums"

LEMMA InMemoryShape ==
    ASSUME CreateImage \/ CreateDataExtentItems \/ JoinRun
    PROVE  InMemory
BY DEF CreateImage, CreateDataExtentItems, JoinRun, InMemory

\* Each step of the conversion is quiet for the chunks, or scans a segment, or calls an
\* allocator.
LEMMA ConvCases ==
    ASSUME StepPhase, Queues, [ConvNext]_<<vars, cvars>>
    PROVE  \/ ScanSegment /\ UNCHANGED <<phase, cvars>>
           \/ Quiet
           \/ Calls
<1>1. CASE Scan
    BY <1>1 DEF Scan, ScanSegment
<1>2. CASE ParseDataBitmap
    BY <1>2, ParseDataBitmapShape
<1>3. CASE ProtectCluster
    BY <1>3, ProtectClusterShape, UnchangedQuiet DEF Calls
<1>4. CASE CalcUsedSpace
    BY <1>4, CalcUsedSpaceShape
<1>5. CASE SplitRuns \/ MapFile
    BY <1>5, SplitRunsShape, MapFileShape
<1>6. CASE WriteData
    BY <1>6, WriteDataShape DEF Calls
<1>7. CASE CreateImage \/ CreateDataExtentItems \/ JoinRun
    BY <1>7, InMemoryShape, UnchangedQuiet DEF InMemory
<1>8. CASE CalcChecksums
    BY <1>8, CalcChecksumsShape
<1>9. CASE LayOutBlock
    BY <1>9, LayOutBlockShape DEF Calls
<1>10. CASE LayoutDone \/ WriteTrees \/ TreesWritten \/ WriteSuperblock \/ ClearFirstCluster
    BY <1>10, UnchangedQuiet
    DEF LayoutDone, WriteTrees, TreesWritten, WriteSuperblock, ClearFirstCluster
<1>11. CASE UNCHANGED <<vars, cvars>>
    BY <1>11, UnchangedQuiet
<1> QED BY <1>1, <1>2, <1>3, <1>4, <1>5, <1>6, <1>7, <1>8, <1>9, <1>10, <1>11 DEF ConvNext

LEMMA ChunkStepKeeps ==
    ASSUME IInv, GrantedAbove, ScanSegment \/ Quiet \/ Calls
    PROVE  IInv' /\ GrantedAbove'
<1>1. CASE ScanSegment
    BY <1>1, ScanSegmentStep, ScanSegmentAbove
<1>2. CASE Quiet
    <2>1. IInv'
        <3>1. CASE phase' = phase
            <4>1. UNCHANGED vars
                BY <1>2, <3>1 DEF Quiet, ChunksKept, vars
            <4> QED BY <4>1, StutterStep
        <3>2. CASE /\ phase' \in {"protect", "rewrite", "trees", "failed"}
                   /\ phase # "scan" \/ Base(seg) >= DeviceSize
            BY <1>2, <3>2, PhaseStep DEF Quiet, ChunksKept
        <3> QED BY <1>2, <3>1, <3>2 DEF Quiet
    <2>2. GrantedAbove'
        BY <1>2 DEF Quiet, ChunksKept, GrantedAbove, Granted
    <2> QED BY <2>1, <2>2
<1>3. ASSUME NEW type, NEW size, NEW length, NEW counted,
             AllocatorCall(type, size, length, counted)
      PROVE  IInv' /\ GrantedAbove'
    <2>1. /\ type \in Types /\ size \in Nat /\ length \in Nat \ {0} /\ counted \in BOOLEAN
          /\ phase # "scan" /\ size >= SystemChunkSize
          /\ Allocate(type, size, length, counted)
        BY <1>3 DEF AllocatorCall
    <2> QED BY <1>3, <2>1, AllocateStep, CallReturns
<1> QED BY <1>1, <1>2, <1>3 DEF Calls

LEMMA ConvIInv ==
    ASSUME IInv, GrantedAbove, StepPhase, Queues, [ConvNext]_<<vars, cvars>>
    PROVE  IInv' /\ GrantedAbove'
BY ConvCases, ChunkStepKeeps

-----------------------------------------------------------------------------
(* What is written. *)

LEMMA WrittenUnits ==
    ASSUME NEW addr, NEW content, disk' = Written(addr, content)
    PROVE  /\ DOMAIN disk' = DOMAIN disk
           /\ \A u \in DOMAIN disk :
                 disk'[u] = IF u - addr \in DOMAIN content THEN content[u - addr] ELSE disk[u]
BY DEF Written

\* A write of at most n units changes nothing outside them.
LEMMA WrittenWithin ==
    ASSUME DOMAIN disk = 0 .. OrigSize - 1, NEW addr \in Nat, NEW n \in Nat, NEW content,
           DOMAIN content \subseteq 0 .. n - 1, disk' = Written(addr, content)
    PROVE  /\ DOMAIN disk' = DOMAIN disk
           /\ \A u \in DOMAIN disk : u \notin Extent(addr, n) => disk'[u] = disk[u]
<1>1. \A u \in DOMAIN disk : u \notin Extent(addr, n) => u - addr \notin DOMAIN content
    BY ConversionAssumption DEF Extent
<1> QED BY <1>1, WrittenUnits

LEMMA StepPhaseNext ==
    ASSUME StepPhase, Queues, [ConvNext]_<<vars, cvars>>
    PROVE  StepPhase'
<1>1. CASE Scan
    BY <1>1 DEF Scan, ScanSegment, cvars, StepPhase
<1>2. CASE ParseDataBitmap
    BY <1>2, ParseDataBitmapShape DEF StepPhase
<1>3. CASE ProtectCluster
    <2>1. phase' = phase \/ phase' = "failed"
        BY <1>3 DEF ProtectCluster, AllocateData, Allocate, FromChunk, NewChunk, NoSpace, vars
    <2>2. step = "protect" /\ step' = "protect" /\ phase = "protect"
        BY <1>3, ProtectClusterShape
    <2> QED BY <2>1, <2>2 DEF StepPhase
<1>4. CASE CalcUsedSpace
    BY <1>4, CalcUsedSpaceShape DEF StepPhase
<1>5. CASE SplitRuns \/ MapFile
    BY <1>5, SplitRunsShape, MapFileShape DEF StepPhase, vars
<1>6. CASE WriteData
    <2>1. phase' = phase \/ phase' = "failed"
        BY <1>6 DEF WriteData, AllocateData, Allocate, FromChunk, NewChunk, NoSpace
    <2>2. step = "files" /\ step' = "files" /\ phase = "rewrite"
        BY <1>6, WriteDataShape
    <2> QED BY <2>1, <2>2 DEF StepPhase
<1>7. CASE CreateImage \/ CreateDataExtentItems \/ JoinRun
    BY <1>7, InMemoryShape DEF InMemory, StepPhase, vars
<1>8. CASE CalcChecksums
    BY <1>8, CalcChecksumsShape DEF StepPhase
<1>9. CASE LayOutBlock
    <2>1. phase' = phase \/ phase' = "failed"
        BY <1>9
        DEF LayOutBlock, AllocateMetadata, Allocate, FromChunk, NewChunk, NoSpace
    <2>2. step = "trees" /\ step' = "trees" /\ phase = "trees"
        BY <1>9, LayOutBlockShape
    <2> QED BY <2>1, <2>2 DEF StepPhase
<1>10. CASE LayoutDone \/ WriteTrees \/ TreesWritten \/ WriteSuperblock \/ ClearFirstCluster
    BY <1>10
    DEF LayoutDone, WriteTrees, TreesWritten, WriteSuperblock, ClearFirstCluster, StepPhase, vars
<1>11. CASE UNCHANGED <<vars, cvars>>
    BY <1>11 DEF vars, cvars, StepPhase
<1> QED BY <1>1, <1>2, <1>3, <1>4, <1>5, <1>6, <1>7, <1>8, <1>9, <1>10, <1>11 DEF ConvNext

\* An allocation adds a block of the size of a tree block, or none.
LEMMA BlocksSizedNext ==
    ASSUME IInv, GrantedAbove, StepPhase, Queues, BlocksSized, [ConvNext]_<<vars, cvars>>
    PROVE  BlocksSized'
<1>1. CASE allocated' = allocated
    BY <1>1 DEF BlocksSized, Blocks
<1>2. ASSUME NEW a, allocated' = allocated \cup {a}, a.type = "data" \/ a.length = TreeSize
      PROVE  BlocksSized'
    <2>1. IsFiniteSet(allocated')
        BY <1>2, FS_AddElement DEF BlocksSized
    <2>2. \A b \in Blocks' : b.length = TreeSize
        BY <1>2 DEF BlocksSized, Blocks
    <2> QED BY <2>1, <2>2 DEF BlocksSized
<1>3. ASSUME NEW type, NEW size, NEW length, NEW counted,
             AllocatorCall(type, size, length, counted), type = "data" \/ length = TreeSize
      PROVE  BlocksSized'
    <2>1. \/ allocated' = allocated
          \/ allocated' = allocated \cup {Allocation(Returned, length, type, counted)}
        BY <1>3, CallReturns
    <2>2. /\ Allocation(Returned, length, type, counted).type = type
          /\ Allocation(Returned, length, type, counted).length = length
        BY DEF Allocation
    <2> QED BY <1>1, <1>2, <1>3, <2>1, <2>2
<1>4. CASE ScanSegment \/ Quiet
    BY <1>1, <1>4 DEF ScanSegment, Quiet, ChunksKept
<1>5. CASE ProtectCluster
    BY <1>1, <1>3, <1>5, ProtectClusterShape DEF vars
<1>6. CASE WriteData
    BY <1>3, <1>6, WriteDataShape
<1>7. CASE LayOutBlock
    BY <1>3, <1>7, LayOutBlockShape
<1>8. CASE Scan
    BY <1>4, <1>8 DEF Scan
<1>9. CASE ParseDataBitmap \/ CalcUsedSpace \/ SplitRuns \/ MapFile \/ CalcChecksums
    BY <1>4, <1>9, ParseDataBitmapShape, CalcUsedSpaceShape, SplitRunsShape, MapFileShape,
       CalcChecksumsShape
<1>10. CASE CreateImage \/ CreateDataExtentItems \/ JoinRun
    BY <1>1, <1>10, InMemoryShape DEF InMemory, vars
<1>11. CASE LayoutDone \/ WriteTrees \/ TreesWritten \/ WriteSuperblock \/ ClearFirstCluster
    BY <1>1, <1>11
    DEF LayoutDone, WriteTrees, TreesWritten, WriteSuperblock, ClearFirstCluster, vars
<1>12. CASE UNCHANGED <<vars, cvars>>
    BY <1>1, <1>12 DEF vars
<1> QED BY <1>5, <1>6, <1>7, <1>8, <1>9, <1>10, <1>11, <1>12 DEF ConvNext

BlockAddrs == {a.addr : a \in Blocks}

LEMMA BlockAddrsFinite ==
    ASSUME TypeOK, BlocksSized
    PROVE  IsFiniteSet(BlockAddrs) /\ BlockAddrs \in SUBSET Nat
<1>1. Blocks \subseteq allocated /\ \A a \in Blocks : a.addr \in Nat
    BY DEF Blocks, TypeOK
<1>2. IsFiniteSet(Blocks)
    BY <1>1, FS_Subset DEF BlocksSized
<1>3. IsFiniteSet(BlockAddrs)
    <2> DEFINE f == [a \in Blocks |-> a.addr]
    <2>1. BlockAddrs = {f[a] : a \in Blocks}
        BY DEF BlockAddrs
    <2> QED BY <1>2, <2>1, FiniteValues
<1> QED BY <1>1, <1>3 DEF BlockAddrs

LEMMA SupersFinite ==
    /\ IsFiniteSet({sb \in SuperAddrs : sb < DeviceSize})
    /\ {sb \in SuperAddrs : sb < DeviceSize} \in SUBSET Nat
<1>1. {sb \in SuperAddrs : sb < DeviceSize} \subseteq 0 .. DeviceSize - 1
    <2> SUFFICES ASSUME NEW sb \in SuperAddrs, sb < DeviceSize
                 PROVE  sb \in 0 .. DeviceSize - 1
        BY Zenon
    <2> QED OBVIOUS
<1>2. IsFiniteSet(0 .. DeviceSize - 1)
    BY FS_Interval
<1> QED BY <1>1, <1>2, FS_Subset

LEMMA QueuesNext ==
    ASSUME TypeOK, StepPhase, Queues, BlocksSized, [ConvNext]_<<vars, cvars>>
    PROVE  Queues'
<1>0. UNCHANGED files => files' \in Seq(ConvertedFiles)
    BY DEF Queues
<1>1. CASE /\ step' \notin {"files", "blocks", "supers"} /\ UNCHANGED files
    BY <1>0, <1>1 DEF Queues
<1>2. CASE Scan
    <2>1. step' \notin {"files", "blocks", "supers"} /\ UNCHANGED files
        BY <1>2 DEF Scan, cvars
    <2> QED BY <1>1, <2>1
<1>3. CASE ParseDataBitmap
    BY <1>1, <1>3, ParseDataBitmapShape
<1>4. CASE ProtectCluster
    BY <1>1, <1>4, ProtectClusterShape
<1>5. CASE CalcUsedSpace
    BY <1>0, <1>5, CalcUsedSpaceShape DEF Queues
<1>16. CASE SplitRuns
    <2>1. step = "files" /\ UNCHANGED <<step, todo, files>>
        BY <1>16, SplitRunsShape
    <2> QED BY <1>0, <2>1 DEF Queues
<1>6. CASE MapFile \/ WriteData
    <2>1. step = "files" /\ step' = "files" /\ UNCHANGED files /\ todo # <<>> /\ todo' = Tail(todo)
        BY <1>6 DEF MapFile, WriteData
    <2>2. todo' \in Seq(ConvertedFiles)
        BY <2>1, HeadAndTail DEF Queues
    <2> QED BY <1>0, <2>1, <2>2 DEF Queues
<1>7. CASE CreateImage \/ CreateDataExtentItems \/ JoinRun
    <2>1. step' \notin {"files", "blocks", "supers"} /\ UNCHANGED files
        BY <1>7, InMemoryShape DEF InMemory
    <2> QED BY <1>1, <2>1
<1>8. CASE CalcChecksums
    BY <1>1, <1>8, CalcChecksumsShape
<1>9. CASE LayOutBlock
    BY <1>1, <1>9, LayOutBlockShape
<1>10. CASE LayoutDone
    <2>1. /\ step' = "blocks" /\ UNCHANGED <<files, allocated>>
          /\ todo' = Ascending(BlockAddrs)
        BY <1>10 DEF LayoutDone, BlockAddrs, vars
    <2>2. Ascending(BlockAddrs) \in Seq(BlockAddrs)
        BY BlockAddrsFinite, AscendingIn
    <2>3. BlockAddrs' = BlockAddrs
        BY <2>1 DEF BlockAddrs, Blocks
    <2> QED BY <1>0, <2>1, <2>2, <2>3 DEF Queues, BlockAddrs
<1>11. CASE WriteTrees
    <2>1. /\ step = "blocks" /\ step' = "blocks" /\ UNCHANGED <<files, allocated>>
          /\ todo # <<>> /\ todo' = Tail(todo)
        BY <1>11 DEF WriteTrees, vars
    <2>2. todo \in Seq(BlockAddrs)
        BY <2>1 DEF Queues, BlockAddrs
    <2>3. todo' \in Seq(BlockAddrs)
        BY <2>1, <2>2, HeadAndTail
    <2>4. BlockAddrs' = BlockAddrs
        BY <2>1 DEF BlockAddrs, Blocks
    <2> QED BY <1>0, <2>1, <2>3, <2>4 DEF Queues, BlockAddrs
<1>12. CASE TreesWritten
    <2>1. /\ step' = "supers" /\ UNCHANGED files
          /\ todo' = Ascending({sb \in SuperAddrs : sb < DeviceSize})
        BY <1>12 DEF TreesWritten
    <2>2. todo' \in Seq({sb \in SuperAddrs : sb < DeviceSize})
        BY <2>1, SupersFinite, AscendingIn
    <2> QED BY <1>0, <2>1, <2>2 DEF Queues
<1>13. CASE WriteSuperblock
    <2>1. /\ step = "supers" /\ step' = "supers" /\ UNCHANGED files
          /\ todo # <<>> /\ todo' = Tail(todo)
        BY <1>13 DEF WriteSuperblock
    <2>2. todo' \in Seq({sb \in SuperAddrs : sb < DeviceSize})
        BY <2>1, HeadAndTail DEF Queues
    <2> QED BY <1>0, <2>1, <2>2 DEF Queues
<1>14. CASE ClearFirstCluster
    BY <1>1, <1>14 DEF ClearFirstCluster
<1>15. CASE UNCHANGED <<vars, cvars>>
    <2>1. UNCHANGED <<files, step, todo, allocated>>
        BY <1>15 DEF vars, cvars
    <2>2. Blocks' = Blocks
        BY <2>1 DEF Blocks
    <2> QED BY <2>1, <2>2 DEF Queues
<1> QED BY <1>2, <1>3, <1>4, <1>5, <1>6, <1>7, <1>8, <1>9, <1>10, <1>11, <1>12, <1>13,
           <1>14, <1>15, <1>16 DEF ConvNext

\* The device stays as it is, and nothing that was granted is forgotten.
LEMMA UntouchedKept ==
    ASSUME OnlyGrantedWritten, UNCHANGED disk, Granted \subseteq Granted',
           step \notin {"supers", "done"} \/ step' = step
    PROVE  OnlyGrantedWritten'
BY DEF OnlyGrantedWritten

\* What is written is granted: either before or in the same step.
LEMMA GrantedWriteKept ==
    ASSUME OnlyGrantedWritten, NEW addr \in Nat, NEW n \in Nat, NEW content,
           DOMAIN content \subseteq 0 .. n - 1, disk' = Written(addr, content),
           Granted \subseteq Granted', Extent(addr, n) \subseteq Granted', step' = step
    PROVE  OnlyGrantedWritten'
<1>1. /\ DOMAIN disk' = DOMAIN disk
      /\ \A u \in DOMAIN disk : u \notin Extent(addr, n) => disk'[u] = disk[u]
    BY WrittenWithin DEF OnlyGrantedWritten
<1>2. \A u \in DOMAIN disk : u \notin Granted' => u \notin Granted /\ disk'[u] = disk[u]
    BY <1>1
<1> QED BY <1>1, <1>2 DEF OnlyGrantedWritten

\* A call of an allocator and the write to what it returned.
LEMMA CallWriteKept ==
    ASSUME IInv, GrantedAbove, OnlyGrantedWritten, step' = step,
           NEW type, NEW size, NEW length \in Nat, NEW counted,
           AllocatorCall(type, size, length, counted),
           \/ UNCHANGED disk
           \/ /\ phase' # "failed"
              /\ \E content : /\ DOMAIN content \subseteq 0 .. length - 1
                              /\ disk' = Written(Returned, content)
    PROVE  OnlyGrantedWritten'
<1>1. \/ phase' = "failed" /\ allocated' = allocated
      \/ /\ Returned \in Nat
         /\ Granted' = Granted \cup Extent(Returned, length)
    BY CallReturns
<1>2. Granted \subseteq Granted'
    BY <1>1 DEF Granted
<1>3. CASE UNCHANGED disk
    BY <1>2, <1>3, UntouchedKept
<1>4. CASE /\ phase' # "failed"
           /\ \E content : /\ DOMAIN content \subseteq 0 .. length - 1
                           /\ disk' = Written(Returned, content)
    <2>1. PICK content : /\ DOMAIN content \subseteq 0 .. length - 1
                         /\ disk' = Written(Returned, content)
        BY <1>4
    <2>2. Returned \in Nat /\ Extent(Returned, length) \subseteq Granted'
        BY <1>1, <1>4
    <2> DEFINE addr == Returned
    <2>3. addr \in Nat /\ Extent(addr, length) \subseteq Granted' /\ disk' = Written(addr, content)
        BY <2>1, <2>2
    <2> HIDE DEF addr
    <2> QED BY <1>2, <2>1, <2>3, GrantedWriteKept
<1> QED BY <1>3, <1>4

LEMMA BlockGranted ==
    ASSUME TypeOK, BlocksSized, NEW addr \in BlockAddrs
    PROVE  addr \in Nat /\ TreeSize \in Nat /\ Extent(addr, TreeSize) \subseteq Granted
<1>1. PICK a \in Blocks : addr = a.addr
    BY DEF BlockAddrs
<1>2. a \in allocated /\ a.length = TreeSize
    BY DEF Blocks, BlocksSized
<1>3. Extent(a.addr, a.length) \subseteq Granted
    BY <1>2 DEF Granted
<1> QED BY <1>1, <1>2, <1>3 DEF TypeOK

LEMMA SuperblockWriteKept ==
    ASSUME OnlyGrantedWritten, Queues, WriteSuperblock
    PROVE  OnlyGrantedWritten'
<1> DEFINE sb == Head(todo)
           content == [i \in {0} |-> Super]
<1>1. /\ step = "supers" /\ step' = "supers" /\ todo # <<>> /\ UNCHANGED allocated
      /\ disk' = Written(sb, content)
    BY DEF WriteSuperblock, vars
<1>2. sb \in SuperAddrs /\ sb \in Nat
    BY <1>1, HeadAndTail DEF Queues
<1>3. DOMAIN content \subseteq 0 .. 1 - 1 /\ 1 \in Nat
    OBVIOUS
<1> HIDE DEF sb, content
<1>4. /\ DOMAIN disk' = DOMAIN disk
      /\ \A u \in DOMAIN disk : u \notin Extent(sb, 1) => disk'[u] = disk[u]
    BY <1>1, <1>2, <1>3, WrittenWithin DEF OnlyGrantedWritten
<1>5. \A u : u \in Extent(sb, 1) => u = sb
    BY <1>2 DEF Extent
<1>6. Granted' = Granted
    BY <1>1 DEF Granted
<1> QED BY <1>1, <1>2, <1>4, <1>5, <1>6 DEF OnlyGrantedWritten

LEMMA ClearFirstClusterKept ==
    ASSUME OnlyGrantedWritten, ClearFirstCluster
    PROVE  OnlyGrantedWritten'
<1> DEFINE content == [i \in 0 .. ClusterSize - 1 |-> Zero]
<1>1. /\ step = "supers" /\ step' = "done" /\ UNCHANGED allocated
      /\ disk' = Written(0, content)
    BY DEF ClearFirstCluster, vars
<1>2. DOMAIN content \subseteq 0 .. ClusterSize - 1 /\ 0 \in Nat /\ ClusterSize \in Nat
    OBVIOUS
<1> HIDE DEF content
<1>3. /\ DOMAIN disk' = DOMAIN disk /\ DOMAIN disk = 0 .. OrigSize - 1
      /\ \A u \in DOMAIN disk : u \notin Extent(0, ClusterSize) => disk'[u] = disk[u]
    BY <1>1, <1>2, WrittenWithin DEF OnlyGrantedWritten
<1>4. \A u \in DOMAIN disk : u \in Extent(0, ClusterSize) => u < ClusterSize
    BY DEF Extent
<1>5. Granted' = Granted
    BY <1>1 DEF Granted
<1>6. \A u \in DOMAIN disk :
          \/ u \in Extent(0, ClusterSize)
          \/ disk'[u] = Ntfs(u) \/ u \in Granted \/ u \in SuperAddrs
    BY <1>1, <1>3 DEF OnlyGrantedWritten
<1> QED BY <1>1, <1>3, <1>4, <1>5, <1>6 DEF OnlyGrantedWritten

LEMMA OnlyGrantedNext ==
    ASSUME ConvInv, [ConvNext]_<<vars, cvars>>
    PROVE  OnlyGrantedWritten'
<1>0. /\ IInv /\ TypeOK /\ GrantedAbove /\ StepPhase /\ Queues /\ BlocksSized
      /\ OnlyGrantedWritten
    BY DEF ConvInv, IInv
<1>1. CASE /\ UNCHANGED <<disk, allocated>>
           /\ step \notin {"supers", "done"} \/ step' = step
    <2>1. Granted' = Granted
        BY <1>1 DEF Granted
    <2> QED BY <1>0, <1>1, <2>1, UntouchedKept
<1>2. CASE Scan
    BY <1>1, <1>2 DEF Scan, ScanSegment, cvars
<1>3. CASE ParseDataBitmap
    <2>1. UNCHANGED <<disk, allocated>> /\ step = "scan"
        BY <1>3 DEF ParseDataBitmap, NextPhase
    <2> QED BY <1>1, <2>1
<1>4. CASE ProtectCluster
    <2>1. CASE UNCHANGED <<vars, disk>>
        BY <1>0, <1>1, <1>4, <2>1, ProtectClusterShape DEF vars
    <2>2. CASE AllocatorCall("data", DataChunkSize, ClusterSize, FALSE)
        <3>1. \/ UNCHANGED disk
              \/ /\ phase' # "failed"
                 /\ \E content : /\ DOMAIN content \subseteq 0 .. ClusterSize - 1
                                 /\ disk' = Written(Returned, content)
            BY <1>0, <1>4, ProtectClusterShape
        <3>2. step' = step /\ ClusterSize \in Nat
            BY <1>0, <1>4, ProtectClusterShape
        <3> QED BY <1>0, <2>2, <3>1, <3>2, CallWriteKept
    <2> QED BY <1>0, <1>4, <2>1, <2>2, ProtectClusterShape
<1>5. CASE CalcUsedSpace \/ SplitRuns \/ MapFile \/ CalcChecksums
    <2>1. /\ Quiet /\ UNCHANGED disk /\ step \in {"protect", "files", "csums"}
        BY <1>0, <1>5, CalcUsedSpaceShape, SplitRunsShape, MapFileShape, CalcChecksumsShape
    <2>2. UNCHANGED allocated
        BY <2>1 DEF Quiet, ChunksKept
    <2> QED BY <1>1, <2>1, <2>2
<1>6. CASE WriteData
    <2>1. PICK f \in ConvertedFiles :
              /\ AllocatorCall("data", DataChunkSize, f.length, TRUE) /\ f.length \in Nat
              /\ \/ phase' = "failed" /\ UNCHANGED disk
                 \/ /\ phase' # "failed"
                    /\ \E content : /\ DOMAIN content \subseteq 0 .. f.length - 1
                                    /\ disk' = Written(Returned, content)
        BY <1>0, <1>6, WriteDataShape
    <2>2. step' = step
        BY <1>0, <1>6, WriteDataShape
    <2> QED BY <1>0, <2>1, <2>2, CallWriteKept
<1>7. CASE CreateImage \/ CreateDataExtentItems \/ JoinRun
    <2>1. UNCHANGED <<disk, allocated>> /\ step \in {"files", "extents", "csums"}
        BY <1>7, InMemoryShape DEF InMemory, vars
    <2> QED BY <1>1, <2>1
<1>8. CASE LayOutBlock
    <2>1. /\ UNCHANGED disk /\ step' = step /\ TreeSize \in Nat
          /\ \/ AllocatorCall("system", SystemChunkSize, TreeSize, TRUE)
             \/ AllocatorCall("metadata", DataChunkSize, TreeSize, TRUE)
        BY <1>0, <1>8, LayOutBlockShape
    <2> QED BY <1>0, <2>1, CallWriteKept
<1>9. CASE LayoutDone
    BY <1>1, <1>9 DEF LayoutDone, vars
<1>10. CASE WriteTrees
    <2> DEFINE addr == Head(todo)
               content == [i \in 0 .. TreeSize - 1 |-> Tree]
    <2>1. /\ step = "blocks" /\ step' = step /\ todo # <<>> /\ UNCHANGED allocated
          /\ disk' = Written(addr, content)
        BY <1>10 DEF WriteTrees, vars
    <2>2. addr \in BlockAddrs
        BY <1>0, <2>1, HeadAndTail DEF Queues, BlockAddrs
    <2>3. DOMAIN content \subseteq 0 .. TreeSize - 1
        OBVIOUS
    <2>4. Granted' = Granted
        BY <2>1 DEF Granted
    <2> HIDE DEF addr, content
    <2>5. addr \in Nat /\ TreeSize \in Nat /\ Extent(addr, TreeSize) \subseteq Granted
        BY <1>0, <2>2, BlockGranted
    <2> QED BY <1>0, <2>1, <2>3, <2>4, <2>5, GrantedWriteKept
<1>11. CASE TreesWritten
    BY <1>1, <1>11 DEF TreesWritten, vars
<1>12. CASE WriteSuperblock
    BY <1>0, <1>12, SuperblockWriteKept
<1>13. CASE ClearFirstCluster
    BY <1>0, <1>13, ClearFirstClusterKept
<1>14. CASE UNCHANGED <<vars, cvars>>
    BY <1>1, <1>14 DEF vars, cvars
<1> QED BY <1>2, <1>3, <1>4, <1>5, <1>6, <1>7, <1>8, <1>9, <1>10, <1>11, <1>12, <1>13, <1>14
        DEF ConvNext

LEMMA ConvStep == ConvInv /\ [ConvNext]_<<vars, cvars>> => ConvInv'
<1> SUFFICES ASSUME ConvInv, [ConvNext]_<<vars, cvars>> PROVE ConvInv'
    OBVIOUS
<1>1. /\ IInv /\ TypeOK /\ GrantedAbove /\ StepPhase /\ Queues /\ BlocksSized
      /\ OnlyGrantedWritten
    BY DEF ConvInv, IInv
<1>2. IInv' /\ GrantedAbove'
    BY <1>1, ConvIInv
<1>3. StepPhase' /\ Queues'
    BY <1>1, StepPhaseNext, QueuesNext
<1>4. BlocksSized' /\ OnlyGrantedWritten'
    BY <1>1, BlocksSizedNext, OnlyGrantedNext
<1> QED BY <1>2, <1>3, <1>4 DEF ConvInv

\* Throughout a conversion nothing is written but to space that an allocator returned,
\* to the superblocks and to the first cluster, in this order.
THEOREM ConversionInvariant == ConvSpec => []ConvInv
<1> QED BY InitConv, ConvStep, PTL DEF ConvSpec

\* Until the superblocks are written, wherever the program is killed or gives up, every
\* cluster in use that the scan of the bitmap locates holds what NTFS has there.
THEOREM LocatedClustersKept ==
    ConvSpec => [](step \notin {"supers", "done"} =>
                      \A u \in ClusterSpace(Located) \cap DOMAIN disk : disk[u] = Ntfs(u))
<1>1. ConvInv => (step \notin {"supers", "done"} =>
                      \A u \in ClusterSpace(Located) \cap DOMAIN disk : disk[u] = Ntfs(u))
    <2> SUFFICES ASSUME ConvInv PROVE
                     step \notin {"supers", "done"} =>
                      \A u \in ClusterSpace(Located) \cap DOMAIN disk : disk[u] = Ntfs(u)
        OBVIOUS
    <2>1. IInv /\ OnlyGrantedWritten
        BY DEF ConvInv
    <2>2. Granted \cap ClusterSpace(Located) = {}
        BY <2>1, LocatedNotGranted DEF NoOverwrite
    <2> QED BY <2>1, <2>2 DEF OnlyGrantedWritten
<1> QED BY <1>1, ConversionInvariant, PTL

-----------------------------------------------------------------------------
(* The two file systems. *)

\* The device ends with a whole sector.
WholeSectors == OrigSize = DeviceSize

\* The first superblock lies in the area that is reserved.
SuperblockReserved == \E sb \in SuperAddrs : sb < Reserved

\* Writes to granted space leave NTFS whole.
LEMMA GrantedWritesSpareNtfs ==
    ASSUME WholeWords, ClusterBitmaps, WholeSectors, IInv, OnlyGrantedWritten,
           \A u \in DOMAIN disk : disk[u] = Ntfs(u) \/ u \in Granted
    PROVE  NtfsWhole
<1>1. TypeOK
    BY DEF IInv
<1>2. Granted \cap ClusterSpace(Located) = {}
    BY LocatedNotGranted DEF NoOverwrite
<1>3. ASSUME NEW u \in NtfsUnits PROVE u \in ClusterSpace(Located)
    <2>1. PICK c \in in_use : u \in Extent(c, ClusterSize)
        BY DEF NtfsUnits, ClusterSpace
    <2>2. u \in 0 .. DeviceSize - 1
        BY DEF NtfsUnits, OnlyGrantedWritten, WholeSectors
    <2>3. c < DeviceSize
        BY <1>1, <2>1, <2>2 DEF Extent, TypeOK
    <2>4. PICK s \in 0 .. DeviceSize : Base(s) < DeviceSize /\ c \in LocatedIn(s)
        BY <1>1, <2>3, AllLocated
    <2> QED BY <2>1, <2>4 DEF Located, ClusterSpace
<1>4. \A u \in NtfsUnits : u \in DOMAIN disk
    BY DEF NtfsUnits
<1> QED BY <1>2, <1>3, <1>4 DEF NtfsWhole

LEMMA NtfsUntouched ==
    ASSUME WholeWords, ClusterBitmaps, WholeSectors, ConvInv, step \notin {"supers", "done"}
    PROVE  NtfsWhole
BY GrantedWritesSpareNtfs DEF ConvInv, OnlyGrantedWritten

LEMMA PrimaryIsReserved ==
    ASSUME SuperblockReserved
    PROVE  PrimarySuper \in SuperAddrs /\ PrimarySuper \in Nat /\ PrimarySuper < Reserved
<1>1. PICK sb \in SuperAddrs : sb < Reserved
    BY DEF SuperblockReserved
<1>2. SuperAddrs \in SUBSET Nat /\ SuperAddrs # {}
    BY <1>1
<1>3. \E least \in SuperAddrs : \A other \in SuperAddrs : least <= other
    BY <1>2, LeastNatural
<1>4. PrimarySuper \in SuperAddrs /\ \A other \in SuperAddrs : PrimarySuper <= other
    BY <1>3, Zenon DEF PrimarySuper
<1> QED BY <1>1, <1>4

LEMMA PrimaryUntouched ==
    ASSUME SuperblockReserved, ConvInv, step \notin {"supers", "done"}
    PROVE  disk[PrimarySuper] # Super
<1>1. GrantedAbove /\ OnlyGrantedWritten
    BY DEF ConvInv
<1>2. PrimarySuper \in Nat /\ PrimarySuper < Reserved
    BY PrimaryIsReserved
<1> DEFINE p == PrimarySuper
<1>3. p \in Nat /\ p < Reserved
    BY <1>2
<1> HIDE DEF p
<1>4. p \in DOMAIN disk
    BY <1>1, <1>3, ConversionAssumption DEF OnlyGrantedWritten
<1>5. p \notin Granted
    BY <1>1, <1>3 DEF GrantedAbove
<1>6. disk[p] = Ntfs(p)
    BY <1>1, <1>4, <1>5 DEF OnlyGrantedWritten
<1>7. disk[p] # Super
    BY <1>6 DEF Ntfs, Super
<1> QED BY <1>7 DEF p

LEMMA NotYetBtrfs ==
    ASSUME SuperblockReserved, ConvInv, step \notin {"supers", "done"}
    PROVE  ~ BtrfsWhole
BY PrimaryUntouched DEF BtrfsWhole

\* Until the superblocks are written the volume is the NTFS volume it was, to the last
\* cluster in use; and it stays so if the program gives up.
THEOREM NtfsUntilTheSuperblocks ==
    ASSUME WholeWords, ClusterBitmaps, WholeSectors, SuperblockReserved
    PROVE  ConvSpec => []((step \notin {"supers", "done"} \/ phase = "failed")
                             => Volume = "ntfs")
<1>1. ConvInv => ((step \notin {"supers", "done"} \/ phase = "failed") => Volume = "ntfs")
    <2> SUFFICES ASSUME ConvInv, step \notin {"supers", "done"} \/ phase = "failed"
                 PROVE  Volume = "ntfs"
        OBVIOUS
    <2>1. step \notin {"supers", "done"}
        BY DEF ConvInv, StepPhase
    <2> QED BY <2>1, NtfsUntouched, NotYetBtrfs DEF Volume
<1> QED BY <1>1, ConversionInvariant, PTL

-----------------------------------------------------------------------------
(* The first superblock: what is in place when it is written, and what is  *)
(* untouched until then.                                                   *)

\* The first cluster, which is cleared, ends before the first superblock.
FirstClusterShort == \A sb \in SuperAddrs : ClusterSize <= sb

LEMMA ConvGeometry ==
    ASSUME WholeStripes, GeometryInv, GrantedAbove, StepPhase, Queues,
           [ConvNext]_<<vars, cvars>>
    PROVE  GeometryInv'
<1>1. IInv
    BY DEF GeometryInv
<1>2. IInv'
    BY <1>1, ConvIInv
<1> QED BY <1>1, <1>2, ConvCases, GeometryCases DEF Quiet, Calls

\* A tree block is written, as far as the device goes.
TreeWritten(a) == \A u \in Extent(a.addr, a.length) \cap DOMAIN disk : disk[u] = Tree

TreesFirst ==
    /\ step = "blocks" => \A a \in Blocks :
                             TreeWritten(a) \/ \E i \in DOMAIN todo : todo[i] = a.addr
    /\ step \in {"supers", "done"} => \A a \in Blocks : TreeWritten(a)

\* The first superblock is the first that is written.
FirstSuperblock ==
    /\ step = "supers" =>
          \/ disk[PrimarySuper] = Super
          \/ /\ todo # <<>> /\ Head(todo) = PrimarySuper
             /\ \A u \in DOMAIN disk : disk[u] = Ntfs(u) \/ u \in Granted
    /\ step = "done" => disk[PrimarySuper] = Super

SwitchInv == ConvInv /\ GeometryInv /\ TreesFirst /\ FirstSuperblock

LEMMA LateSteps ==
    ASSUME StepPhase, Queues, [ConvNext]_<<vars, cvars>>, step' \in {"blocks", "supers", "done"}
    PROVE  /\ UNCHANGED allocated
           /\ \/ LayoutDone \/ WriteTrees \/ TreesWritten \/ WriteSuperblock
              \/ ClearFirstCluster \/ UNCHANGED <<vars, cvars>>
<1>1. CASE Scan
    <2>1. step' = "scan"
        BY <1>1 DEF Scan, cvars
    <2> QED BY <2>1
<1>2. CASE ParseDataBitmap \/ CalcUsedSpace \/ CalcChecksums
    BY <1>2, ParseDataBitmapShape, CalcUsedSpaceShape, CalcChecksumsShape
<1>3. CASE ProtectCluster \/ WriteData
    <2>1. step' \in {"protect", "files"}
        BY <1>3, ProtectClusterShape, WriteDataShape
    <2> QED BY <2>1
<1>4. CASE SplitRuns \/ MapFile
    <2>1. step' = "files"
        BY <1>4, SplitRunsShape, MapFileShape
    <2> QED BY <2>1
<1>5. CASE CreateImage \/ CreateDataExtentItems \/ JoinRun
    BY <1>5, InMemoryShape DEF InMemory
<1>6. CASE LayOutBlock
    <2>1. step' = "trees"
        BY <1>6, LayOutBlockShape
    <2> QED BY <2>1
<1>7. CASE LayoutDone \/ WriteTrees \/ TreesWritten \/ WriteSuperblock \/ ClearFirstCluster
    BY <1>7
    DEF LayoutDone, WriteTrees, TreesWritten, WriteSuperblock, ClearFirstCluster, vars
<1>8. CASE UNCHANGED <<vars, cvars>>
    BY <1>8 DEF vars
<1> QED BY <1>1, <1>2, <1>3, <1>4, <1>5, <1>6, <1>7, <1>8 DEF ConvNext

LEMMA TreeStays ==
    ASSUME NEW a, TreeWritten(a), DOMAIN disk' = DOMAIN disk,
           \A u \in Extent(a.addr, a.length) \cap DOMAIN disk :
              disk'[u] = disk[u] \/ disk'[u] = Tree
    PROVE  TreeWritten(a)'
BY DEF TreeWritten

\* Neither a superblock nor the first cluster is part of a block.
LEMMA SuperblockOutside ==
    ASSUME TypeOK, AvoidsSuperblocks, NEW a \in Blocks, NEW sb \in SuperAddrs, sb < DeviceSize
    PROVE  sb \notin Extent(a.addr, a.length)
<1>1. sb \in Extent(sb, StripeLen) /\ sb \in Extent(0, DeviceSize)
    BY DEF Extent
<1>2. sb \in SuperSpace(0, DeviceSize)
    BY <1>1 DEF SuperSpace
<1>3. Extent(a.addr, a.length) \subseteq Granted
    BY DEF Blocks, Granted
<1> QED BY <1>2, <1>3 DEF AvoidsSuperblocks

LEMMA FirstClusterOutside ==
    ASSUME GrantedAbove, SuperblockReserved, FirstClusterShort, NEW a \in Blocks,
           NEW u \in Extent(a.addr, a.length), TypeOK
    PROVE  u \notin Extent(0, ClusterSize)
<1>1. ClusterSize <= PrimarySuper /\ PrimarySuper \in Nat /\ PrimarySuper < Reserved
    BY PrimaryIsReserved DEF FirstClusterShort
<1>2. u \in Granted
    BY DEF Blocks, Granted
<1>3. u >= Reserved
    BY <1>2 DEF GrantedAbove
<1> QED BY <1>1, <1>3 DEF Extent

LEMMA WriteTreesKeeps ==
    ASSUME TypeOK, Queues, BlocksSized, OnlyGrantedWritten, TreesFirst, WriteTrees
    PROVE  TreesFirst'
<1> DEFINE addr == Head(todo)
           content == [i \in 0 .. TreeSize - 1 |-> Tree]
<1>1. /\ step = "blocks" /\ step' = "blocks" /\ todo # <<>> /\ todo' = Tail(todo)
      /\ Blocks' = Blocks /\ disk' = Written(addr, content)
    BY DEF WriteTrees, vars, Blocks
<1>2. todo \in Seq(BlockAddrs)
    BY <1>1 DEF Queues, BlockAddrs
<1>3. addr \in Nat
    BY <1>1, <1>2, HeadAndTail, BlockGranted
<1>4. DOMAIN content = 0 .. TreeSize - 1 /\ \A i \in DOMAIN content : content[i] = Tree
    OBVIOUS
<1>5. /\ DOMAIN disk' = DOMAIN disk
      /\ \A u \in DOMAIN disk : IF u - addr \in 0 .. TreeSize - 1 THEN disk'[u] = Tree
                                ELSE disk'[u] = disk[u]
    BY <1>1, <1>4, WrittenUnits
<1>6. addr = todo[1] /\ DOMAIN todo = 1 .. Len(todo) /\ Len(todo) \in Nat
      /\ \A i \in DOMAIN todo : i = 1 \/ (i - 1 \in DOMAIN todo' /\ todo'[i - 1] = todo[i])
    BY <1>1, <1>2
<1> HIDE DEF addr, content
<1>7. ASSUME NEW a \in Blocks
      PROVE  TreeWritten(a)' \/ \E i \in DOMAIN todo' : todo'[i] = a.addr
    <2>1. CASE TreeWritten(a)
        BY <1>5, <2>1, TreeStays
    <2>2. CASE addr = a.addr
        <3>1. a.length = TreeSize
            BY DEF BlocksSized
        <3>2. \A u \in Extent(a.addr, a.length) : u - addr \in 0 .. TreeSize - 1
            BY <1>3, <2>2, <3>1 DEF Extent
        <3>3. \A u \in Extent(a.addr, a.length) \cap DOMAIN disk : disk'[u] = Tree
            BY <1>5, <3>2
        <3> QED BY <1>5, <3>3 DEF TreeWritten
    <2>3. CASE \E i \in DOMAIN todo : todo[i] = a.addr
        <3>1. PICK i \in DOMAIN todo : todo[i] = a.addr
            BY <2>3
        <3>2. CASE i = 1
            BY <1>6, <2>2, <3>1, <3>2
        <3>3. CASE i # 1
            <4>1. i - 1 \in DOMAIN todo' /\ todo'[i - 1] = a.addr
                BY <1>6, <3>1, <3>3
            <4> QED BY <4>1
        <3> QED BY <3>2, <3>3
    <2> QED BY <1>1, <2>1, <2>3 DEF TreesFirst
<1> QED BY <1>1, <1>7 DEF TreesFirst

LEMMA TreesFirstNext ==
    ASSUME SuperblockReserved, FirstClusterShort, SwitchInv, [ConvNext]_<<vars, cvars>>
    PROVE  TreesFirst'
<1>1. /\ TypeOK /\ AvoidsSuperblocks /\ GrantedAbove /\ StepPhase /\ Queues /\ BlocksSized
      /\ OnlyGrantedWritten /\ TreesFirst
    BY DEF SwitchInv, ConvInv, IInv, GeometryInv
<1>2. CASE step' \notin {"blocks", "supers", "done"}
    BY <1>2 DEF TreesFirst
<1>3. CASE step' \in {"blocks", "supers", "done"}
    <2>1. Blocks' = Blocks
        BY <1>1, <1>3, LateSteps DEF Blocks
    <2>2. CASE LayoutDone
        <3>1. step' = "blocks" /\ todo' = Ascending(BlockAddrs)
            BY <2>2 DEF LayoutDone, BlockAddrs
        <3>2. \A addr \in BlockAddrs : \E i \in DOMAIN todo' : todo'[i] = addr
            BY <1>1, <3>1, BlockAddrsFinite, AscendingIn
        <3> QED BY <2>1, <3>1, <3>2 DEF TreesFirst, BlockAddrs
    <2>3. CASE WriteTrees
        BY <1>1, <2>3, WriteTreesKeeps
    <2>4. CASE TreesWritten
        <3>1. /\ step = "blocks" /\ step' = "supers" /\ todo = <<>> /\ UNCHANGED disk
            BY <2>4 DEF TreesWritten
        <3>2. \A a \in Blocks : TreeWritten(a)
            BY <1>1, <3>1 DEF TreesFirst
        <3>3. \A a \in Blocks : TreeWritten(a)'
            BY <3>1, <3>2 DEF TreeWritten
        <3> QED BY <2>1, <3>1, <3>3 DEF TreesFirst
    <2>5. CASE WriteSuperblock
        <3> DEFINE sb == Head(todo)
                   content == [i \in {0} |-> Super]
        <3>1. step = "supers" /\ step' = "supers" /\ todo # <<>> /\ disk' = Written(sb, content)
            BY <2>5 DEF WriteSuperblock
        <3>2. sb \in SuperAddrs /\ sb < DeviceSize /\ sb \in Nat
            <4> DEFINE S == {x \in SuperAddrs : x < DeviceSize}
            <4>1. todo \in Seq(S)
                BY <1>1, <3>1 DEF Queues
            <4> HIDE DEF S
            <4>2. sb \in S
                BY <3>1, <4>1, HeadAndTail
            <4> QED BY <4>2 DEF S
        <3>3. DOMAIN content \subseteq 0 .. 1 - 1 /\ 1 \in Nat
            OBVIOUS
        <3> HIDE DEF sb, content
        <3>4. /\ DOMAIN disk' = DOMAIN disk
              /\ \A u \in DOMAIN disk : u \notin Extent(sb, 1) => disk'[u] = disk[u]
            BY <1>1, <3>1, <3>2, <3>3, WrittenWithin DEF OnlyGrantedWritten
        <3>5. \A u : u \in Extent(sb, 1) => u = sb
            BY <3>2 DEF Extent
        <3>6. ASSUME NEW a \in Blocks PROVE TreeWritten(a)'
            <4>1. TreeWritten(a)
                BY <1>1, <3>1 DEF TreesFirst
            <4>2. sb \notin Extent(a.addr, a.length)
                BY <1>1, <3>2, SuperblockOutside
            <4> QED BY <3>4, <3>5, <4>1, <4>2, TreeStays
        <3> QED BY <2>1, <3>1, <3>6 DEF TreesFirst
    <2>6. CASE ClearFirstCluster
        <3> DEFINE content == [i \in 0 .. ClusterSize - 1 |-> Zero]
        <3>1. step = "supers" /\ step' = "done" /\ disk' = Written(0, content)
            BY <2>6 DEF ClearFirstCluster
        <3>2. DOMAIN content \subseteq 0 .. ClusterSize - 1 /\ 0 \in Nat /\ ClusterSize \in Nat
            OBVIOUS
        <3> HIDE DEF content
        <3>3. /\ DOMAIN disk' = DOMAIN disk
              /\ \A u \in DOMAIN disk : u \notin Extent(0, ClusterSize) => disk'[u] = disk[u]
            BY <1>1, <3>1, <3>2, WrittenWithin DEF OnlyGrantedWritten
        <3>4. ASSUME NEW a \in Blocks PROVE TreeWritten(a)'
            <4>1. TreeWritten(a)
                BY <1>1, <3>1 DEF TreesFirst
            <4>2. \A u \in Extent(a.addr, a.length) : u \notin Extent(0, ClusterSize)
                BY <1>1, FirstClusterOutside
            <4> QED BY <3>3, <4>1, <4>2, TreeStays
        <3> QED BY <2>1, <3>1, <3>4 DEF TreesFirst
    <2>7. CASE UNCHANGED <<vars, cvars>>
        <3>1. UNCHANGED <<step, todo, disk>>
            BY <2>7 DEF cvars
        <3> QED BY <1>1, <2>1, <3>1 DEF TreesFirst, TreeWritten
    <2> QED BY <1>1, <1>3, <2>2, <2>3, <2>4, <2>5, <2>6, <2>7, LateSteps
<1> QED BY <1>2, <1>3

LEMMA FirstSuperblockNext ==
    ASSUME WholeSectors, SuperblockReserved, FirstClusterShort, SwitchInv,
           [ConvNext]_<<vars, cvars>>
    PROVE  FirstSuperblock'
<1>1. /\ StepPhase /\ Queues /\ OnlyGrantedWritten /\ FirstSuperblock
    BY DEF SwitchInv, ConvInv
<1> DEFINE p == PrimarySuper
<1>2. /\ p \in SuperAddrs /\ p \in Nat /\ p < Reserved /\ p < DeviceSize /\ ClusterSize <= p
      /\ \A sb \in SuperAddrs : p <= sb
    <2>1. p \in SuperAddrs /\ p \in Nat /\ p < Reserved
        BY PrimaryIsReserved
    <2>2. \A sb \in SuperAddrs : p <= sb
        <3>1. SuperAddrs \in SUBSET Nat /\ SuperAddrs # {}
            BY <2>1
        <3>2. \E least \in SuperAddrs : \A other \in SuperAddrs : least <= other
            BY <3>1, LeastNatural
        <3> QED BY <3>2, Zenon DEF PrimarySuper
    <2> QED BY <2>1, <2>2 DEF FirstClusterShort
<1>3. p \in DOMAIN disk
    BY <1>1, <1>2, ConversionAssumption DEF OnlyGrantedWritten
<1>4. PrimarySuper' = p
    BY DEF PrimarySuper
<1> HIDE DEF p
<1>5. CASE step' \notin {"supers", "done"}
    BY <1>5 DEF FirstSuperblock
<1>6. CASE step' \in {"supers", "done"}
    <2>1. UNCHANGED allocated /\ Granted' = Granted
        BY <1>1, <1>6, LateSteps DEF Granted
    <2>2. CASE TreesWritten
        <3> DEFINE S == {sb \in SuperAddrs : sb < DeviceSize}
        <3>1. /\ step = "blocks" /\ step' = "supers" /\ UNCHANGED disk /\ todo' = Ascending(S)
            BY <2>2 DEF TreesWritten
        <3>2. p \in S /\ IsFiniteSet(S) /\ S \in SUBSET Nat /\ \A sb \in S : p <= sb
            BY <1>2, SupersFinite
        <3> HIDE DEF S
        <3>3. todo' # <<>> /\ Head(todo') \in S /\ \A sb \in S : Head(todo') <= sb
            BY <3>1, <3>2, AscendingFirst
        <3>4. Head(todo') = p
            <4>1. Head(todo') \in Nat /\ p \in Nat /\ p <= Head(todo') /\ Head(todo') <= p
                BY <1>2, <3>2, <3>3
            <4> QED BY <4>1
        <3>5. \A u \in DOMAIN disk : disk[u] = Ntfs(u) \/ u \in Granted
            BY <1>1, <3>1 DEF OnlyGrantedWritten
        <3> QED BY <1>4, <2>1, <3>1, <3>3, <3>4, <3>5 DEF FirstSuperblock
    <2>3. CASE WriteSuperblock
        <3> DEFINE sb == Head(todo)
                   content == [i \in {0} |-> Super]
        <3>1. step = "supers" /\ step' = "supers" /\ todo # <<>> /\ disk' = Written(sb, content)
            BY <2>3 DEF WriteSuperblock
        <3>2. sb \in Nat
            BY <1>1, <3>1, HeadAndTail DEF Queues
        <3>3. DOMAIN content = {0} /\ content[0] = Super
            OBVIOUS
        <3> HIDE DEF content
        <3>4. disk'[p] = IF p - sb \in {0} THEN content[p - sb] ELSE disk[p]
            BY <1>3, <3>1, <3>3, WrittenUnits
        <3>5. disk[p] = Super \/ sb = p
            BY <1>1, <3>1 DEF FirstSuperblock, p
        <3>6. p - sb = 0 <=> sb = p
            BY <1>2, <3>2
        <3>7. disk'[p] = Super
            BY <3>3, <3>4, <3>5, <3>6
        <3> QED BY <1>4, <3>1, <3>7 DEF FirstSuperblock
    <2>4. CASE ClearFirstCluster
        <3> DEFINE content == [i \in 0 .. ClusterSize - 1 |-> Zero]
        <3>1. /\ step = "supers" /\ todo = <<>> /\ step' = "done" /\ disk' = Written(0, content)
            BY <2>4 DEF ClearFirstCluster
        <3>2. DOMAIN content \subseteq 0 .. ClusterSize - 1 /\ 0 \in Nat /\ ClusterSize \in Nat
            OBVIOUS
        <3> HIDE DEF content
        <3>3. \A u \in DOMAIN disk : u \notin Extent(0, ClusterSize) => disk'[u] = disk[u]
            BY <1>1, <3>1, <3>2, WrittenWithin DEF OnlyGrantedWritten
        <3>4. p \notin Extent(0, ClusterSize)
            BY <1>2 DEF Extent
        <3>5. disk[p] = Super
            BY <1>1, <3>1 DEF FirstSuperblock, p
        <3>6. disk'[p] = Super
            BY <1>3, <3>3, <3>4, <3>5
        <3> QED BY <1>4, <3>1, <3>6 DEF FirstSuperblock
    <2>5. CASE UNCHANGED <<vars, cvars>>
        <3>1. UNCHANGED <<step, todo, disk>>
            BY <2>5 DEF cvars
        <3> QED BY <1>1, <1>4, <2>1, <3>1 DEF FirstSuperblock, p
    <2>6. CASE LayoutDone \/ WriteTrees
        BY <1>6, <2>6 DEF LayoutDone, WriteTrees
    <2> QED BY <1>1, <1>6, <2>2, <2>3, <2>4, <2>5, <2>6, LateSteps
<1> QED BY <1>5, <1>6

LEMMA SwitchStep ==
    ASSUME WholeStripes, WholeSectors, SuperblockReserved, FirstClusterShort, SwitchInv,
           [ConvNext]_<<vars, cvars>>
    PROVE  SwitchInv'
<1>1. GeometryInv /\ GrantedAbove /\ StepPhase /\ Queues /\ ConvInv
    BY DEF SwitchInv, ConvInv
<1>2. ConvInv' /\ GeometryInv'
    BY <1>1, ConvStep, ConvGeometry
<1> QED BY <1>2, TreesFirstNext, FirstSuperblockNext DEF SwitchInv

LEMMA InitSwitch == ConvInit => SwitchInv
<1>1. ConvInit => step = "scan" /\ Init
    BY DEF ConvInit
<1> QED BY <1>1, InitConv, InitGeometry DEF SwitchInv, TreesFirst, FirstSuperblock

\* The first superblock is the one write that matters: until it is written the volume
\* is the NTFS volume it was, to the last cluster in use, and from then on every tree
\* block is in its place.
THEOREM SwitchAtFirstSuperblock ==
    ASSUME WholeStripes, WholeWords, ClusterBitmaps, WholeSectors, SuperblockReserved,
           FirstClusterShort
    PROVE  ConvSpec => [](IF disk[PrimarySuper] = Super
                          THEN \A a \in Blocks : TreeWritten(a)
                          ELSE Volume = "ntfs")
<1>1. SwitchInv => IF disk[PrimarySuper] = Super
                   THEN \A a \in Blocks : TreeWritten(a)
                   ELSE Volume = "ntfs"
    <2> SUFFICES ASSUME SwitchInv
                 PROVE  /\ disk[PrimarySuper] = Super => \A a \in Blocks : TreeWritten(a)
                        /\ disk[PrimarySuper] # Super => Volume = "ntfs"
        BY Zenon
    <2>1. ConvInv /\ IInv /\ TypeOK /\ TreesFirst /\ FirstSuperblock /\ OnlyGrantedWritten
        BY DEF SwitchInv, ConvInv, IInv
    <2>2. CASE step \notin {"supers", "done"}
        <3>1. Volume = "ntfs" /\ ~ BtrfsWhole
            BY <2>1, <2>2, NtfsUntouched, NotYetBtrfs DEF Volume
        <3>2. disk[PrimarySuper] # Super
            BY <2>1, <2>2, PrimaryUntouched
        <3> QED BY <3>1, <3>2
    <2>3. CASE step \in {"supers", "done"}
        <3>1. \A a \in Blocks : TreeWritten(a)
            BY <2>1, <2>3 DEF TreesFirst
        <3>2. ASSUME disk[PrimarySuper] # Super PROVE Volume = "ntfs"
            <4>1. \A u \in DOMAIN disk : disk[u] = Ntfs(u) \/ u \in Granted
                BY <2>1, <2>3, <3>2 DEF FirstSuperblock
            <4>2. NtfsWhole
                BY <2>1, <4>1, GrantedWritesSpareNtfs
            <4>3. ~ BtrfsWhole
                BY <3>2 DEF BtrfsWhole
            <4> QED BY <4>2, <4>3 DEF Volume
        <3> QED BY <3>1, <3>2
    <2> QED BY <2>2, <2>3
<1>2. SwitchInv /\ [ConvNext]_<<vars, cvars>> => SwitchInv'
    BY SwitchStep
<1> QED BY <1>1, <1>2, InitSwitch, PTL DEF ConvSpec

-----------------------------------------------------------------------------
(* Where process_mappings sends clusters. *)

Relocations == [old_start : Nat, new_start : Nat]

\* SentOn, for any sequence of relocations.
Chain(q, k) ==
    LET at[i \in 0 .. Len(q)] ==
            IF i = 0 THEN k
            ELSE IF q[i].old_start = at[i - 1] THEN q[i].new_start ELSE at[i - 1]
    IN  at

\* It is the function its definition says: a function with that equation up to n
\* extends to n + 1.
LEMMA ChainStep ==
    ASSUME NEW q \in Seq(Relocations), NEW k \in Nat
    PROVE  Chain(q, k) = [i \in 0 .. Len(q) |->
                 IF i = 0 THEN k
                 ELSE IF q[i].old_start = Chain(q, k)[i - 1] THEN q[i].new_start
                      ELSE Chain(q, k)[i - 1]]
<1> DEFINE N == Len(q)
           Step(g, i) == IF i = 0 THEN k
                         ELSE IF q[i].old_start = g[i - 1] THEN q[i].new_start ELSE g[i - 1]
           Has(n) == \E g : g = [i \in 0 .. n |-> Step(g, i)]
           Bad == {n \in 0 .. N : ~ Has(n)}
<1>1. N \in Nat
    OBVIOUS
<1> HIDE DEF Has, Step, N
<1>2. Has(0)
    <2> DEFINE g == [i \in 0 .. 0 |-> k]
    <2>1. \A i \in 0 .. 0 : Step(g, i) = k
        BY DEF Step
    <2>2. g = [i \in 0 .. 0 |-> Step(g, i)]
        BY <2>1
    <2> QED BY <2>2, Zenon DEF Has
<1>3. ASSUME NEW n \in Nat, n > 0, Has(n - 1) PROVE Has(n)
    <2>1. PICK g : g = [i \in 0 .. n - 1 |-> Step(g, i)]
        BY <1>3, Zenon DEF Has
    <2> DEFINE h == [i \in 0 .. n |-> IF i = n THEN Step(g, n) ELSE g[i]]
    <2>2. \A i \in 0 .. n : i = 0 \/ h[i - 1] = g[i - 1]
        OBVIOUS
    <2>3. \A i \in 0 .. n : Step(h, i) = Step(g, i)
        BY <2>2 DEF Step
    <2>4. \A i \in 0 .. n - 1 : g[i] = Step(g, i)
        BY <2>1
    <2>5. \A i \in 0 .. n : (IF i = n THEN Step(g, n) ELSE g[i]) = Step(g, i)
        BY <2>4
    <2>6. h = [i \in 0 .. n |-> Step(h, i)]
        BY <2>3, <2>5
    <2> QED BY <2>6, Zenon DEF Has
<1>4. ASSUME Bad # {} PROVE FALSE
    <2>1. Bad \in SUBSET Nat
        BY <1>1
    <2>2. PICK n \in Bad : \A m \in Bad : n <= m
        BY <1>4, <2>1, LeastNatural
    <2>3. n \in 0 .. N /\ ~ Has(n)
        OBVIOUS
    <2>4. n # 0
        BY <2>3, <1>2
    <2>5. n - 1 \in 0 .. N /\ ~(n <= n - 1)
        BY <1>1, <2>3, <2>4
    <2>6. Has(n - 1)
        BY <2>2, <2>5
    <2>7. n \in Nat /\ n > 0
        BY <1>1, <2>3, <2>4
    <2> QED BY <1>3, <2>3, <2>6, <2>7
<1>5. Has(N)
    <2>1. N \in 0 .. N
        BY <1>1
    <2> QED BY <1>4, <2>1
<1>6. Chain(q, k) = CHOOSE g : g = [i \in 0 .. N |-> Step(g, i)]
    BY DEF Chain, N, Step
<1>7. Chain(q, k) = [i \in 0 .. N |-> Step(Chain(q, k), i)]
    BY <1>5, <1>6, Zenon DEF Has
<1> QED BY <1>7 DEF Step, N

LEMMA SentOnStep ==
    ASSUME relocs \in Seq(Relocations), NEW k \in Nat
    PROVE  SentOn(k) = [i \in 0 .. Len(relocs) |->
                 IF i = 0 THEN k
                 ELSE IF relocs[i].old_start = SentOn(k)[i - 1] THEN relocs[i].new_start
                      ELSE SentOn(k)[i - 1]]
<1>1. SentOn(k) = Chain(relocs, k)
    BY DEF SentOn, Chain
<1> QED BY <1>1, ChainStep

LEMMA RedirectedType ==
    ASSUME relocs \in Seq(Relocations), NEW k \in Nat
    PROVE  Redirected(k) \in Nat
<1> DEFINE N == Len(relocs)
           at == SentOn(k)
           Bad == {n \in 0 .. N : at[n] \notin Nat}
<1>1. N \in Nat /\ \A i \in 1 .. N : relocs[i].new_start \in Nat
    <2>1. DOMAIN relocs = 1 .. N /\ N \in Nat /\ \A i \in DOMAIN relocs : relocs[i] \in Relocations
        OBVIOUS
    <2> QED BY <2>1 DEF Relocations
<1>2. \A i \in 0 .. N : at[i] = IF i = 0 THEN k
                                ELSE IF relocs[i].old_start = at[i - 1] THEN relocs[i].new_start
                                ELSE at[i - 1]
    BY SentOnStep
<1> HIDE DEF at, N
<1>3. ASSUME Bad # {} PROVE FALSE
    <2>1. Bad \in SUBSET Nat
        BY <1>1
    <2>2. PICK n \in Bad : \A m \in Bad : n <= m
        BY <1>3, <2>1, LeastNatural
    <2>3. n \in 0 .. N /\ at[n] \notin Nat
        OBVIOUS
    <2>4. n # 0
        BY <1>2, <2>3
    <2>5. n - 1 \in 0 .. N /\ ~ (n <= n - 1) /\ n \in 1 .. N
        BY <1>1, <2>3, <2>4
    <2>6. at[n - 1] \in Nat
        BY <2>2, <2>5
    <2> QED BY <1>1, <1>2, <2>3, <2>4, <2>5, <2>6
<1>4. N \in 0 .. N
    BY <1>1
<1>5. at[N] \in Nat
    BY <1>3, <1>4
<1> QED BY <1>5 DEF at, N, Redirected

\* The pieces of a mapping are runs of clusters, wherever the relocations send them.
LEMMA PieceType ==
    ASSUME relocs \in Seq(Relocations), NEW m \in [vcn : Nat, lcn : Nat, length : Nat \ {0}],
           NEW p \in Pieces(m)
    PROVE  p.vcn \in Nat /\ p.lcn \in Nat /\ p.length \in Nat \ {0}
<1> DEFINE end == m.lcn + m.length
           Starts == {k \in m.lcn .. end - 1 : k = m.lcn \/ Broken(k)}
           Following(k) == CHOOSE e \in Starts \cup {end} :
                              e > k /\ \A d \in Starts : d > k => e <= d
           PieceAt(k) == [vcn |-> m.vcn + k - m.lcn, lcn |-> Redirected(k),
                          length |-> Following(k) - k]
<1>1. m.vcn \in Nat /\ m.lcn \in Nat /\ end \in Nat
    OBVIOUS
<1>2. \A k \in Starts : k \in Nat /\ m.lcn <= k /\ k < end
    BY <1>1
<1>3. m.lcn # 0 /\ Pieces(m) = {PieceAt(k) : k \in Starts}
    <2>1. Pieces(m) = IF m.lcn = 0 THEN {} ELSE {PieceAt(k) : k \in Starts}
        BY DEF Pieces
    <2> QED BY <2>1
<1> HIDE DEF Starts, end
<1>4. PICK k \in Starts : p = PieceAt(k)
    BY <1>3
<1>5. Following(k) \in Nat /\ Following(k) > k
    <2> DEFINE Later == {e \in Starts \cup {end} : e > k}
    <2>1. Later \in SUBSET Nat /\ end \in Later
        BY <1>1, <1>2
    <2>2. PICK e \in Later : \A d \in Later : e <= d
        BY <2>1, LeastNatural
    <2>3. e \in Starts \cup {end} /\ e > k /\ \A d \in Starts : d > k => e <= d
        BY <2>2
    <2>4. Following(k) \in Starts \cup {end} /\ Following(k) > k
        BY <2>3, Zenon
    <2> QED BY <1>1, <1>2, <2>4
<1> HIDE DEF Following
<1>6. m.vcn + k - m.lcn \in Nat /\ Following(k) - k \in Nat \ {0} /\ Redirected(k) \in Nat
    <2>1. k \in Nat /\ m.lcn <= k
        BY <1>2
    <2>2. Redirected(k) \in Nat
        BY <2>1, RedirectedType
    <2> QED BY <1>1, <1>5, <2>1, <2>2
<1> QED BY <1>4, <1>6

-----------------------------------------------------------------------------
\* The scan leaves a chunk, that of the first segment if no other.
ChunksFound == seg > 0 => DOMAIN chunks # {}

LEMMA ScanFindsChunk ==
    ASSUME BootInUse, IInv, ChunksFound, ScanSegment
    PROVE  ChunksFound'
<1>1. CASE seg = 0
    <2>1. UsedClusters(seg) # {}
        BY <1>1, FirstSegmentUsed DEF IInv
    <2>2. Len(chunks) \in Nat /\ DOMAIN chunks' = 1 .. Len(chunks) + 1
        BY <2>1, ScanSegmentShape
    <2>3. 1 \in DOMAIN chunks'
        BY <2>2
    <2> QED BY <2>3 DEF ChunksFound
<1>2. CASE seg > 0
    <2>1. DOMAIN chunks # {}
        BY <1>2 DEF ChunksFound
    <2>2. \/ UNCHANGED chunks
          \/ /\ Len(chunks) \in Nat
             /\ DOMAIN chunks = 1 .. Len(chunks) /\ DOMAIN chunks' = 1 .. Len(chunks) + 1
        BY ScanSegmentShape
    <2>3. DOMAIN chunks' # {}
        <3>1. CASE UNCHANGED chunks
            BY <2>1, <3>1
        <3>2. CASE Len(chunks) \in Nat /\ DOMAIN chunks' = 1 .. Len(chunks) + 1
            <4>1. 1 \in DOMAIN chunks'
                BY <3>2
            <4> QED BY <4>1
        <3> QED BY <2>2, <3>1, <3>2
    <2> QED BY <2>3 DEF ChunksFound
<1> QED BY <1>1, <1>2, ScanSegmentShape

LEMMA CallKeepsChunks ==
    ASSUME IInv, ChunksFound, NEW type, NEW size, NEW length, NEW counted,
           AllocatorCall(type, size, length, counted)
    PROVE  ChunksFound'
<1>1. CASE ChunksKept
    BY <1>1 DEF ChunksKept, ChunksFound
<1>2. ASSUME NEW i \in DOMAIN chunks, NEW addr \in Nat, TakenFrom(i, addr, length, type, counted)
      PROVE  ChunksFound'
    BY <1>2 DEF TakenFrom, ChunksFound
<1>3. ASSUME NEW n \in Nat, NEW start \in Nat, ChunkMade(n, start, size, type)
      PROVE  ChunksFound'
    <2>1. n = Len(chunks) + 1 /\ DOMAIN chunks' = 1 .. n /\ n \in Nat /\ chunks \in Seq(Chunks)
        BY <1>3 DEF ChunkMade, IInv, TypeOK
    <2>2. 1 \in DOMAIN chunks'
        BY <2>1
    <2> QED BY <2>2 DEF ChunksFound
<1> QED BY <1>1, <1>2, <1>3, CallShape

LEMMA WiderSequence ==
    ASSUME NEW S, NEW T, S \subseteq T, NEW q \in Seq(S)
    PROVE  q \in Seq(T)
<1>1. Len(q) \in Nat /\ q \in [1 .. Len(q) -> S]
    OBVIOUS
<1>2. q \in [1 .. Len(q) -> T]
    BY <1>1
<1> QED BY <1>1, <1>2

LEMMA ClustersUpTo ==
    ASSUME NEW a \in Nat, NEW b \in Nat
    PROVE  /\ a .. b \in SUBSET Nat /\ IsFiniteSet(a .. b)
           /\ IsFiniteSet(a .. b - 1) /\ a .. b - 1 \in SUBSET Nat
<1>1. a \in Int /\ b \in Int /\ b - 1 \in Int
    OBVIOUS
<1> QED BY <1>1, FS_Interval

\* What protect_superblocks looks at are clusters, finitely many.
LEMMA ProtectedClusters ==
    ASSUME WholeSectors, TypeOK, DOMAIN chunks # {}
    PROVE  ToProtect \in Seq(Nat)
<1> DEFINE Aligned(sb) == sb - (sb % StripeLen)
           First == CHOOSE sb \in SuperAddrs : \A other \in SuperAddrs : sb <= other
           Mirrors == {sb \in SuperAddrs \ {First} : sb < DeviceSize}
           Clusters(from, to) == (from \div ClusterSize) .. ((to - 1) \div ClusterSize)
           last == chunks[Len(chunks)]
           end == last.start + last.length
           A == UNION {Clusters(Aligned(sb), Aligned(sb) + StripeLen) : sb \in Mirrors}
           B == 0 .. (Reserved \div ClusterSize) - 1
           C == (end \div ClusterSize) .. (DeviceSize \div ClusterSize) - 0
           D == IF end < DeviceSize THEN Ascending(C) ELSE <<>>
<1>1. ToProtect = Ascending(A) \o Ascending(B) \o <<>> \o D
    BY DEF ToProtect, WholeSectors
<1>2. end \in Nat
    <2>1. chunks \in Seq(Chunks) /\ DOMAIN chunks = 1 .. Len(chunks) /\ Len(chunks) \in Nat
        BY DEF TypeOK
    <2>2. Len(chunks) \in DOMAIN chunks
        BY <2>1
    <2>3. last \in Chunks
        BY <2>1, <2>2
    <2> QED BY <2>3 DEF Chunks
<1>3. A \in SUBSET Nat /\ IsFiniteSet(A)
    <2>1. ASSUME NEW sb \in Mirrors
          PROVE  Clusters(Aligned(sb), Aligned(sb) + StripeLen) \subseteq 0 .. DeviceSize + StripeLen
        <3>1. sb \in Nat /\ sb < DeviceSize /\ StripeLen \in Nat \ {0}
            OBVIOUS
        <3>2. Aligned(sb) \in Nat /\ Aligned(sb) <= sb
            BY <3>1
        <3> HIDE DEF Aligned
        <3>3. /\ Aligned(sb) \div ClusterSize \in Nat
              /\ (Aligned(sb) + StripeLen - 1) \div ClusterSize <= Aligned(sb) + StripeLen - 1
            BY <3>1, <3>2
        <3>4. Aligned(sb) + StripeLen - 1 <= DeviceSize + StripeLen
            BY <3>1, <3>2
        <3>5. (Aligned(sb) + StripeLen - 1) \div ClusterSize \in Int
            BY <3>1, <3>2
        <3> QED BY <3>1, <3>2, <3>3, <3>4, <3>5
    <2> HIDE DEF Mirrors, Clusters, Aligned
    <2>2. A \subseteq 0 .. DeviceSize + StripeLen
        BY <2>1
    <2>3. IsFiniteSet(0 .. DeviceSize + StripeLen) /\ 0 .. DeviceSize + StripeLen \in SUBSET Nat
        BY ClustersUpTo
    <2> HIDE DEF A
    <2>4. A \in SUBSET (0 .. DeviceSize + StripeLen) /\ A \subseteq Nat
        BY <2>2, <2>3
    <2>5. IsFiniteSet(A)
        BY <2>3, <2>4, FS_Subset
    <2> QED BY <2>4, <2>5
<1>4. B \in SUBSET Nat /\ IsFiniteSet(B)
    <2>1. Reserved \div ClusterSize \in Nat
        OBVIOUS
    <2> QED BY <2>1, ClustersUpTo
<1>5. C \in SUBSET Nat /\ IsFiniteSet(C)
    <2> HIDE DEF end
    <2>1. end \div ClusterSize \in Nat /\ DeviceSize \div ClusterSize - 0 \in Nat
        BY <1>2
    <2> QED BY <2>1, ClustersUpTo
<1> HIDE DEF A, B, C
<1>6. Ascending(A) \in Seq(Nat) /\ Ascending(B) \in Seq(Nat) /\ D \in Seq(Nat)
    <2>1. ASSUME NEW S \in SUBSET Nat, IsFiniteSet(S) PROVE Ascending(S) \in Seq(Nat)
        <3> DEFINE q == Ascending(S)
        <3>1. q \in Seq(S)
            BY <2>1, AscendingIn
        <3> HIDE DEF q
        <3>2. q \in Seq(Nat)
            BY <3>1, WiderSequence
        <3> QED BY <3>2 DEF q
    <2>2. Ascending(A) \in Seq(Nat) /\ Ascending(B) \in Seq(Nat) /\ Ascending(C) \in Seq(Nat)
        BY <1>3, <1>4, <1>5, <2>1
    <2> QED BY <2>2
<1> HIDE DEF D
<1>7. <<>> \in Seq(Nat)
    OBVIOUS
<1> QED BY <1>1, <1>6, <1>7

-----------------------------------------------------------------------------
(* The clusters that have entries. *)

\* The bitmap is a number of words.
WholeBitmap == WordPart(BitmapBytes) = BitmapBytes

\* Those in use, and those that were granted.
KnownClusters ==
    {k \in Nat : \/ k * ClusterSize \in in_use /\ k * ClusterSize < DeviceSize
                 \/ Extent(k * ClusterSize, ClusterSize) \subseteq Granted}

RunsInv ==
    /\ ChunksFound
    /\ relocs \in Seq(Relocations)
    /\ Listed(runs, Segments, KnownClusters)
    /\ step = "protect" => todo \in Seq(Nat)

LEMMA KnownGrows ==
    ASSUME UNCHANGED in_use, Granted \subseteq Granted'
    PROVE  KnownClusters \subseteq KnownClusters'
BY DEF KnownClusters

\* What parse_data_bitmap finds in use.
LEMMA InUseKnown ==
    ASSUME WholeBitmap, WholeSectors
    PROVE  ClustersInUse \subseteq KnownClusters /\ ClustersInUse \in SUBSET Nat
           /\ IsFiniteSet(ClustersInUse)
<1> DEFINE B == {j \in 0 .. ByteBits * BitmapBytes - 1 : j * ClusterSize \in in_use}
<1>1. ByteBits * BitmapBytes \in Nat /\ BitmapBytes \in Nat
    BY ConversionAssumption
<1>2. B \subseteq 0 .. ByteBits * BitmapBytes - 1
    OBVIOUS
<1>3. \A j \in B : j \in Nat /\ j * ClusterSize \in in_use
    BY <1>1
<1>4. ScannedUsed(B, BitmapBytes) \subseteq B
    BY <1>1, WordsSound DEF WholeBitmap
<1>5. ClustersInUse = {k \in ScannedUsed(B, BitmapBytes) : k * ClusterSize < OrigSize}
    BY DEF ClustersInUse
<1> HIDE DEF B
<1>6. ClustersInUse \subseteq B /\ \A k \in ClustersInUse : k * ClusterSize < DeviceSize
    BY <1>4, <1>5 DEF WholeSectors
<1>7. ClustersInUse \subseteq 0 .. ByteBits * BitmapBytes - 1
    BY <1>2, <1>6
<1>8. IsFiniteSet(0 .. ByteBits * BitmapBytes - 1)
    BY <1>1, ClustersUpTo
<1>9. IsFiniteSet(ClustersInUse)
    BY <1>7, <1>8, FS_Subset
<1> QED BY <1>3, <1>6, <1>9 DEF KnownClusters

\* What was just granted has no entries yet, and may have some.
LEMMA GrantedUnknown ==
    ASSUME WholeWords, ClusterBitmaps, TypeOK, UNCHANGED in_use, NoOverwrite',
           NEW n \in Nat, NEW c \in Nat \ {0},
           Extent(n * ClusterSize, c * ClusterSize) \cap Granted = {},
           Granted' = Granted \cup Extent(n * ClusterSize, c * ClusterSize)
    PROVE  /\ KnownClusters \cap Extent(n, c) = {}
           /\ KnownClusters \cup Extent(n, c) \subseteq KnownClusters'
<1>1. ASSUME NEW k \in Extent(n, c)
      PROVE  /\ k \in Nat /\ k * ClusterSize \in Nat
             /\ Extent(k * ClusterSize, ClusterSize) \subseteq Extent(n * ClusterSize, c * ClusterSize)
             /\ k * ClusterSize \in Extent(k * ClusterSize, ClusterSize)
    <2>1. k \in Nat /\ n <= k /\ k + 1 <= n + c /\ ClusterSize \in Nat /\ ClusterSize > 0
        BY <1>1 DEF Extent
    <2>2. n * ClusterSize <= k * ClusterSize /\ (k + 1) * ClusterSize <= (n + c) * ClusterSize
        BY <2>1
    <2>3. /\ (k + 1) * ClusterSize = k * ClusterSize + ClusterSize
          /\ (n + c) * ClusterSize = n * ClusterSize + c * ClusterSize
        BY <2>1
    <2>4. k * ClusterSize \in Nat /\ n * ClusterSize \in Nat /\ c * ClusterSize \in Nat
        BY <2>1
    <2> DEFINE K == k * ClusterSize
               N == n * ClusterSize
               C == c * ClusterSize
    <2>5. K \in Nat /\ N \in Nat /\ C \in Nat /\ N <= K /\ K + ClusterSize <= N + C
        BY <2>2, <2>3, <2>4
    <2> HIDE DEF K, N, C
    <2>6. K \in Extent(K, ClusterSize) /\ Extent(K, ClusterSize) \subseteq Extent(N, C)
        BY <2>1, <2>5 DEF Extent
    <2> QED BY <2>1, <2>4, <2>6 DEF K, N, C
<1>2. ASSUME NEW k \in Extent(n, c) PROVE k \notin KnownClusters
    <2>1. /\ k * ClusterSize \in Granted' /\ k * ClusterSize \notin Granted
          /\ k * ClusterSize \in Extent(k * ClusterSize, ClusterSize)
        BY <1>1
    <2>2. ASSUME k * ClusterSize \in in_use, k * ClusterSize < DeviceSize PROVE FALSE
        <3>1. PICK s \in 0 .. DeviceSize : Base(s) < DeviceSize /\ k * ClusterSize \in LocatedIn(s)
            BY <2>2, AllLocated
        <3>2. k * ClusterSize \in Located
            BY <3>1 DEF Located
        <3>3. Located' = Located
            BY DEF Located, LocatedIn
        <3>4. k * ClusterSize \in ClusterSpace(Located)
            BY <2>1, <3>2 DEF ClusterSpace
        <3>5. Granted' \cap ClusterSpace(Located)' = {}
            BY DEF NoOverwrite
        <3>6. ClusterSpace(Located)' = ClusterSpace(Located)
            BY <3>3 DEF ClusterSpace
        <3> QED BY <2>1, <3>4, <3>5, <3>6
    <2> QED BY <2>1, <2>2 DEF KnownClusters
<1>3. \A k \in Extent(n, c) : k \in KnownClusters'
    BY <1>1 DEF KnownClusters
<1> QED BY <1>2, <1>3, KnownGrows

LEMMA InitRuns == ConvInit => RunsInv
<1> SUFFICES ASSUME ConvInit PROVE RunsInv
    OBVIOUS
<1>1. seg = 0 /\ step = "scan" /\ relocs = <<>> /\ runs = [s \in Segments |-> <<>>]
    BY DEF ConvInit, Init
<1>2. <<>> \in Seq(Entries) /\ DOMAIN <<>> = {} /\ <<>> \in Seq(Relocations)
    OBVIOUS
<1>3. InOrder(<<>>) /\ Covered(<<>>) = {}
    BY <1>2 DEF InOrder, Covered, Members
<1>4. runs \in [Segments -> Seq(Entries)] /\ \A s \in Segments : runs[s] = <<>>
    BY <1>1, <1>2
<1>5. Listed(runs, Segments, KnownClusters)
    BY <1>3, <1>4 DEF Listed
<1> QED BY <1>1, <1>2, <1>5 DEF RunsInv, ChunksFound

\* Entries are kept while more is granted.
LEMMA RunsStay ==
    ASSUME RunsInv, ChunksFound', UNCHANGED <<in_use, runs, relocs>>, Granted \subseteq Granted',
           step' = "protect" => todo' \in Seq(Nat)
    PROVE  RunsInv'
<1>1. Listed(runs, Segments, KnownClusters)
    BY DEF RunsInv
<1>2. Listed(runs, Segments, KnownClusters')
    BY <1>1, KnownGrows, MoreListed
<1>3. Listed(runs, Segments, KnownClusters)'
    BY <1>2 DEF Listed
<1> QED BY <1>3 DEF RunsInv

LEMMA ParseDataBitmapRuns ==
    ASSUME BootInUse, WholeBitmap, WholeSectors, IInv, RunsInv, ParseDataBitmap
    PROVE  RunsInv'
<1>1. /\ NextPhase /\ phase = "scan" /\ todo' = ToProtect /\ UNCHANGED relocs
      /\ UNCHANGED <<in_use, seg, chunks, allocated>>
    BY DEF ParseDataBitmap, NextPhase
<1>2. DOMAIN chunks # {}
    <2>1. Base(seg) >= DeviceSize /\ seg \in Nat
        BY <1>1 DEF NextPhase, IInv, TypeOK
    <2>2. ClusterSize * ByteBits > 0 /\ ClusterSize * ByteBits <= DeviceSize
        BY DEF BootInUse
    <2>3. DeviceSize > 0 /\ (seg = 0 => Base(seg) = 0)
        BY <2>2 DEF Base
    <2>4. seg > 0
        BY <2>1, <2>3
    <2> QED BY <2>4 DEF RunsInv, ChunksFound
<1>3. todo' \in Seq(Nat)
    BY <1>1, <1>2, ProtectedClusters DEF IInv
<1>4. runs' = [s \in Segments |-> RunList({k \in ClustersInUse : SegmentOf(k) = s})]
    BY DEF ParseDataBitmap
<1>5. ClustersInUse \subseteq KnownClusters /\ ClustersInUse \in SUBSET Nat /\ IsFiniteSet(ClustersInUse)
    BY InUseKnown
<1>6. ASSUME NEW s \in Segments
      PROVE  LET list == RunList({k \in ClustersInUse : SegmentOf(k) = s})
             IN  list \in Seq(Entries) /\ InOrder(list) /\ Covered(list) \subseteq KnownClusters
    <2> DEFINE S == {k \in ClustersInUse : SegmentOf(k) = s}
    <2>1. S \subseteq ClustersInUse
        OBVIOUS
    <2> HIDE DEF S
    <2>2. S \in SUBSET Nat /\ IsFiniteSet(S) /\ S \subseteq KnownClusters
        BY <1>5, <2>1, FS_Subset
    <2>3. RunList(S) \in Seq(Entries) /\ InOrder(RunList(S)) /\ Covered(RunList(S)) \subseteq S
        BY <2>2, RunListInOrder
    <2>4. RunList(S) \in Seq(Entries) /\ InOrder(RunList(S)) /\ Covered(RunList(S)) \subseteq KnownClusters
        BY <2>2, <2>3
    <2> QED BY <2>4 DEF S
<1>7. KnownClusters' = KnownClusters
    BY <1>1 DEF KnownClusters, Granted
<1>8. Listed(runs', Segments, KnownClusters)
    BY <1>4, <1>6 DEF Listed
<1>9. Listed(runs, Segments, KnownClusters)'
    BY <1>7, <1>8 DEF Listed
<1> QED BY <1>1, <1>2, <1>3, <1>9 DEF RunsInv, ChunksFound

LEMMA SplitRunsRuns ==
    ASSUME IInv, StepPhase, Queues, RunsInv, SplitRuns
    PROVE  RunsInv'
<1>1. /\ step = "files" /\ todo # <<>>
      /\ UNCHANGED <<step, todo, in_use, seg, chunks, allocated, relocs>>
    BY DEF SplitRuns
<1>2. Head(todo) \in ConvertedFiles
    BY <1>1, HeadAndTail DEF Queues
<1>3. PICK p \in FilePieces :
         LET list == runs[SegmentOf(p.lcn)] IN
              IF Torn(list, p.lcn, p.length)
              THEN phase' = "failed" /\ UNCHANGED runs
              ELSE /\ runs' = [runs EXCEPT ![SegmentOf(p.lcn)] =
                                  Cut(list, p.lcn, p.length, Head(todo).inode, p.vcn)]
                   /\ UNCHANGED phase
    BY DEF SplitRuns
<1> DEFINE f == Head(todo)
           t == SegmentOf(p.lcn)
<1>4. f.inode \in Int /\ f.mappings \in SUBSET [vcn : Nat, lcn : Nat, length : Nat \ {0}]
    BY <1>2 DEF ConvertedFiles, Files
<1>5. p.vcn \in Nat /\ p.lcn \in Nat /\ p.length \in Nat \ {0}
    <2>1. PICK m \in f.mappings : p \in Pieces(m)
        BY DEF FilePieces
    <2> HIDE DEF f
    <2>2. m \in [vcn : Nat, lcn : Nat, length : Nat \ {0}]
        BY <1>4
    <2> QED BY <2>1, <2>2, PieceType DEF RunsInv
<1>6. \/ UNCHANGED runs
      \/ /\ ~ Torn(runs[t], p.lcn, p.length)
         /\ runs' = [runs EXCEPT ![t] = Cut(runs[t], p.lcn, p.length, f.inode, p.vcn)]
    BY <1>3
<1> HIDE DEF f, t
<1>7. Listed(runs, Segments, KnownClusters)
    BY DEF RunsInv
<1>8. Listed(runs', Segments, KnownClusters)
    <2>1. CASE UNCHANGED runs
        BY <1>7, <2>1
    <2>2. CASE /\ ~ Torn(runs[t], p.lcn, p.length)
               /\ runs' = [runs EXCEPT ![t] = Cut(runs[t], p.lcn, p.length, f.inode, p.vcn)]
        BY <1>4, <1>5, <1>7, <2>2, ListedCut
    <2> QED BY <1>6, <2>1, <2>2
<1>9. KnownClusters' = KnownClusters
    BY <1>1 DEF KnownClusters, Granted
<1>10. Listed(runs, Segments, KnownClusters)'
    BY <1>8, <1>9 DEF Listed
<1> QED BY <1>1, <1>10 DEF RunsInv, ChunksFound

\* Space for data, in clusters.
LEMMA DataReturned ==
    ASSUME WholeWords, ClusterBitmaps, WholeClusters, IInv, GrantedAbove,
           DataAligned', NoOverwrite', NEW length, NEW counted,
           AllocatorCall("data", DataChunkSize, length, counted), phase' # "failed"
    PROVE  LET n == Returned \div ClusterSize
               c == length \div ClusterSize
           IN  /\ n \in Nat /\ c \in Nat \ {0}
               /\ KnownClusters \cap Extent(n, c) = {}
               /\ KnownClusters \cup Extent(n, c) \subseteq KnownClusters'
<1> DEFINE addr == Returned
           n == addr \div ClusterSize
           c == length \div ClusterSize
<1>1. /\ length \in Nat \ {0} /\ counted \in BOOLEAN /\ length % ClusterSize = 0
    <2>1. length = ClusterSize \/ length \in DataLengths
        BY DEF AllocatorCall
    <2>2. ClusterSize % ClusterSize = 0
        OBVIOUS
    <2> QED BY <2>1, <2>2 DEF AllocatorCall, WholeClusters
<1>2. /\ UNCHANGED in_use /\ addr \in Nat
      /\ allocated' = allocated \cup {Allocation(addr, length, "data", counted)}
      /\ Granted' = Granted \cup Extent(addr, length)
      /\ Extent(addr, length) \cap Granted = {}
    BY CallReturns
<1> HIDE DEF addr
<1>3. addr % ClusterSize = 0
    <2> DEFINE a == Allocation(addr, length, "data", counted)
    <2>1. a.type = "data" /\ a.addr = addr /\ a \in allocated'
        BY <1>2 DEF Allocation
    <2> QED BY <2>1 DEF DataAligned
<1>4. n \in Nat /\ c \in Nat \ {0} /\ n * ClusterSize = addr /\ c * ClusterSize = length
    BY <1>1, <1>2, <1>3
<1>5. TypeOK
    BY DEF IInv
<1> HIDE DEF n, c
<1>6. /\ KnownClusters \cap Extent(n, c) = {}
      /\ KnownClusters \cup Extent(n, c) \subseteq KnownClusters'
    BY <1>2, <1>4, <1>5, GrantedUnknown
<1> QED BY <1>4, <1>6 DEF n, c, addr

LEMMA InsertedRun ==
    ASSUME NEW R, NEW t, NEW n \in Nat, NEW c \in Nat \ {0}, NEW inode \in Int,
           NEW file_offset \in Nat, NEW relocated \in BOOLEAN, NEW not_in_img \in BOOLEAN,
           Listed(R, Segments, KnownClusters), KnownClusters \cap Extent(n, c) = {},
           KnownClusters \cup Extent(n, c) \subseteq KnownClusters',
           runs' = [R EXCEPT ![t] =
                       Insert(R[t], DataAlloc(n, c, inode, file_offset, relocated, not_in_img))]
    PROVE  Listed(runs, Segments, KnownClusters)'
<1> DEFINE r == DataAlloc(n, c, inode, file_offset, relocated, not_in_img)
           Q == [R EXCEPT ![t] = Insert(R[t], r)]
           Known == KnownClusters \cup Extent(n, c)
<1>1. r \in Entries /\ r.offset = n /\ r.length = c
    BY DEF DataAlloc, Entries
<1> HIDE DEF r
<1>2. Listed(Q, Segments, Known)
    BY <1>1, ListedInsert
<1>3. runs' = Q /\ Known \subseteq KnownClusters'
    BY DEF r
<1> HIDE DEF Q, Known
<1>4. Listed(Q, Segments, KnownClusters')
    BY <1>2, <1>3, MoreListed
<1> QED BY <1>3, <1>4 DEF Listed

LEMMA ProtectClusterRuns ==
    ASSUME WholeWords, ClusterBitmaps, WholeClusters, IInv, GrantedAbove, StepPhase, RunsInv,
           DataAligned', NoOverwrite', ProtectCluster
    PROVE  RunsInv'
<1> DEFINE k == Head(todo)
<1>1. /\ step = "protect" /\ phase = "protect" /\ todo # <<>> /\ UNCHANGED step
      /\ todo' = Tail(todo)
    BY DEF ProtectCluster, StepPhase
<1>2. k \in Nat /\ todo' \in Seq(Nat)
    BY <1>1, HeadAndTail DEF RunsInv
<1>3. CASE Stays /\ UNCHANGED vars
    BY <1>2, <1>3, RunsStay DEF Stays, memory, vars, RunsInv, ChunksFound, Granted
<1>4. CASE /\ AllocateData(ClusterSize, FALSE)
           /\ IF phase' = "failed" THEN Stays
              ELSE /\ Relocate(k)
                   /\ UNCHANGED <<filed, fs_extents, img_extents, extent_items, runs2, csums>>
    <2>1. AllocatorCall("data", DataChunkSize, ClusterSize, FALSE)
        BY <1>1, <1>4, DataCalls
    <2>2. ChunksFound'
        BY <2>1, CallKeepsChunks DEF RunsInv
    <2>3. CASE phase' = "failed"
        <3>1. UNCHANGED in_use /\ allocated' = allocated
            BY <1>1, <2>1, <2>3, CallReturns
        <3> QED BY <1>2, <1>4, <2>2, <2>3, <3>1, RunsStay DEF Stays, memory, Granted
    <2>4. CASE phase' # "failed"
        <3> DEFINE n == Returned \div ClusterSize
                   s == SegmentOf(k)
                   cut == [runs EXCEPT ![s] = Cut(runs[s], k, 1, dummy_inode, 0)]
        <3>1. /\ relocs' = Append(relocs, [old_start |-> k, new_start |-> n])
              /\ runs' = [cut EXCEPT ![SegmentOf(n)] =
                             Insert(cut[SegmentOf(n)], DataAlloc(n, 1, 0, 0, TRUE, FALSE))]
            BY <1>4, <2>4 DEF Relocate
        <3>2. ClusterSize \div ClusterSize = 1
            OBVIOUS
        <3>3. /\ n \in Nat /\ KnownClusters \cap Extent(n, 1) = {}
              /\ KnownClusters \cup Extent(n, 1) \subseteq KnownClusters'
            BY <2>1, <2>4, <3>2, DataReturned
        <3> HIDE DEF k, n, s
        <3>4. relocs' \in Seq(Relocations)
            <4>1. [old_start |-> k, new_start |-> n] \in Relocations
                BY <1>2, <3>3 DEF Relocations
            <4> QED BY <3>1, <4>1 DEF RunsInv
        <3>5. Listed(cut, Segments, KnownClusters)
            <4>1. Listed(runs, Segments, KnownClusters)
                BY DEF RunsInv
            <4>2. s \in Segments => ~ Torn(runs[s], k, 1)
                BY <1>2, <4>1, OneClusterWhole DEF Listed
            <4>3. dummy_inode \in Int /\ 0 \in Nat /\ 1 \in Nat \ {0}
                BY DEF dummy_inode
            <4> QED BY <1>2, <4>1, <4>2, <4>3, ListedCut
        <3> HIDE DEF cut
        <3>6. 1 \in Nat \ {0} /\ 0 \in Int /\ 0 \in Nat /\ TRUE \in BOOLEAN /\ FALSE \in BOOLEAN
            OBVIOUS
        <3>7. Listed(runs, Segments, KnownClusters)'
            BY <3>1, <3>3, <3>5, <3>6, InsertedRun
        <3> QED BY <1>1, <1>2, <2>2, <3>4, <3>7 DEF RunsInv
    <2> QED BY <2>3, <2>4
<1> QED BY <1>3, <1>4 DEF ProtectCluster

LEMMA WriteDataRuns ==
    ASSUME WholeWords, ClusterBitmaps, WholeClusters, IInv, GrantedAbove, StepPhase, Queues,
           RunsInv, DataAligned', NoOverwrite', WriteData
    PROVE  RunsInv'
<1> DEFINE f == Head(todo)
<1>1. /\ step = "files" /\ phase = "rewrite" /\ todo # <<>> /\ UNCHANGED step
      /\ f.mappings = {}
    BY DEF WriteData, StepPhase
<1>2. f \in ConvertedFiles
    BY <1>1, HeadAndTail DEF Queues
<1>3. /\ AllocateData(f.length, TRUE)
      /\ phase' = "failed" => UNCHANGED <<runs, relocs>>
      /\ phase' # "failed" =>
           /\ UNCHANGED relocs
           /\ runs' = [runs EXCEPT ![Returned \div DataChunkSize] =
                          Insert(runs[Returned \div DataChunkSize],
                                 DataAlloc(Returned \div ClusterSize, f.length \div ClusterSize,
                                           f.inode, f.pos \div ClusterSize, FALSE, TRUE))]
    BY DEF WriteData, Stays, memory
<1> HIDE DEF f
<1>4. f.length \in DataLengths /\ f.inode \in Int /\ f.pos \in Nat
    BY <1>1, <1>2 DEF ConvertedFiles, Files
<1>5. AllocatorCall("data", DataChunkSize, f.length, TRUE)
    BY <1>1, <1>3, <1>4, DataCalls
<1>6. ChunksFound'
    BY <1>5, CallKeepsChunks DEF RunsInv
<1>7. CASE phase' = "failed"
    <2>1. UNCHANGED in_use /\ allocated' = allocated
        BY <1>1, <1>5, <1>7, CallReturns
    <2> QED BY <1>1, <1>3, <1>6, <1>7, <2>1, RunsStay DEF Granted
<1>8. CASE phase' # "failed"
    <2> DEFINE n == Returned \div ClusterSize
               c == f.length \div ClusterSize
               t == Returned \div DataChunkSize
               pos == f.pos \div ClusterSize
    <2>1. /\ n \in Nat /\ c \in Nat \ {0} /\ KnownClusters \cap Extent(n, c) = {}
          /\ KnownClusters \cup Extent(n, c) \subseteq KnownClusters'
        BY <1>5, <1>8, DataReturned
    <2>2. pos \in Nat
        BY <1>4
    <2>3. runs' = [runs EXCEPT ![t] = Insert(runs[t], DataAlloc(n, c, f.inode, pos, FALSE, TRUE))]
        BY <1>3, <1>8
    <2> HIDE DEF n, c, t, pos
    <2>4. FALSE \in BOOLEAN /\ TRUE \in BOOLEAN
        OBVIOUS
    <2>5. Listed(runs, Segments, KnownClusters)'
        BY <1>4, <2>1, <2>2, <2>3, <2>4, InsertedRun DEF RunsInv
    <2> QED BY <1>1, <1>3, <1>6, <1>8, <2>5 DEF RunsInv
<1> QED BY <1>7, <1>8

\* All other steps leave the entries and the relocations alone.
LEMMA OtherRuns ==
    ASSUME BootInUse, IInv, GrantedAbove, StepPhase, RunsInv,
           \/ Scan \/ CalcUsedSpace \/ MapFile \/ CreateImage \/ CreateDataExtentItems
           \/ JoinRun \/ CalcChecksums \/ LayOutBlock \/ LayoutDone \/ WriteTrees
           \/ TreesWritten \/ WriteSuperblock \/ ClearFirstCluster
           \/ UNCHANGED <<vars, cvars>>
    PROVE  RunsInv'
<1>1. CASE Scan
    <2>1. ScanSegment /\ UNCHANGED <<step, todo, runs, relocs>>
        BY <1>1 DEF Scan, cvars, memory
    <2>2. UNCHANGED <<in_use, allocated>>
        BY <2>1, ScanSegmentShape
    <2>3. ChunksFound'
        BY <2>1, ScanFindsChunk DEF RunsInv
    <2> QED BY <2>1, <2>2, <2>3, RunsStay DEF RunsInv, Granted
<1>2. CASE LayOutBlock
    <2>1. UNCHANGED <<step, todo, runs, relocs>>
        BY <1>2 DEF LayOutBlock, cvars, memory
    <2>2. Calls
        BY <1>2, LayOutBlockShape DEF Calls
    <2>3. PICK type, size, length, counted : AllocatorCall(type, size, length, counted)
        BY <2>2 DEF Calls
    <2>4. UNCHANGED in_use /\ Granted \subseteq Granted'
        BY <2>3, CallReturns DEF Granted
    <2>5. ChunksFound'
        BY <2>3, CallKeepsChunks DEF RunsInv
    <2> QED BY <2>1, <2>4, <2>5, RunsStay DEF RunsInv
<1>3. ASSUME UNCHANGED <<in_use, seg, chunks, allocated, runs, relocs>>,
             step' # "protect" \/ UNCHANGED <<step, todo>>
      PROVE  RunsInv'
    BY <1>3, RunsStay DEF RunsInv, ChunksFound, Granted
<1>4. CASE CalcUsedSpace \/ CalcChecksums
    BY <1>3, <1>4 DEF CalcUsedSpace, CalcChecksums, NextPhase
<1>5. CASE MapFile \/ CreateImage \/ CreateDataExtentItems \/ JoinRun
    BY <1>3, <1>5 DEF MapFile, CreateImage, CreateDataExtentItems, JoinRun, vars
<1>6. CASE LayoutDone \/ WriteTrees \/ TreesWritten \/ WriteSuperblock \/ ClearFirstCluster
    BY <1>3, <1>6
    DEF LayoutDone, WriteTrees, TreesWritten, WriteSuperblock, ClearFirstCluster, vars, memory
<1>7. CASE UNCHANGED <<vars, cvars>>
    BY <1>3, <1>7 DEF vars, cvars, memory
<1> QED BY <1>1, <1>2, <1>4, <1>5, <1>6, <1>7

LEMMA RunsStep ==
    ASSUME WholeWords, ClusterBitmaps, WholeClusters, BootInUse, WholeBitmap, WholeSectors,
           ConvInv, RunsInv, DataAligned', NoOverwrite', [ConvNext]_<<vars, cvars>>
    PROVE  RunsInv'
<1>1. IInv /\ GrantedAbove /\ StepPhase /\ Queues
    BY DEF ConvInv
<1> QED BY <1>1, ParseDataBitmapRuns, SplitRunsRuns, ProtectClusterRuns, WriteDataRuns, OtherRuns
    DEF ConvNext

\* Space for data is on clusters during a conversion as well.
LEMMA ConvAligned ==
    ASSUME WholeStripes, WholeClusters, ConvInv, AlignedInv, [ConvNext]_<<vars, cvars>>
    PROVE  AlignedInv'
<1>1. IInv /\ StepPhase /\ Queues
    BY DEF ConvInv
<1>2. ChunksKept => AlignedInv'
    BY DEF ChunksKept, AlignedInv, ListGrid, GridBelow, FreeGrid, DataAligned
<1> QED BY <1>1, <1>2, ConvCases, ScanSegmentAligned, CallAligned DEF Quiet, Calls

\* The entries of every segment stay in order and apart, whatever is cut out of them
\* by split_runs or inserted between them: the clusters of an entry are in use or were
\* granted, so that what is granted next belongs to none.
THEOREM EntriesInOrder ==
    ASSUME WholeStripes, WholeWords, ClusterBitmaps, WholeClusters, BootInUse, WholeBitmap,
           WholeSectors
    PROVE  ConvSpec => []RunsOrdered
<1>1. ConvInit => AlignedInv /\ RunsInv
    BY InitAligned, InitRuns DEF ConvInit
<1>2. ConvInv /\ AlignedInv /\ [ConvNext]_<<vars, cvars>> => AlignedInv'
    BY ConvAligned
<1>3. ConvInv => NoOverwrite
    BY LocatedNotGranted DEF ConvInv
<1>4. AlignedInv => DataAligned
    BY DEF AlignedInv
<1>5. /\ ConvInv /\ RunsInv /\ DataAligned' /\ NoOverwrite' /\ [ConvNext]_<<vars, cvars>>
      => RunsInv'
    BY RunsStep
<1>6. RunsInv => RunsOrdered
    BY DEF RunsInv, Listed, InOrder, RunsOrdered
<1> QED BY <1>1, <1>2, <1>3, <1>4, <1>5, <1>6, ConversionInvariant, PTL DEF ConvSpec

=============================================================================
