-------------------------- MODULE NewVolumeProofs --------------------------
(***************************************************************************)
(* What the new volume holds, and that it can be given up again.           *)
(*                                                                         *)
(* Checksums: all data that an extent of a file or of ntfs.img refers to   *)
(* is summed, each unit of it in one item that fits in a leaf, and stays   *)
(* as it was when it was summed.  So the conversion is a switch from one   *)
(* whole file system to another whole one.                                 *)
(*                                                                         *)
(* References: the extent items of the data count the extents that the     *)
(* files and ntfs.img have of it, and no others.                           *)
(*                                                                         *)
(* Rollback: it restores what NTFS held, whatever was written to the       *)
(* volume in the meantime and however often rollback was killed, because   *)
(* what it reads was never in a place that it writes to; and it does not   *)
(* refuse a volume that was converted.                                     *)
(***************************************************************************)
EXTENDS ImageProofs, Rollback, SequenceTheorems

USE ChunkSpaceAssumption, BitmapAssumption

-----------------------------------------------------------------------------
(* The runs of calc_checksums. *)

Runs2 == [offset : Nat, length : 1 .. MaxRunClusters]

\* Data that is left is split into runs as long as they may be.
SplitOf(start, left) ==
    [i \in 1 .. (left + MaxRunClusters - 1) \div MaxRunClusters |->
        [offset |-> start + (i - 1) * MaxRunClusters,
         length |-> Lesser(MaxRunClusters, left - (i - 1) * MaxRunClusters)]]

LEMMA RunLimit ==
    /\ MaxRunClusters \in Nat \ {0} /\ MaxRunClusters * ClusterSize <= MaxRun
    /\ MaxRun \in Nat
<1>1. MaxRun \in Nat /\ MaxRun >= ClusterSize
    BY ConversionAssumption
<1>2. ClusterSize \in Int /\ ClusterSize > 0 /\ MaxRun \in Int
    BY <1>1
<1> DEFINE q == MaxRun \div ClusterSize
           m == MaxRun % ClusterSize
<1>3. MaxRun = ClusterSize * q + m /\ q \in Int /\ m \in 0 .. ClusterSize - 1
    BY <1>2, Division
<1> HIDE DEF q, m
<1>4. q > 0
    <2>1. CASE q <= 0
        <3>1. 0 - q \in Nat
            BY <1>3, <2>1
        <3>2. ClusterSize * (0 - q) >= 0
            BY <1>2, <3>1
        <3>3. ClusterSize * (0 - q) = 0 - ClusterSize * q
            BY <1>2, <1>3
        <3> QED BY <1>1, <1>2, <1>3, <3>2, <3>3
    <2> QED BY <1>3, <2>1
<1>5. q * ClusterSize <= MaxRun
    BY <1>2, <1>3
<1>6. MaxRunClusters = q
    BY DEF MaxRunClusters, q
<1> QED BY <1>1, <1>3, <1>4, <1>5, <1>6

\* Run i of the split begins before the end, and all is in one of them.
LEMMA SplitPlaces ==
    ASSUME NEW left \in Nat, NEW M \in Nat \ {0}, NEW n, n = (left + (M - 1)) \div M
    PROVE  /\ n \in Nat
           /\ \A i \in 1 .. n : (i - 1) * M < left /\ (i - 1) * M \in Nat
           /\ \A i, j \in 1 .. n : i < j => (i - 1) * M + M <= (j - 1) * M
           /\ \A y \in 0 .. left - 1 : \E i \in 1 .. n : (i - 1) * M <= y /\ y < (i - 1) * M + M
<1>1. M \in Int /\ M > 0 /\ left + (M - 1) \in Int /\ left + (M - 1) >= 0
    OBVIOUS
<1> DEFINE m == (left + (M - 1)) % M
<1>2. left + (M - 1) = M * n + m /\ n \in Int /\ m \in 0 .. M - 1
    BY <1>1, Division
<1> HIDE DEF m
<1>3. left <= n * M /\ n * M < left + M
    BY <1>1, <1>2
<1>4. \A a, b \in Int : a <= b => a * M <= b * M
    <2>1. ASSUME NEW a \in Int, NEW b \in Int, a <= b PROVE a * M <= b * M
        <3>1. b - a \in Nat
            BY <2>1
        <3>2. (b - a) * M >= 0
            BY <1>1, <3>1
        <3>3. (b - a) * M = b * M - a * M /\ a * M \in Int /\ b * M \in Int
            BY <1>1
        <3> QED BY <3>2, <3>3
    <2> QED BY <2>1
<1>5. n \in Nat
    <2>1. CASE n <= -1
        <3>1. n * M <= -1 * M
            BY <1>2, <1>4, <2>1
        <3> QED BY <1>1, <1>3, <3>1
    <2> QED BY <1>2, <2>1
<1>6. ASSUME NEW i \in 1 .. n PROVE (i - 1) * M < left /\ (i - 1) * M \in Nat
    <2>1. 0 <= i - 1 /\ i - 1 <= n - 1 /\ i - 1 \in Int /\ n - 1 \in Int /\ 0 \in Int
        BY <1>5
    <2>2. 0 * M <= (i - 1) * M /\ (i - 1) * M <= (n - 1) * M
        BY <1>4, <2>1
    <2>3. (n - 1) * M = n * M - M /\ 0 * M = 0 /\ (i - 1) * M \in Int
        BY <1>1, <1>5
    <2> QED BY <1>1, <1>3, <2>2, <2>3
<1>7. ASSUME NEW i \in 1 .. n, NEW j \in 1 .. n, i < j
      PROVE  (i - 1) * M + M <= (j - 1) * M
    <2>1. i \in Int /\ j - 1 \in Int /\ i <= j - 1
        BY <1>7
    <2>2. i * M <= (j - 1) * M
        BY <1>4, <2>1
    <2>3. (i - 1) * M + M = i * M
        BY <1>1
    <2> QED BY <2>2, <2>3
<1>8. ASSUME NEW y \in 0 .. left - 1
      PROVE  \E i \in 1 .. n : (i - 1) * M <= y /\ y < (i - 1) * M + M
    <2> DEFINE d == y \div M
               e == y % M
    <2>1. y \in Int /\ y >= 0 /\ y < left
        OBVIOUS
    <2>2. y = M * d + e /\ d \in Int /\ e \in 0 .. M - 1
        BY <1>1, <2>1, Division
    <2> HIDE DEF d, e
    <2>3. d * M <= y /\ y < d * M + M /\ d * M \in Int
        BY <1>1, <2>2
    <2>4. d >= 0
        <3>1. CASE d <= -1
            <4>1. d * M <= -1 * M
                BY <1>4, <2>2, <3>1
            <4> QED BY <1>1, <2>1, <2>3, <4>1
        <3> QED BY <2>2, <3>1
    <2>5. d < n
        <3>1. CASE n <= d
            <4>1. n * M <= d * M
                BY <1>2, <1>4, <2>2, <3>1
            <4> QED BY <1>1, <1>2, <1>3, <2>1, <2>3, <4>1
        <3> QED BY <1>2, <2>2, <3>1
    <2>6. d + 1 \in 1 .. n /\ (d + 1) - 1 = d
        BY <1>5, <2>2, <2>4, <2>5
    <2> QED BY <2>3, <2>6
<1> QED BY <1>5, <1>6, <1>7, <1>8

LEMMA SplitCovers ==
    ASSUME NEW start \in Nat, NEW left \in Nat
    PROVE  LET q == SplitOf(start, left)
           IN  /\ q \in Seq(Runs2) /\ InOrder(q)
               /\ StartsFrom(q, start) /\ EndsBy(q, start + left)
               /\ Covered(q) = Extent(start, left)
<1> DEFINE M == MaxRunClusters
           n == (left + (M - 1)) \div M
           q == SplitOf(start, left)
           At(i) == (i - 1) * M
<1>1. M \in Nat \ {0}
    BY RunLimit
<1>2. q = [i \in 1 .. n |-> [offset |-> start + At(i), length |-> Lesser(M, left - At(i))]]
    BY DEF SplitOf
<1>3. /\ n \in Nat
      /\ \A i \in 1 .. n : At(i) < left /\ At(i) \in Nat
      /\ \A i, j \in 1 .. n : i < j => At(i) + M <= At(j)
      /\ \A y \in 0 .. left - 1 : \E i \in 1 .. n : At(i) <= y /\ y < At(i) + M
    BY <1>1, SplitPlaces
<1> HIDE DEF n, q, At, M
<1>4. /\ DOMAIN q = 1 .. n
      /\ \A i \in 1 .. n : q[i].offset = start + At(i) /\ q[i].length = Lesser(M, left - At(i))
    BY <1>2
<1>5. \A i \in 1 .. n : /\ q[i].offset \in Nat /\ q[i].length \in 1 .. M
                       /\ q[i].offset >= start
                       /\ q[i].offset + q[i].length <= start + left
                       /\ q[i].offset + q[i].length <= start + (At(i) + M)
    <2>1. ASSUME NEW a \in Nat, a < left
          PROVE  /\ Lesser(M, left - a) \in 1 .. M
                 /\ a + Lesser(M, left - a) <= left
        BY <1>1, <2>1 DEF Lesser
    <2>2. ASSUME NEW i \in 1 .. n
          PROVE  /\ q[i].offset \in Nat /\ q[i].length \in 1 .. M
                 /\ q[i].offset >= start
                 /\ q[i].offset + q[i].length <= start + left
                 /\ q[i].offset + q[i].length <= start + (At(i) + M)
        <3> DEFINE a == At(i)
        <3>1. a \in Nat /\ a < left /\ q[i].offset = start + a /\ q[i].length = Lesser(M, left - a)
            BY <1>3, <1>4
        <3> HIDE DEF a
        <3>2. q[i].length \in 1 .. M /\ a + q[i].length <= left
            BY <2>1, <3>1
        <3>3. /\ q[i].offset \in Nat /\ q[i].length \in 1 .. M
              /\ q[i].offset >= start
              /\ q[i].offset + q[i].length <= start + left
              /\ q[i].offset + q[i].length <= start + (a + M)
            BY <1>1, <3>1, <3>2
        <3> QED BY <3>3 DEF a
    <2> QED BY <2>2
<1>6. q \in Seq(Runs2)
    <2>1. \A i \in 1 .. n : [offset |-> start + At(i), length |-> Lesser(M, left - At(i))] \in Runs2
        BY <1>1, <1>3 DEF Lesser, Runs2, M
    <2> QED BY <1>2, <1>3, <2>1
<1>7. InOrder(q)
    <2>1. ASSUME NEW i \in 1 .. n, NEW j \in 1 .. n, i < j
          PROVE  q[i].offset + q[i].length <= q[j].offset
        <3>1. At(i) + M <= At(j) /\ At(i) \in Nat /\ At(j) \in Nat
            BY <1>3, <2>1
        <3> DEFINE a == At(i)
                   b == At(j)
        <3>2. /\ q[i].offset + q[i].length <= start + (a + M)
              /\ q[j].offset = start + b
              /\ q[i].offset \in Nat /\ q[i].length \in Nat /\ M \in Nat
            <4>1. q[i].length \in 1 .. M /\ q[i].offset \in Nat
                BY <1>5
            <4>2. q[i].offset + q[i].length <= start + (a + M)
                BY <1>5
            <4>3. q[j].offset = start + b
                BY <1>4
            <4> QED BY <1>1, <4>1, <4>2, <4>3
        <3>3. a + M <= b /\ a \in Nat /\ b \in Nat
            BY <3>1
        <3> HIDE DEF a, b
        <3> QED BY <3>2, <3>3
    <2> QED BY <1>4, <2>1 DEF InOrder
<1>8. StartsFrom(q, start) /\ EndsBy(q, start + left)
    BY <1>4, <1>5 DEF StartsFrom, EndsBy, Members
<1>9. ASSUME NEW k \in Covered(q) PROVE k \in Extent(start, left)
    <2>1. PICK i \in 1 .. n : k \in Extent(q[i].offset, q[i].length)
        BY <1>4 DEF Covered, Members
    <2> QED BY <1>5, <2>1 DEF Extent
<1>10. ASSUME NEW k \in Extent(start, left) PROVE k \in Covered(q)
    <2>1. k \in Int /\ k - start \in 0 .. left - 1
        BY DEF Extent
    <2>2. PICK i \in 1 .. n : At(i) <= k - start /\ k - start < At(i) + M
        BY <1>3, <2>1
    <2> DEFINE a == At(i)
               l == Lesser(M, left - a)
    <2>3. a \in Nat /\ a <= k - start /\ k - start < a + M /\ q[i].offset = start + a /\ q[i].length = l
        BY <1>3, <1>4, <2>2
    <2>4. l \in Int /\ k - start < a + l
        BY <1>1, <2>1, <2>3 DEF Lesser
    <2> HIDE DEF a, l
    <2>5. k \in Extent(q[i].offset, q[i].length)
        BY <2>1, <2>3, <2>4 DEF Extent
    <2> QED BY <1>4, <2>5 DEF Covered, Members
<1>11. q \in Seq(Runs2) /\ InOrder(q) /\ StartsFrom(q, start) /\ EndsBy(q, start + left)
      /\ Covered(q) = Extent(start, left)
    BY <1>6, <1>7, <1>8, <1>9, <1>10
<1> QED BY <1>11 DEF q

LEMMA CoveredBy ==
    ASSUME NEW q, NEW k
    PROVE  k \in Covered(q) <=> \E i \in DOMAIN q : k \in Extent(q[i].offset, q[i].length)
BY DEF Covered, Members

\* The last run grows.
LEMMA GrownRuns ==
    ASSUME NEW q \in Seq(Runs2), InOrder(q), q # <<>>, NEW more \in Nat,
           q[Len(q)].length + more <= MaxRunClusters
    PROVE  LET last == q[Len(q)]
               g == [q EXCEPT ![Len(q)].length = @ + more]
           IN  /\ g \in Seq(Runs2) /\ InOrder(g)
               /\ EndsBy(g, last.offset + (last.length + more))
               /\ Covered(g) = Covered(q) \cup Extent(last.offset + last.length, more)
<1> DEFINE n == Len(q)
           last == q[n]
           g == [q EXCEPT ![n].length = @ + more]
           end == last.offset + (last.length + more)
<1>1. n \in Nat \ {0} /\ DOMAIN q = 1 .. n /\ n \in DOMAIN q /\ last \in Runs2
      /\ \A i \in DOMAIN q : q[i] \in Runs2
    OBVIOUS
<1>2. MaxRunClusters \in Nat
    BY RunLimit
<1>3. last.offset \in Nat /\ last.length \in Nat \ {0} /\ last.length + more \in 1 .. MaxRunClusters
    BY <1>1, <1>2 DEF Runs2
<1>4. /\ DOMAIN g = DOMAIN q /\ g[n] = [last EXCEPT !.length = last.length + more]
      /\ \A i \in DOMAIN q : i # n => g[i] = q[i]
    BY <1>1
<1>5. g[n].offset = last.offset /\ g[n].length = last.length + more /\ g[n] \in Runs2
    BY <1>1, <1>3, <1>4 DEF Runs2
<1>6. g \in Seq(Runs2)
    <2>1. g \in [1 .. n -> Runs2]
        BY <1>1, <1>4, <1>5
    <2> QED BY <1>1, <2>1
<1> HIDE DEF g, n, last
<1>7. \A i, j \in 1 .. n : i < j => q[i].offset + q[i].length <= q[j].offset
    BY <1>1 DEF InOrder
<1>8. \A i \in 1 .. n : q[i].offset \in Nat /\ q[i].length \in Nat
    <2>1. \A x \in Runs2 : x.offset \in Nat /\ x.length \in Nat
        BY <1>2 DEF Runs2
    <2> QED BY <1>1, <2>1
<1>9. \A i, j \in 1 .. n : i < j => i # n
    BY <1>1
<1>10. InOrder(g)
    BY <1>1, <1>4, <1>5, <1>7, <1>9 DEF InOrder, last
<1>11. EndsBy(g, end)
    <2>1. ASSUME NEW i \in 1 .. n PROVE g[i].offset + g[i].length <= end
        <3>1. CASE i = n
            BY <1>3, <1>5, <3>1
        <3>2. CASE i # n
            <4>1. i < n /\ n \in 1 .. n
                BY <1>1, <3>2
            <4>2. q[i].offset + q[i].length <= last.offset
                BY <1>7, <4>1 DEF last
            <4>3. last.offset <= end
                BY <1>3
            <4>4. g[i] = q[i] /\ q[i].offset \in Nat /\ q[i].length \in Nat /\ end \in Nat
                <5>1. g[i] = q[i]
                    BY <1>1, <1>4, <3>2
                <5>2. end \in Nat
                    BY <1>3
                <5> QED BY <1>8, <5>1, <5>2
            <4>5. g[i].offset + g[i].length <= last.offset /\ last.offset \in Nat
                  /\ g[i].offset + g[i].length \in Int
                BY <1>3, <4>2, <4>4
            <4> HIDE DEF end
            <4> QED BY <4>3, <4>4, <4>5
        <3> QED BY <3>1, <3>2
    <2> QED BY <1>1, <1>4, <2>1 DEF EndsBy, Members
<1>12. Extent(last.offset, last.length + more)
         = Extent(last.offset, last.length) \cup Extent(last.offset + last.length, more)
    <2>1. ASSUME NEW a \in Nat, NEW b \in Nat
          PROVE  Extent(a, b + more) = Extent(a, b) \cup Extent(a + b, more)
        BY DEF Extent
    <2> QED BY <1>3, <2>1
<1>13. \A k : k \in Covered(q) <=> \E i \in 1 .. n : k \in Extent(q[i].offset, q[i].length)
    <2>1. DOMAIN q = 1 .. n
        BY <1>1
    <2> QED BY <2>1, CoveredBy
<1>14. \A k : k \in Covered(g) <=> \E i \in 1 .. n : k \in Extent(g[i].offset, g[i].length)
    <2>1. DOMAIN g = 1 .. n
        BY <1>1, <1>4
    <2> QED BY <2>1, CoveredBy
<1>15. \A i \in 1 .. n : Extent(g[i].offset, g[i].length)
          = IF i = n THEN Extent(q[i].offset, q[i].length) \cup Extent(last.offset + last.length, more)
            ELSE Extent(q[i].offset, q[i].length)
    BY <1>1, <1>4, <1>5, <1>12 DEF last
<1>16. Covered(g) = Covered(q) \cup Extent(last.offset + last.length, more)
    BY <1>1, <1>13, <1>14, <1>15
<1> QED BY <1>6, <1>10, <1>11, <1>16 DEF g, n, last

\* The runs with those of one more entry: its clusters are added, and no run is longer
\* than an item may be.
LEMMA JoinedRuns ==
    ASSUME NEW q \in Seq(Runs2), InOrder(q), NEW r, r.offset \in Nat, r.length \in Nat \ {0},
           EndsBy(q, r.offset)
    PROVE  LET Q == Joined(q, r)
           IN  /\ Q \in Seq(Runs2) /\ InOrder(Q) /\ EndsBy(Q, r.offset + r.length)
               /\ Covered(Q) = Covered(q) \cup Extent(r.offset, r.length)
<1> DEFINE last == q[Len(q)]
           first == q = <<>> \/ SegmentOf(last.offset) # SegmentOf(r.offset)
           more == IF first \/ last.offset + last.length < r.offset THEN 0
                   ELSE Lesser(MaxRunClusters - last.length, r.length)
           left == r.length - more
           grown == IF more = 0 THEN q ELSE [q EXCEPT ![Len(q)].length = @ + more]
           Q == grown \o SplitOf(r.offset + more, left)
<1>1. Joined(q, r) = Q
    BY DEF Joined, SplitOf
<1>2. MaxRunClusters \in Nat \ {0}
    BY RunLimit
<1>3. q # <<>> => /\ last.offset \in Nat /\ last.length \in 1 .. MaxRunClusters
                  /\ last.offset + last.length <= r.offset
    <2>1. ASSUME q # <<>> PROVE last \in Runs2 /\ last \in Members(q)
        BY <2>1 DEF Members
    <2>2. ASSUME q # <<>> PROVE last.offset + last.length <= r.offset
        BY <2>1, <2>2 DEF EndsBy
    <2> QED BY <2>1, <2>2 DEF Runs2
<1>4. more \in Nat /\ left \in Nat /\ more + left = r.length
    <2>1. ASSUME q # <<>>
          PROVE  /\ Lesser(MaxRunClusters - last.length, r.length) \in 0 .. r.length
                 /\ last.length + Lesser(MaxRunClusters - last.length, r.length) <= MaxRunClusters
        BY <1>2, <1>3, <2>1 DEF Lesser
    <2>2. more \in 0 .. r.length
        BY <2>1
    <2> HIDE DEF more
    <2> QED BY <2>2
<1>5. more # 0 => /\ q # <<>> /\ last.offset + last.length = r.offset
                  /\ last.length + more <= MaxRunClusters
    <2>1. ASSUME more # 0
          PROVE  /\ q # <<>> /\ ~ (last.offset + last.length < r.offset)
                 /\ more = Lesser(MaxRunClusters - last.length, r.length)
        BY <2>1
    <2>2. ASSUME NEW a \in 1 .. MaxRunClusters
          PROVE  a + Lesser(MaxRunClusters - a, r.length) <= MaxRunClusters
        BY <1>2 DEF Lesser
    <2>3. ASSUME more # 0
          PROVE  last.offset + last.length = r.offset /\ last.length \in 1 .. MaxRunClusters
        BY <1>2, <1>3, <2>1, <2>3
    <2> QED BY <2>1, <2>2, <2>3
<1>6. /\ grown \in Seq(Runs2) /\ InOrder(grown) /\ EndsBy(grown, r.offset + more)
      /\ Covered(grown) = Covered(q) \cup Extent(r.offset, more)
    <2> HIDE DEF more
    <2>1. CASE more = 0
        <3>1. Extent(r.offset, more) = {} /\ r.offset + more = r.offset
            BY <2>1 DEF Extent
        <3> QED BY <2>1, <3>1
    <2>2. CASE more # 0
        <3> DEFINE g == [q EXCEPT ![Len(q)].length = @ + more]
        <3>1. /\ g \in Seq(Runs2) /\ InOrder(g)
              /\ EndsBy(g, last.offset + (last.length + more))
              /\ Covered(g) = Covered(q) \cup Extent(last.offset + last.length, more)
            BY <1>4, <1>5, <2>2, GrownRuns
        <3>2. last.offset + (last.length + more) = r.offset + more
            BY <1>3, <1>4, <1>5, <2>2
        <3>3. grown = g
            BY <2>2
        <3> QED BY <1>5, <2>2, <3>1, <3>2, <3>3
    <2> QED BY <2>1, <2>2
<1>7. r.offset + more \in Nat /\ (r.offset + more) + left = r.offset + r.length
    BY <1>4
<1> HIDE DEF more, left, grown, last
<1> DEFINE t == SplitOf(r.offset + more, left)
<1>8. /\ t \in Seq(Runs2) /\ InOrder(t)
      /\ StartsFrom(t, r.offset + more) /\ EndsBy(t, r.offset + r.length)
      /\ Covered(t) = Extent(r.offset + more, left)
    <2>1. EndsBy(t, (r.offset + more) + left)
        BY <1>4, <1>7, SplitCovers
    <2> QED BY <1>4, <1>7, <2>1, SplitCovers
<1> HIDE DEF t
<1>9. \A x \in Runs2 : x.offset \in Nat /\ x.length \in Nat
    BY <1>2 DEF Runs2
<1>10. grown \o t \in Seq(Runs2) /\ Members(grown \o t) = Members(grown) \cup Members(t)
    BY <1>6, <1>8, TwoParts
<1>11. InOrder(grown \o t)
    <2>1. r.offset + more \in Int
        BY <1>7
    <2> QED BY <1>6, <1>8, <1>9, <2>1, PartsInOrder
<1>12. EndsBy(grown \o t, r.offset + r.length)
    <2>1. \A x \in Members(grown) : x.offset + x.length <= r.offset + r.length
        <3>1. Members(grown) \subseteq Runs2
            BY <1>6 DEF Members
        <3>2. r.offset + more <= r.offset + r.length
            BY <1>4
        <3> QED BY <1>6, <1>7, <1>9, <3>1, <3>2 DEF EndsBy
    <2> QED BY <1>8, <1>10, <2>1 DEF EndsBy
<1>13. Covered(grown \o t) = Covered(q) \cup Extent(r.offset, r.length)
    <2>1. Covered(grown \o t) = Covered(grown) \cup Covered(t)
        BY <1>10 DEF Covered
    <2>2. Extent(r.offset, r.length) = Extent(r.offset, more) \cup Extent(r.offset + more, left)
        <3>1. \A x : x \in Extent(r.offset, r.length)
                       <=> x \in Int /\ r.offset <= x /\ x < r.offset + r.length
            BY DEF Extent
        <3>2. \A x : x \in Extent(r.offset, more)
                       <=> x \in Int /\ r.offset <= x /\ x < r.offset + more
            BY <1>4 DEF Extent
        <3>3. \A x : x \in Extent(r.offset + more, left)
                       <=> x \in Int /\ r.offset + more <= x /\ x < r.offset + r.length
            <4>1. \A x : x \in Extent(r.offset + more, left)
                           <=> x \in Int /\ r.offset + more <= x /\ x < (r.offset + more) + left
                BY <1>4, <1>7 DEF Extent
            <4> QED BY <1>7, <4>1
        <3>4. ASSUME NEW x \in Int
              PROVE  (r.offset <= x /\ x < r.offset + r.length)
                       <=> \/ r.offset <= x /\ x < r.offset + more
                           \/ r.offset + more <= x /\ x < r.offset + r.length
            BY <1>4
        <3> QED BY <3>1, <3>2, <3>3, <3>4, Zenon
    <2> QED BY <1>6, <1>8, <2>1, <2>2
<1>14. Q = grown \o t
    BY DEF t
<1> QED BY <1>1, <1>10, <1>11, <1>12, <1>13, <1>14

-----------------------------------------------------------------------------
(* Where data goes: each of its extents lies within one segment.           *)

InSegment(start, length, p) ==
    p * DataChunkSize <= start /\ start + length <= (p * DataChunkSize) + DataChunkSize

DataInSegments ==
    \A i \in DOMAIN chunks :
        chunks[i].type = "data" => \E p \in Nat : InSegment(chunks[i].start, chunks[i].length, p)

LEMMA ScanSegmentInSegments ==
    ASSUME IInv, DataInSegments, ScanSegment
    PROVE  DataInSegments'
<1>1. Base(seg) < DeviceSize /\ seg \in Nat /\ TypeOK /\ Base(seg) \in Nat
    BY ScanSegmentShape DEF IInv
<1>2. CASE UNCHANGED chunks
    BY <1>2 DEF DataInSegments
<1>3. CASE UsedClusters(seg) # {}
    <2> DEFINE n == Len(chunks) + 1
    <2>1. /\ DOMAIN chunks = 1 .. Len(chunks) /\ DOMAIN chunks' = 1 .. n /\ Len(chunks) \in Nat
          /\ \A k \in DOMAIN chunks : chunks'[k] = chunks[k]
          /\ chunks'[n] = SegmentChunk(seg)
        BY <1>3, ScanSegmentShape
    <2> DEFINE c == SegmentChunk(seg)
    <2>2. c.start >= Base(seg) /\ c.start + c.length = Base(seg) + ChunkLength(seg)
        BY <1>1, SegmentChunkPlace
    <2>3. ChunkLength(seg) <= DataChunkSize /\ ChunkLength(seg) \in Nat
        BY <1>1, SegmentFacts
    <2>4. c.start \in Nat /\ c.length \in Nat
        BY <1>1, SegmentChunkPlace
    <2> HIDE DEF c
    <2>5. Base(seg) = seg * DataChunkSize
        BY DEF Base
    <2>6. InSegment(c.start, c.length, seg)
        BY <1>1, <2>2, <2>3, <2>4, <2>5 DEF InSegment
    <2>7. ASSUME NEW i \in DOMAIN chunks', chunks'[i].type = "data"
          PROVE  \E p \in Nat : InSegment(chunks'[i].start, chunks'[i].length, p)
        <3>1. CASE i = n
            BY <1>1, <2>1, <2>6, <3>1 DEF c
        <3>2. CASE i # n
            <4>1. i \in DOMAIN chunks
                BY <2>1, <2>7, <3>2
            <4> QED BY <2>1, <2>7, <4>1 DEF DataInSegments
        <3> QED BY <3>1, <3>2
    <2> QED BY <2>7 DEF DataInSegments, InSegment
<1> QED BY <1>2, <1>3, ScanSegmentShape

LEMMA CallInSegments ==
    ASSUME IInv, DeviceInv, DataInSegments, NEW type, NEW size, NEW length, NEW counted,
           AllocatorCall(type, size, length, counted)
    PROVE  DataInSegments'
<1>1. /\ type = "data" => size = DataChunkSize /\ phase \in {"protect", "rewrite"}
      /\ phase # "scan"
    BY DEF AllocatorCall
<1>2. CASE \E i \in DOMAIN chunks, addr \in Nat : TakenFrom(i, addr, length, type, counted)
    BY <1>2 DEF TakenFrom, DataInSegments, InSegment
<1>3. CASE ChunksKept
    BY <1>3 DEF ChunksKept, DataInSegments, InSegment
<1>4. ASSUME NEW n \in Nat, NEW start \in Nat, ChunkMade(n, start, size, type)
      PROVE  DataInSegments'
    <2>1. /\ DOMAIN chunks = 1 .. Len(chunks) /\ DOMAIN chunks' = 1 .. n /\ n = Len(chunks) + 1
          /\ \A k \in DOMAIN chunks : chunks'[k] = chunks[k]
          /\ chunks'[n].start = start /\ chunks'[n].length = size /\ chunks'[n].type = type
          /\ IsFirstFit(start, space_list, size)
        BY <1>4 DEF ChunkMade
    <2>2. ASSUME type = "data" PROVE \E p \in Nat : InSegment(start, size, p)
        <3>1. size = DataChunkSize /\ phase \in {"protect", "rewrite"}
            BY <1>1, <2>2
        <3>2. seg > 0
            BY <1>1 DEF DeviceInv, PlacesInv, IInv, TypeOK
        <3>3. GridBelow(space_list, DataChunkSize, DeviceSize)
            BY <3>1, <3>2 DEF DeviceInv, PlacesInv, ListGrid
        <3>4. Multiple(start, DataChunkSize)
            BY <2>1, <3>1, <3>3, ChunkSizeMultiple, NewDataChunkStart
        <3>5. DataChunkSize \in Nat \ {0}
            BY ChunkSizeMultiple
        <3>6. PICK p \in Int : start = p * DataChunkSize
            BY <3>4, <3>5, MultipleWitness
        <3>7. p \in Nat
            <4>1. CASE p < 0
                <5>1. (-1 - p) * DataChunkSize >= 0
                    BY <3>5, <3>6, <4>1
                <5> QED BY <3>5, <3>6, <5>1
            <4> QED BY <3>6, <4>1
        <3> QED BY <3>1, <3>5, <3>6, <3>7 DEF InSegment
    <2>3. ASSUME NEW i \in DOMAIN chunks', chunks'[i].type = "data"
          PROVE  \E p \in Nat : InSegment(chunks'[i].start, chunks'[i].length, p)
        <3>1. CASE i = n
            BY <2>1, <2>2, <2>3, <3>1
        <3>2. CASE i # n
            <4>1. i \in DOMAIN chunks
                BY <2>1, <2>3, <3>2
            <4> QED BY <2>1, <2>3, <4>1 DEF DataInSegments
        <3> QED BY <3>1, <3>2
    <2> QED BY <2>3 DEF DataInSegments, InSegment
<1> QED BY <1>2, <1>3, <1>4, CallShape

LEMMA InitInSegments ==
    ASSUME Init
    PROVE  DataInSegments
BY DEF Init, DataInSegments

LEMMA InSegmentsStep ==
    ASSUME ConvInv, DeviceInv, DataInSegments, [ConvNext]_<<vars, cvars>>
    PROVE  DataInSegments'
<1>1. IInv /\ StepPhase /\ Queues
    BY DEF ConvInv
<1>2. CASE ScanSegment
    BY <1>1, <1>2, ScanSegmentInSegments
<1>3. CASE Calls
    BY <1>1, <1>3, CallInSegments DEF Calls
<1>4. CASE Quiet
    BY <1>4 DEF Quiet, ChunksKept, DataInSegments
<1> QED BY <1>1, <1>2, <1>3, <1>4, ConvCases

LEMMA SegmentSize ==
    /\ ClustersPerChunk \in Nat \ {0} /\ ClusterSize \in Nat \ {0} /\ DataChunkSize \in Nat \ {0}
    /\ DataChunkSize = ClustersPerChunk * ClusterSize
<1>1. DataChunkSize \in Nat \ {0} /\ ClusterSize \in Nat \ {0} /\ DataChunkSize % ClusterSize = 0
    BY ChunkSizeMultiple, ConversionAssumption
<1>2. DataChunkSize = ClusterSize * (DataChunkSize \div ClusterSize)
    BY <1>1, Division
<1>3. DataChunkSize \div ClusterSize \in Nat
    BY <1>1
<1> QED BY <1>1, <1>2, <1>3 DEF ClustersPerChunk

\* The quotient is the one number that a is that many times b and less than b more.
LEMMA OneQuotient ==
    ASSUME NEW a \in Int, NEW b \in Nat \ {0}, NEW p \in Int, p * b <= a, a < (p * b) + b
    PROVE  a \div b = p
<1> DEFINE q == a \div b
           m == a % b
<1>1. a = b * q + m /\ q \in Int /\ m \in 0 .. b - 1
    BY Division
<1> HIDE DEF q, m
<1>2. q * b <= a /\ a < (q * b) + b
    BY <1>1
<1>3. ASSUME NEW x \in Int, NEW y \in Int, x < y PROVE (x * b) + b <= y * b
    <2>1. (y - (x + 1)) * b >= 0
        BY <1>3
    <2> QED BY <1>3, <2>1
<1>4. CASE p < q
    <2>1. (p * b) + b <= q * b
        BY <1>1, <1>3, <1>4
    <2> QED BY <1>1, <1>2, <2>1
<1>5. CASE q < p
    <2>1. (q * b) + b <= p * b
        BY <1>1, <1>3, <1>5
    <2> QED BY <1>1, <1>2, <2>1
<1> QED BY <1>1, <1>4, <1>5 DEF q

\* The clusters of a segment.
LEMMA ClusterSegment ==
    ASSUME NEW k \in Nat, NEW p \in Nat, p * DataChunkSize <= k * ClusterSize,
           k * ClusterSize < (p * DataChunkSize) + DataChunkSize
    PROVE  SegmentOf(k) = p
<1> DEFINE n == ClustersPerChunk
<1>1. n \in Nat \ {0} /\ ClusterSize \in Nat \ {0} /\ DataChunkSize = n * ClusterSize
    BY SegmentSize
<1>2. SegmentOf(k) = k \div n
    BY DEF SegmentOf
<1> HIDE DEF n
<1>3. ASSUME NEW x \in Int, NEW y \in Int
      PROVE  x * ClusterSize <= y * ClusterSize => x <= y
    <2>1. CASE x > y
        <3>1. (x - (y + 1)) * ClusterSize >= 0
            BY <1>1, <2>1
        <3> QED BY <1>1, <3>1
    <2> QED BY <2>1
<1>4. p * n \in Nat /\ (p * n) * ClusterSize = p * DataChunkSize
    BY <1>1
<1>5. ((p * n) + n) * ClusterSize = (p * DataChunkSize) + DataChunkSize
    BY <1>1, <1>4
<1>6. p * n <= k
    BY <1>3, <1>4
<1>7. k < (p * n) + n
    <2>1. CASE (p * n) + n <= k
        <3>1. (k - ((p * n) + n)) * ClusterSize >= 0
            BY <1>1, <1>4, <2>1
        <3>2. (k - ((p * n) + n)) * ClusterSize = k * ClusterSize - ((p * n) + n) * ClusterSize
            BY <1>1, <1>4
        <3>3. ((p * n) + n) * ClusterSize \in Int /\ k * ClusterSize \in Int
            BY <1>1, <1>4
        <3> QED BY <1>5, <3>1, <3>2, <3>3
    <2> QED BY <1>1, <1>4, <2>1
<1> QED BY <1>1, <1>2, <1>6, <1>7, OneQuotient

\* Clusters of an earlier segment come first.
LEMMA EarlierSegment ==
    ASSUME NEW j \in Nat, NEW k \in Nat, SegmentOf(j) < SegmentOf(k)
    PROVE  j < k
<1> DEFINE n == ClustersPerChunk
<1>1. n \in Int /\ n > 0
    BY SegmentSize
<1> HIDE DEF n
<1>2. j = n * (j \div n) + (j % n) /\ j \div n \in Int /\ j % n \in 0 .. n - 1
    BY <1>1, Division
<1>3. k = n * (k \div n) + (k % n) /\ k \div n \in Int /\ k % n \in 0 .. n - 1
    BY <1>1, Division
<1> DEFINE a == j \div n
           b == k \div n
<1>4. a < b
    BY DEF SegmentOf, n
<1> HIDE DEF a, b
<1>5. (b - (a + 1)) * n >= 0
    BY <1>1, <1>2, <1>3, <1>4 DEF a, b
<1>6. (b - (a + 1)) * n = n * b - (n * a + n) /\ n * a \in Int /\ n * b \in Int
    BY <1>1, <1>2, <1>3 DEF a, b
<1> QED BY <1>1, <1>2, <1>3, <1>5, <1>6 DEF a, b

\* The space that n clusters from c on were given: it is for data, and in one segment.
SpaceTaken(addr, n, c, t) ==
    /\ n \in Nat /\ c \in Nat \ {0} /\ t \in Segments
    /\ n * ClusterSize = addr
    /\ DataGranted' = DataGranted \cup Extent(n * ClusterSize, c * ClusterSize)
    /\ \A k \in Extent(n, c) : k \in Nat /\ SegmentOf(k) = t

LEMMA DataTaken ==
    ASSUME WholeClusters, IInv, GrantedAbove, GeometryInv', DataAligned', DataInSegments',
           DataInside', NEW length, NEW counted,
           AllocatorCall("data", DataChunkSize, length, counted), phase' # "failed"
    PROVE  SpaceTaken(Returned, Returned \div ClusterSize, length \div ClusterSize,
                      Returned \div DataChunkSize)
<1> DEFINE addr == Returned
           n == addr \div ClusterSize
           c == length \div ClusterSize
           t == addr \div DataChunkSize
           a == Allocation(addr, length, "data", counted)
<1>1. length \in Nat \ {0} /\ counted \in BOOLEAN /\ length % ClusterSize = 0
    <2>1. length = ClusterSize \/ length \in DataLengths
        BY DEF AllocatorCall
    <2>2. ClusterSize % ClusterSize = 0
        OBVIOUS
    <2> QED BY <2>1, <2>2 DEF AllocatorCall, WholeClusters
<1>2. addr \in Nat /\ allocated' = allocated \cup {a}
    BY CallReturns
<1> HIDE DEF addr
<1>3. a.type = "data" /\ a.addr = addr /\ a.length = length /\ a \in allocated'
    BY <1>2 DEF Allocation
<1> HIDE DEF a
<1>4. addr % ClusterSize = 0
    BY <1>3 DEF DataAligned
<1>5. n \in Nat /\ c \in Nat \ {0} /\ n * ClusterSize = addr /\ c * ClusterSize = length
    BY <1>1, <1>2, <1>4
<1> HIDE DEF n, c
<1>6. DataGranted' = DataGranted \cup Extent(addr, length)
    <2>1. DataAllocations' = DataAllocations \cup {a}
        BY <1>2, <1>3 DEF DataAllocations
    <2> QED BY <1>3, <2>1 DEF DataGranted
<1>7. TypeOK' /\ InsideChunk'
    BY DEF GeometryInv, IInv
<1>8. PICK i \in DOMAIN chunks' :
         /\ chunks'[i].type = "data"
         /\ Extent(addr, length) \subseteq Extent(chunks'[i].start, chunks'[i].length)
    BY <1>3, <1>7 DEF InsideChunk
<1>9. chunks'[i].start \in Nat /\ chunks'[i].length \in Nat
    <2>1. chunks' \in Seq(Chunks)
        BY <1>7 DEF TypeOK
    <2>2. chunks'[i] \in Chunks
        BY <2>1
    <2> QED BY <2>2 DEF Chunks
<1>10. PICK p \in Nat : InSegment(chunks'[i].start, chunks'[i].length, p)
    BY <1>8 DEF DataInSegments, InSegment
<1>11. p * DataChunkSize \in Nat /\ DataChunkSize \in Nat \ {0}
    BY ChunkSizeMultiple
<1>12. \A u \in Extent(addr, length) :
          p * DataChunkSize <= u /\ u < (p * DataChunkSize) + DataChunkSize
    BY <1>8, <1>9, <1>10, <1>11 DEF InSegment, Extent
<1>13. addr \in Extent(addr, length)
    BY <1>1, <1>2 DEF Extent
<1>14. t = p
    <2>1. p * DataChunkSize <= addr /\ addr < (p * DataChunkSize) + DataChunkSize
        BY <1>12, <1>13
    <2>2. addr \in Nat /\ p \in Nat /\ DataChunkSize \in Nat \ {0}
        BY <1>2, <1>11
    <2> QED BY <2>1, <2>2, OneQuotient
<1> HIDE DEF t
<1>15. ASSUME NEW k \in Extent(n, c) PROVE k \in Nat /\ SegmentOf(k) = p
    <2>1. k \in Nat /\ n <= k /\ k + 1 <= n + c
        BY <1>5, <1>15 DEF Extent
    <2>2. 1 \in Nat /\ c \in Nat
        BY <1>5
    <2>3. Extent(k * ClusterSize, 1 * ClusterSize) \subseteq Extent(n * ClusterSize, c * ClusterSize)
        BY <1>5, <2>1, <2>2, ScaledInside
    <2>4. k * ClusterSize \in Extent(k * ClusterSize, 1 * ClusterSize)
        BY <2>1 DEF Extent
    <2>5. k * ClusterSize \in Extent(addr, length)
        BY <1>5, <2>3, <2>4
    <2> QED BY <1>12, <2>1, <2>5, ClusterSegment
<1>16. p \in Segments
    <2>1. n \in Extent(n, c)
        BY <1>5 DEF Extent
    <2>2. addr \in 0 .. DeviceSize - 1
        BY <1>6, <1>13 DEF DataInside
    <2>3. n * ClusterSize <= DeviceSize
        BY <1>5, <2>2
    <2>4. SegmentOf(n) \in Segments
        BY <1>5, <2>3, SegmentPlaced
    <2> QED BY <1>15, <2>1, <2>4
<1> QED BY <1>5, <1>6, <1>14, <1>15, <1>16 DEF SpaceTaken, n, c, addr, t

-----------------------------------------------------------------------------
(* What the lists cover: in its segment, each cluster that was granted for *)
(* data, and no other cluster but those in use.                            *)

\* An entry lies in the segment that it is listed under.
Confined(R) == \A s \in Segments : \A k \in Covered(R[s]) : SegmentOf(k) = s

GrantedListed(R, G) ==
    \A k \in Nat : Extent(k * ClusterSize, ClusterSize) \cap G # {}
                     => SegmentOf(k) \in Segments /\ k \in Covered(R[SegmentOf(k)])

ListedGranted(R, U, G) ==
    \A s \in Segments : \A k \in Covered(R[s]) :
        k \in U \/ Extent(k * ClusterSize, ClusterSize) \subseteq G

Accounted(R, U, G) == Confined(R) /\ GrantedListed(R, G) /\ ListedGranted(R, U, G)

ListsInv == step # "scan" => Accounted(runs, ClustersInUse, DataGranted)

\* It is all about what the lists cover.
Cover(R) == [s \in Segments |-> Covered(R[s])]

LEMMA SameCover ==
    ASSUME NEW R, NEW Q, NEW U, NEW G, Accounted(R, U, G),
           Cover(Q) = Cover(R)
    PROVE  Accounted(Q, U, G)
<1>1. \A s \in Segments : Covered(Q[s]) = Covered(R[s])
    <2>1. ASSUME NEW s \in Segments PROVE Covered(Q[s]) = Covered(R[s])
        <3>1. Cover(Q)[s] = Covered(Q[s]) /\ Cover(R)[s] = Covered(R[s])
            BY DEF Cover
        <3> QED BY <3>1
    <2> QED BY <2>1
<1> QED BY <1>1 DEF Accounted, Confined, GrantedListed, ListedGranted

\* split_runs, in the list of segment t.
CutIn(R, t, offset, length, inode, file_offset) ==
    [R EXCEPT ![t] = Cut(R[t], offset, length, inode, file_offset)]

LEMMA CutCover ==
    ASSUME NEW R, NEW Known, Listed(R, Segments, Known), NEW t,
           NEW offset \in Nat, NEW length \in Nat \ {0}, NEW inode \in Int, NEW file_offset \in Nat,
           t \in Segments => ~ Torn(R[t], offset, length)
    PROVE  Cover(CutIn(R, t, offset, length, inode, file_offset)) = Cover(R)
<1> DEFINE Q == [R EXCEPT ![t] = Cut(R[t], offset, length, inode, file_offset)]
<1> SUFFICES ASSUME NEW s \in Segments PROVE Covered(Q[s]) = Covered(R[s])
    BY DEF Cover, CutIn
<1>1. R \in [Segments -> Seq(Entries)] /\ InOrder(R[s])
    BY DEF Listed
<1>2. CASE s = t
    <2>1. Q[s] = Cut(R[s], offset, length, inode, file_offset)
        BY <1>1, <1>2
    <2>2. R[s] \in Seq(Entries) /\ ~ Torn(R[s], offset, length)
        BY <1>1, <1>2
    <2> QED BY <1>1, <2>1, <2>2, CutInOrder
<1>3. CASE s # t
    BY <1>1, <1>3
<1> QED BY <1>2, <1>3

\* A cluster shares a unit with an extent only if it is in it, and then wholly.
LEMMA ClusterInExtent ==
    ASSUME NEW n \in Nat, NEW c \in Nat, NEW k \in Nat
    PROVE  /\ k \in Extent(n, c) => Extent(k * ClusterSize, ClusterSize)
                                      \subseteq Extent(n * ClusterSize, c * ClusterSize)
           /\ Extent(k * ClusterSize, ClusterSize) \cap Extent(n * ClusterSize, c * ClusterSize) # {}
                => k \in Extent(n, c)
<1>1. 1 * ClusterSize = ClusterSize /\ 1 \in Nat
    OBVIOUS
<1>2. ASSUME k \in Extent(n, c)
      PROVE  Extent(k * ClusterSize, ClusterSize) \subseteq Extent(n * ClusterSize, c * ClusterSize)
    <2>1. n <= k /\ k + 1 <= n + c
        BY <1>2 DEF Extent
    <2>2. Extent(k * ClusterSize, 1 * ClusterSize) \subseteq Extent(n * ClusterSize, c * ClusterSize)
        BY <1>1, <2>1, ScaledInside
    <2> QED BY <1>1, <2>2
<1>3. ASSUME k \notin Extent(n, c)
      PROVE  Extent(k * ClusterSize, ClusterSize) \cap Extent(n * ClusterSize, c * ClusterSize) = {}
    <2>1. CASE n + c <= k
        <3>1. Extent(n * ClusterSize, c * ClusterSize) \cap Extent(k * ClusterSize, 1 * ClusterSize) = {}
            BY <1>1, <2>1, ScaledApart
        <3> QED BY <1>1, <3>1
    <2>2. CASE k + 1 <= n
        <3>1. Extent(k * ClusterSize, 1 * ClusterSize) \cap Extent(n * ClusterSize, c * ClusterSize) = {}
            BY <1>1, <2>2, ScaledApart
        <3> QED BY <1>1, <3>1
    <2> QED BY <1>3, <2>1, <2>2 DEF Extent
<1> QED BY <1>2, <1>3

\* New data has an entry.
LEMMA ListsInserted ==
    ASSUME NEW R, NEW Known, Listed(R, Segments, Known), NEW U, NEW G, Accounted(R, U, G),
           NEW r \in Entries, Known \cap Extent(r.offset, r.length) = {},
           NEW t \in Segments, \A k \in Extent(r.offset, r.length) : SegmentOf(k) = t
    PROVE  Accounted([R EXCEPT ![t] = Insert(R[t], r)], U,
                     G \cup Extent(r.offset * ClusterSize, r.length * ClusterSize))
<1> DEFINE Q == [R EXCEPT ![t] = Insert(R[t], r)]
           E == Extent(r.offset, r.length)
           X == Extent(r.offset * ClusterSize, r.length * ClusterSize)
<1>1. R \in [Segments -> Seq(Entries)] /\ InOrder(R[t]) /\ Covered(R[t]) \cap E = {}
      /\ R[t] \in Seq(Entries)
    BY DEF Listed
<1>2. r.offset \in Nat /\ r.length \in Nat /\ E \subseteq Nat
    BY EntryFields DEF Extent
<1>3. Members(Insert(R[t], r)) = Members(R[t]) \cup {r}
    BY <1>1, InsertInOrder
<1>4. Covered(Insert(R[t], r)) = Covered(R[t]) \cup E
    BY <1>3 DEF Covered
<1>5. Covered(Q[t]) = Covered(R[t]) \cup E /\ \A s \in Segments : s # t => Q[s] = R[s]
    BY <1>1, <1>4
<1>6. \A k \in Nat : /\ k \in E => Extent(k * ClusterSize, ClusterSize) \subseteq X
                     /\ Extent(k * ClusterSize, ClusterSize) \cap X # {} => k \in E
    BY <1>2, ClusterInExtent
<1> HIDE DEF Q, E, X
<1>7. \A s \in Segments : \A k \in Covered(Q[s]) : k \in Covered(R[s]) \/ (s = t /\ k \in E)
    BY <1>5
<1>8. \A s \in Segments : Covered(R[s]) \subseteq Covered(Q[s])
    BY <1>5
<1>9. Confined(Q)
    BY <1>7 DEF Accounted, Confined, E
<1>10. GrantedListed(Q, G \cup X)
    <2>1. ASSUME NEW k \in Nat, Extent(k * ClusterSize, ClusterSize) \cap (G \cup X) # {}
          PROVE  SegmentOf(k) \in Segments /\ k \in Covered(Q[SegmentOf(k)])
        <3>1. CASE Extent(k * ClusterSize, ClusterSize) \cap G # {}
            BY <1>8, <3>1 DEF Accounted, GrantedListed
        <3>2. CASE Extent(k * ClusterSize, ClusterSize) \cap X # {}
            <4>1. k \in E
                BY <1>6, <3>2
            <4>2. SegmentOf(k) = t
                BY <4>1 DEF E
            <4> QED BY <1>5, <4>1, <4>2
        <3> QED BY <2>1, <3>1, <3>2
    <2> QED BY <2>1 DEF GrantedListed
<1>11. ListedGranted(Q, U, G \cup X)
    <2>1. ASSUME NEW s \in Segments, NEW k \in Covered(Q[s])
          PROVE  k \in U \/ Extent(k * ClusterSize, ClusterSize) \subseteq G \cup X
        <3>1. CASE k \in Covered(R[s])
            BY <3>1 DEF Accounted, ListedGranted
        <3>2. CASE k \in E
            BY <1>2, <1>6, <3>2 DEF E
        <3> QED BY <1>7, <3>1, <3>2
    <2> QED BY <2>1 DEF ListedGranted
<1> QED BY <1>9, <1>10, <1>11 DEF Accounted, Q, X

LEMMA ListsStay ==
    ASSUME ListsInv, UNCHANGED <<in_use, runs>>, DataGranted' = DataGranted,
           step' # "scan" => step # "scan"
    PROVE  ListsInv'
<1>1. ClustersInUse' = ClustersInUse
    BY SameUse
<1>2. ASSUME step' # "scan" PROVE Accounted(runs', ClustersInUse', DataGranted')
    BY <1>1, <1>2 DEF ListsInv
<1>3. Accounted(runs, ClustersInUse, DataGranted)' <=> Accounted(runs', ClustersInUse', DataGranted')
    BY DEF Accounted, Confined, GrantedListed, ListedGranted, Segments, SegmentOf, ClustersPerChunk
<1> QED BY <1>2, <1>3 DEF ListsInv

\* What the new lists are, with what is in use as it was.
LEMMA ListsMade ==
    ASSUME UNCHANGED in_use, Accounted(runs', ClustersInUse, DataGranted')
    PROVE  ListsInv'
<1>1. ClustersInUse' = ClustersInUse
    BY SameUse
<1>2. Accounted(runs', ClustersInUse', DataGranted')
    BY <1>1
<1>3. Accounted(runs, ClustersInUse, DataGranted)' <=> Accounted(runs', ClustersInUse', DataGranted')
    BY DEF Accounted, Confined, GrantedListed, ListedGranted, Segments, SegmentOf, ClustersPerChunk
<1> QED BY <1>2, <1>3 DEF ListsInv

LEMMA ParseDataBitmapLists ==
    ASSUME WholeBitmap, WholeSectors, IInv, ParseDataBitmap
    PROVE  ListsInv'
<1>1. phase = "scan" /\ UNCHANGED <<in_use, allocated>>
    BY DEF ParseDataBitmap, NextPhase
<1>2. DataGranted' = {}
    <2>1. allocated' = {}
        BY <1>1 DEF IInv, ScanProgress
    <2> QED BY <2>1 DEF DataGranted, DataAllocations
<1> DEFINE U == ClustersInUse
           S(s) == {k \in U : SegmentOf(k) = s}
<1>3. runs' = [s \in Segments |-> RunList(S(s))]
    BY DEF ParseDataBitmap
<1>4. U \in SUBSET Nat /\ IsFiniteSet(U)
    BY InUseKnown
<1> HIDE DEF U
<1>5. ASSUME NEW s \in Segments PROVE Covered(runs'[s]) = S(s)
    <2> DEFINE T == S(s)
    <2>1. T \subseteq U
        OBVIOUS
    <2> HIDE DEF T
    <2>2. T \in SUBSET Nat /\ IsFiniteSet(T)
        BY <1>4, <2>1, FS_Subset
    <2>3. Covered(RunList(T)) = T
        BY <2>2, RunListInOrder
    <2> QED BY <1>3, <2>3 DEF T
<1> DEFINE R == runs'
<1> HIDE DEF R
<1>6. \A s \in Segments : Covered(R[s]) = S(s)
    BY <1>5 DEF R
<1>7. Accounted(R, U, {})
    BY <1>6 DEF Accounted, Confined, GrantedListed, ListedGranted
<1> QED BY <1>1, <1>2, <1>7, ListsMade DEF R, U

LEMMA RelocateLists ==
    ASSUME WholeWords, ClusterBitmaps, WholeClusters, ConvInv, RunsInv, ListsInv, GeometryInv',
           DataAligned', NoOverwrite', DataInSegments', DataInside',
           step = "protect", NEW k \in Nat,
           AllocatorCall("data", DataChunkSize, ClusterSize, FALSE), phase' # "failed", Relocate(k)
    PROVE  ListsInv'
<1> DEFINE n == Returned \div ClusterSize
           s == SegmentOf(k)
           U == ClustersInUse
           cut == [runs EXCEPT ![s] = Cut(runs[s], k, 1, dummy_inode, 0)]
           copy == DataAlloc(n, 1, 0, 0, TRUE, FALSE)
           t == Returned \div DataChunkSize
<1>1. Listed(runs, Segments, KnownClusters) /\ IInv /\ GrantedAbove
    BY DEF RunsInv, ConvInv
<1>2. ClusterSize \div ClusterSize = 1
    OBVIOUS
<1>3. n \in Nat /\ KnownClusters \cap Extent(n, 1) = {}
    BY <1>1, <1>2, DataReturned
<1>4. SpaceTaken(Returned, n, 1, t)
    BY <1>1, <1>2, DataTaken
<1>5. /\ t \in Segments /\ DataGranted' = DataGranted \cup Extent(n * ClusterSize, 1 * ClusterSize)
      /\ \A j \in Extent(n, 1) : SegmentOf(j) = t
    BY <1>4 DEF SpaceTaken
<1>6. SegmentOf(n) = t
    BY <1>3, <1>5 DEF Extent
<1>7. runs' = [cut EXCEPT ![SegmentOf(n)] = Insert(cut[SegmentOf(n)], copy)]
    BY DEF Relocate
<1>8. Accounted(runs, U, DataGranted)
    BY DEF ListsInv
<1>9. dummy_inode \in Int /\ 0 \in Nat /\ 1 \in Nat \ {0}
    BY DEF dummy_inode
<1>10. copy \in Entries /\ copy.offset = n /\ copy.length = 1
    BY <1>3 DEF DataAlloc, Entries
<1> HIDE DEF n, t, copy, U
<1>11. s \in Segments => ~ Torn(runs[s], k, 1)
    BY <1>1, OneClusterWhole DEF Listed
<1> HIDE DEF s
<1>12. Listed(cut, Segments, KnownClusters)
    BY <1>1, <1>9, <1>11, ListedCut
<1>13. Cover(cut) = Cover(runs)
    <2>1. Cover(CutIn(runs, s, k, 1, dummy_inode, 0)) = Cover(runs)
        BY <1>1, <1>9, <1>11, CutCover
    <2> QED BY <2>1 DEF CutIn
<1> HIDE DEF cut
<1>14. Accounted(cut, U, DataGranted)
    BY <1>8, <1>13, SameCover
<1>15. Accounted([cut EXCEPT ![t] = Insert(cut[t], copy)], U,
                 DataGranted \cup Extent(copy.offset * ClusterSize, copy.length * ClusterSize))
    BY <1>3, <1>5, <1>10, <1>12, <1>14, ListsInserted
<1>16. Accounted(runs', U, DataGranted')
    BY <1>5, <1>6, <1>7, <1>10, <1>15
<1>17. UNCHANGED in_use
    BY <1>1, CallReturns
<1> QED BY <1>16, <1>17, ListsMade DEF U

LEMMA ProtectClusterLists ==
    ASSUME WholeWords, ClusterBitmaps, WholeClusters, ConvInv, RunsInv, ListsInv, GeometryInv',
           DataAligned', NoOverwrite', DataInSegments', DataInside', ProtectCluster
    PROVE  ListsInv'
<1>1. /\ step = "protect" /\ phase = "protect" /\ todo # <<>> /\ step' = "protect"
    BY DEF ProtectCluster, ConvInv, StepPhase
<1>2. Head(todo) \in Nat
    BY <1>1, HeadAndTail DEF RunsInv
<1>3. CASE Stays /\ UNCHANGED vars
    BY <1>1, <1>3, ListsStay DEF Stays, memory, vars, DataGranted, DataAllocations
<1>4. CASE /\ AllocateData(ClusterSize, FALSE)
           /\ IF phase' = "failed" THEN Stays ELSE Relocate(Head(todo))
    <2>1. AllocatorCall("data", DataChunkSize, ClusterSize, FALSE)
        BY <1>1, <1>4, DataCalls
    <2>2. CASE phase' = "failed"
        <3>1. UNCHANGED in_use /\ allocated' = allocated
            BY <1>1, <2>1, <2>2, CallReturns DEF ConvInv
        <3> QED BY <1>1, <1>4, <2>2, <3>1, ListsStay DEF Stays, memory, DataGranted, DataAllocations
    <2>3. CASE phase' # "failed"
        BY <1>1, <1>2, <1>4, <2>1, <2>3, RelocateLists
    <2> QED BY <2>2, <2>3
<1> QED BY <1>3, <1>4 DEF ProtectCluster

LEMMA SplitRunsLists ==
    ASSUME ConvInv, RunsInv, ListsInv, SplitRuns
    PROVE  ListsInv'
<1>1. /\ step = "files" /\ todo # <<>> /\ step' = "files" /\ UNCHANGED <<in_use, allocated>>
    BY DEF SplitRuns
<1>2. Head(todo) \in ConvertedFiles
    BY <1>1, HeadAndTail DEF ConvInv, Queues
<1>3. PICK p \in FilePieces :
         LET list == runs[SegmentOf(p.lcn)] IN
              IF Torn(list, p.lcn, p.length)
              THEN phase' = "failed" /\ UNCHANGED runs
              ELSE /\ runs' = [runs EXCEPT ![SegmentOf(p.lcn)] =
                                  Cut(list, p.lcn, p.length, Head(todo).inode, p.vcn)]
                   /\ UNCHANGED phase
    BY DEF SplitRuns
<1> DEFINE f == Head(todo)
           t == SegmentOf(p.lcn)
           U == ClustersInUse
<1>4. f.inode \in Int /\ f.mappings \in SUBSET [vcn : Nat, lcn : Nat, length : Nat \ {0}]
    BY <1>2 DEF ConvertedFiles, Files
<1>5. p.vcn \in Nat /\ p.lcn \in Nat /\ p.length \in Nat \ {0}
    <2>1. PICK m \in f.mappings : p \in Pieces(m)
        BY DEF FilePieces
    <2> HIDE DEF f
    <2>2. m \in [vcn : Nat, lcn : Nat, length : Nat \ {0}]
        BY <1>4
    <2> QED BY <2>1, <2>2, PieceType DEF RunsInv
<1>6. \/ UNCHANGED runs
      \/ /\ ~ Torn(runs[t], p.lcn, p.length)
         /\ runs' = [runs EXCEPT ![t] = Cut(runs[t], p.lcn, p.length, f.inode, p.vcn)]
    BY <1>3
<1>7. Listed(runs, Segments, KnownClusters) /\ Accounted(runs, U, DataGranted)
    BY <1>1 DEF RunsInv, ListsInv
<1>8. DataGranted' = DataGranted
    BY <1>1 DEF DataGranted, DataAllocations
<1> HIDE DEF f, t, U
<1>9. CASE UNCHANGED runs
    BY <1>1, <1>8, <1>9, ListsStay
<1>10. CASE /\ ~ Torn(runs[t], p.lcn, p.length)
            /\ runs' = [runs EXCEPT ![t] = Cut(runs[t], p.lcn, p.length, f.inode, p.vcn)]
    <2> DEFINE Q == [runs EXCEPT ![t] = Cut(runs[t], p.lcn, p.length, f.inode, p.vcn)]
    <2>1. Cover(Q) = Cover(runs)
        <3>1. t \in Segments => ~ Torn(runs[t], p.lcn, p.length)
            BY <1>10
        <3>2. f.inode \in Int /\ Listed(runs, Segments, KnownClusters)
            BY <1>4, <1>7
        <3>3. Cover(CutIn(runs, t, p.lcn, p.length, f.inode, p.vcn)) = Cover(runs)
            BY <1>5, <3>1, <3>2, CutCover
        <3> QED BY <3>3 DEF CutIn
    <2>2. runs' = Q
        BY <1>10
    <2> HIDE DEF Q
    <2>3. Accounted(runs', U, DataGranted')
        BY <1>7, <1>8, <2>1, <2>2, SameCover
    <2> QED BY <1>1, <2>3, ListsMade DEF U
<1> QED BY <1>6, <1>9, <1>10

LEMMA WriteDataLists ==
    ASSUME WholeWords, ClusterBitmaps, WholeClusters, ConvInv, RunsInv, ListsInv, GeometryInv',
           DataAligned', NoOverwrite', DataInSegments', DataInside', WriteData
    PROVE  ListsInv'
<1> DEFINE f == Head(todo)
           U == ClustersInUse
<1>1. /\ step = "files" /\ step' = "files" /\ todo # <<>> /\ phase = "rewrite" /\ f.mappings = {}
    BY DEF WriteData, ConvInv, StepPhase
<1>2. f \in ConvertedFiles
    BY <1>1, HeadAndTail DEF ConvInv, Queues
<1>3. /\ AllocateData(f.length, TRUE)
      /\ IF phase' = "failed"
         THEN UNCHANGED runs
         ELSE LET addr == Returned IN
                 runs' = [runs EXCEPT ![addr \div DataChunkSize] =
                                Insert(@, DataAlloc(addr \div ClusterSize,
                                                    f.length \div ClusterSize, f.inode,
                                                    f.pos \div ClusterSize, FALSE, TRUE))]
    BY DEF WriteData, Stays, memory
<1> HIDE DEF f
<1>5. f.length \in DataLengths /\ f.inode \in Nat \ {0} /\ f.pos \in Nat
    BY <1>1, <1>2 DEF ConvertedFiles, Files
<1>6. AllocatorCall("data", DataChunkSize, f.length, TRUE)
    BY <1>1, <1>3, <1>5, DataCalls
<1>7. Listed(runs, Segments, KnownClusters) /\ Accounted(runs, U, DataGranted)
    BY <1>1 DEF RunsInv, ListsInv
<1>8. UNCHANGED in_use
    BY <1>6, CallReturns DEF ConvInv
<1> HIDE DEF U
<1>9. CASE phase' = "failed"
    <2>1. allocated' = allocated
        BY <1>1, <1>6, <1>9, CallReturns DEF ConvInv
    <2> QED BY <1>1, <1>3, <1>8, <1>9, <2>1, ListsStay DEF DataGranted, DataAllocations
<1>10. CASE phase' # "failed"
    <2> DEFINE n == Returned \div ClusterSize
               c == f.length \div ClusterSize
               t == Returned \div DataChunkSize
               pos == f.pos \div ClusterSize
               r == DataAlloc(n, c, f.inode, pos, FALSE, TRUE)
    <2>1. n \in Nat /\ c \in Nat \ {0} /\ KnownClusters \cap Extent(n, c) = {}
        BY <1>6, <1>10, DataReturned DEF ConvInv
    <2>2. SpaceTaken(Returned, n, c, t)
        BY <1>6, <1>10, DataTaken DEF ConvInv
    <2>3. /\ t \in Segments
          /\ DataGranted' = DataGranted \cup Extent(n * ClusterSize, c * ClusterSize)
          /\ \A j \in Extent(n, c) : SegmentOf(j) = t
        BY <2>2 DEF SpaceTaken
    <2>4. pos \in Nat
        BY <1>5
    <2>5. runs' = [runs EXCEPT ![t] = Insert(runs[t], r)]
        BY <1>3, <1>10
    <2> HIDE DEF n, c, t, pos
    <2>6. r \in Entries /\ r.offset = n /\ r.length = c
        BY <1>5, <2>1, <2>4 DEF Entries, DataAlloc
    <2> HIDE DEF r
    <2>7. Accounted([runs EXCEPT ![t] = Insert(runs[t], r)], U,
                    DataGranted \cup Extent(r.offset * ClusterSize, r.length * ClusterSize))
        BY <1>7, <2>1, <2>3, <2>6, ListsInserted
    <2>8. Accounted(runs', U, DataGranted')
        BY <2>3, <2>5, <2>6, <2>7
    <2> QED BY <1>8, <2>8, ListsMade DEF U
<1> QED BY <1>9, <1>10

\* Blocks of trees are not data.
LEMMA LayOutBlockData ==
    ASSUME ConvInv, LayOutBlock
    PROVE  UNCHANGED in_use /\ DataGranted' = DataGranted
<1>1. PICK type, size, length :
         type # "data" /\ AllocatorCall(type, size, length, TRUE)
    <2>1. \/ AllocatorCall("system", SystemChunkSize, TreeSize, TRUE)
          \/ AllocatorCall("metadata", DataChunkSize, TreeSize, TRUE)
        BY LayOutBlockShape DEF ConvInv
    <2>2. "system" # "data" /\ "metadata" # "data"
        OBVIOUS
    <2> QED BY <2>1, <2>2, Zenon
<1>2. \/ allocated' = allocated
      \/ allocated' = allocated \cup {Allocation(Returned, length, type, TRUE)}
    BY <1>1, CallReturns DEF ConvInv
<1>3. UNCHANGED in_use
    BY <1>1, CallReturns DEF ConvInv
<1>4. Allocation(Returned, length, type, TRUE).type # "data"
    BY <1>1 DEF Allocation
<1>5. DataAllocations' = DataAllocations
    BY <1>2, <1>4 DEF DataAllocations
<1> QED BY <1>3, <1>5 DEF DataGranted

LEMMA OtherLists ==
    ASSUME ConvInv, ListsInv,
           \/ Scan \/ CalcUsedSpace \/ MapFile \/ CreateImage \/ CreateDataExtentItems
           \/ JoinRun \/ CalcChecksums \/ LayOutBlock \/ LayoutDone \/ WriteTrees
           \/ TreesWritten \/ WriteSuperblock \/ ClearFirstCluster
           \/ UNCHANGED <<vars, cvars>>
    PROVE  ListsInv'
<1>1. ASSUME UNCHANGED <<in_use, allocated, runs>>, step' # "scan" => step # "scan"
      PROVE  ListsInv'
    BY <1>1, ListsStay DEF DataGranted, DataAllocations
<1>2. CASE Scan
    BY <1>1, <1>2 DEF Scan, ScanSegment, cvars, memory
<1>3. CASE LayOutBlock
    BY <1>3, LayOutBlockData, ListsStay DEF LayOutBlock, cvars, memory
<1>4. CASE CalcUsedSpace \/ CalcChecksums
    BY <1>1, <1>4 DEF CalcUsedSpace, CalcChecksums, NextPhase
<1>5. CASE MapFile \/ CreateImage \/ CreateDataExtentItems \/ JoinRun
    BY <1>1, <1>5 DEF MapFile, CreateImage, CreateDataExtentItems, JoinRun, vars
<1>6. CASE LayoutDone \/ WriteTrees \/ TreesWritten \/ WriteSuperblock \/ ClearFirstCluster
    BY <1>1, <1>6
    DEF LayoutDone, WriteTrees, TreesWritten, WriteSuperblock, ClearFirstCluster, vars, memory
<1>7. CASE UNCHANGED <<vars, cvars>>
    BY <1>1, <1>7 DEF vars, cvars, memory
<1> QED BY <1>2, <1>3, <1>4, <1>5, <1>6, <1>7

LEMMA InitLists == ConvInit => ListsInv
BY DEF ConvInit, ListsInv

LEMMA ListsStep ==
    ASSUME WholeWords, ClusterBitmaps, WholeClusters, WholeBitmap, WholeSectors,
           ConvInv, RunsInv, ListsInv, GeometryInv', DataAligned', NoOverwrite', DataInSegments',
           DataInside', [ConvNext]_<<vars, cvars>>
    PROVE  ListsInv'
<1>1. CASE ParseDataBitmap
    BY <1>1, ParseDataBitmapLists DEF ConvInv
<1>2. CASE ProtectCluster
    BY <1>2, ProtectClusterLists
<1>3. CASE SplitRuns
    BY <1>3, SplitRunsLists
<1>4. CASE WriteData
    BY <1>4, WriteDataLists
<1> QED BY <1>1, <1>2, <1>3, <1>4, OtherLists DEF ConvNext

-----------------------------------------------------------------------------
(* calc_checksums joins the entries, one after the other. *)

\* The clusters that are to be summed: those of the entries whose data is where they are.
SummedOf(list) ==
    UNION {Extent(r.offset, r.length) : r \in {x \in Members(list) : x.inode # dummy_inode}}
SummedIn(lists) == UNION {SummedOf(lists[i]) : i \in DOMAIN lists}

\* Lists that follow one another.
InLine(q) ==
    /\ q \in Seq(Seq(Entries))
    /\ \A i \in DOMAIN q : InOrder(q[i])
    /\ \A i, j \in DOMAIN q : i < j =>
          \A x \in Members(q[i]), y \in Members(q[j]) : x.offset + x.length <= y.offset

StartFrom(q, k) == \A i \in DOMAIN q : StartsFrom(q[i], k)

\* What is joined ends before what is left begins, and together they have all that is to
\* be summed.
JoinInv ==
    /\ step \in {"scan", "protect", "files", "extents"} => runs2 = <<>>
    /\ step = "csums" =>
          /\ InLine(todo) /\ runs2 \in Seq(Runs2) /\ InOrder(runs2)
          /\ \A i \in DOMAIN todo : \A x \in Members(todo[i]) : EndsBy(runs2, x.offset)
          /\ SummedIn(runs) = Covered(runs2) \cup SummedIn(todo)

LEMMA FirstEntry ==
    ASSUME NEW list \in Seq(Entries), InOrder(list), list # <<>>
    PROVE  /\ Head(list) \in Entries /\ Tail(list) \in Seq(Entries) /\ InOrder(Tail(list))
           /\ Members(list) = {Head(list)} \cup Members(Tail(list))
           /\ StartsFrom(Tail(list), Head(list).offset + Head(list).length)
<1> DEFINE n == Len(list)
           t == Tail(list)
<1>1. /\ n \in Nat \ {0} /\ DOMAIN list = 1 .. n /\ Head(list) = list[1]
      /\ Head(list) \in Entries /\ t \in Seq(Entries)
    <2>1. DOMAIN list = 1 .. n /\ n \in Nat
        OBVIOUS
    <2>2. n # 0
        BY EmptySeq
    <2> QED BY <2>1, <2>2, HeadTailProperties
<1>2. DOMAIN t = 1 .. n - 1 /\ \A i \in 1 .. n - 1 : t[i] = list[i + 1]
    <2>1. list # <<>>
        OBVIOUS
    <2> QED BY <1>1, <2>1, HeadTailProperties
<1> HIDE DEF n, t
<1>3. InOrder(t)
    <2>1. ASSUME NEW i \in DOMAIN t, NEW j \in DOMAIN t, i < j
          PROVE  t[i].offset + t[i].length <= t[j].offset
        <3>1. i + 1 \in DOMAIN list /\ j + 1 \in DOMAIN list /\ i + 1 < j + 1
            BY <1>1, <1>2, <2>1
        <3>2. t[i] = list[i + 1] /\ t[j] = list[j + 1]
            BY <1>2
        <3>3. list[i + 1].offset + list[i + 1].length <= list[j + 1].offset
            BY <3>1 DEF InOrder
        <3> QED BY <3>2, <3>3
    <2> QED BY <2>1 DEF InOrder
<1>4. Members(list) = {Head(list)} \cup Members(t)
    <2>1. Members(list) \subseteq {Head(list)} \cup Members(t)
        <3>1. ASSUME NEW i \in DOMAIN list PROVE list[i] \in {Head(list)} \cup Members(t)
            <4>1. CASE i = 1
                BY <1>1, <4>1
            <4>2. CASE i # 1
                <5>1. i - 1 \in 1 .. n - 1 /\ (i - 1) + 1 = i
                    BY <1>1, <4>2
                <5> QED BY <1>2, <5>1 DEF Members
            <4> QED BY <4>1, <4>2
        <3> QED BY <3>1 DEF Members
    <2>2. ASSUME NEW i \in DOMAIN t PROVE t[i] \in Members(list)
        <3>1. i + 1 \in DOMAIN list
            BY <1>1, <1>2
        <3> QED BY <1>2, <3>1 DEF Members
    <2>3. Head(list) \in Members(list)
        BY <1>1 DEF Members
    <2> QED BY <2>1, <2>2, <2>3 DEF Members
<1>5. StartsFrom(t, Head(list).offset + Head(list).length)
    <2>1. ASSUME NEW i \in DOMAIN t PROVE list[1].offset + list[1].length <= t[i].offset
        <3>1. i + 1 \in DOMAIN list /\ 1 < i + 1 /\ 1 \in DOMAIN list
            BY <1>1, <1>2
        <3> QED BY <1>2, <3>1 DEF InOrder
    <2> QED BY <1>1, <2>1 DEF StartsFrom, Members
<1> QED BY <1>1, <1>3, <1>4, <1>5 DEF t

\* What is to be summed of the entry at the head of a list, and of the rest of it.
SummedEntry(r) == IF r.inode = dummy_inode THEN {} ELSE Extent(r.offset, r.length)

LEMMA SummedParts ==
    ASSUME NEW list, NEW r, NEW rest, Members(list) = {r} \cup Members(rest)
    PROVE  SummedOf(list) = SummedEntry(r) \cup SummedOf(rest)
BY DEF SummedOf, SummedEntry

LEMMA QueueHead ==
    ASSUME NEW q, InLine(q), q # <<>>
    PROVE  /\ Head(q) \in Seq(Entries) /\ InOrder(Head(q)) /\ Head(q) = q[1]
           /\ Len(q) \in Nat \ {0} /\ DOMAIN q = 1 .. Len(q) /\ 1 \in DOMAIN q
           /\ Tail(q) \in Seq(Seq(Entries)) /\ DOMAIN Tail(q) = 1 .. Len(q) - 1
           /\ \A i \in 1 .. Len(q) - 1 : i + 1 \in DOMAIN q /\ Tail(q)[i] = q[i + 1]
<1>1. q \in Seq(Seq(Entries)) /\ \A i \in DOMAIN q : InOrder(q[i])
    BY DEF InLine
<1>2. /\ Head(q) \in Seq(Entries) /\ Head(q) = q[1] /\ Len(q) \in Nat \ {0}
      /\ DOMAIN q = 1 .. Len(q) /\ Tail(q) \in Seq(Seq(Entries))
    <2>1. DOMAIN q = 1 .. Len(q) /\ Len(q) \in Nat
        BY <1>1
    <2>2. Len(q) # 0
        BY <1>1, EmptySeq
    <2> QED BY <1>1, <2>1, <2>2, HeadTailProperties
<1>3. DOMAIN Tail(q) = 1 .. Len(q) - 1 /\ \A i \in 1 .. Len(q) - 1 : Tail(q)[i] = q[i + 1]
    BY <1>1, <1>2, HeadTailProperties
<1> QED BY <1>1, <1>2, <1>3

\* An empty list is left behind.
LEMMA NextList ==
    ASSUME NEW q, InLine(q), q # <<>>, Head(q) = <<>>
    PROVE  /\ InLine(Tail(q)) /\ SummedIn(q) = SummedIn(Tail(q))
           /\ \A i \in DOMAIN Tail(q) : \E j \in DOMAIN q : Members(Tail(q)[i]) = Members(q[j])
<1> DEFINE t == Tail(q)
           n == Len(q)
<1>1. /\ q[1] = <<>> /\ n \in Nat \ {0} /\ DOMAIN q = 1 .. n
      /\ t \in Seq(Seq(Entries)) /\ DOMAIN t = 1 .. n - 1
      /\ \A i \in 1 .. n - 1 : i + 1 \in DOMAIN q /\ t[i] = q[i + 1]
    BY QueueHead
<1> HIDE DEF t, n
<1>2. InLine(t)
    <2>1. \A i \in DOMAIN t : InOrder(t[i])
        BY <1>1 DEF InLine
    <2>2. ASSUME NEW i \in DOMAIN t, NEW j \in DOMAIN t, i < j,
                 NEW x \in Members(t[i]), NEW y \in Members(t[j])
          PROVE  x.offset + x.length <= y.offset
        <3>0. i \in 1 .. n - 1 /\ j \in 1 .. n - 1
            BY <1>1
        <3>1. i + 1 \in DOMAIN q /\ j + 1 \in DOMAIN q /\ i + 1 < j + 1
            <4>1. i + 1 \in DOMAIN q /\ j + 1 \in DOMAIN q
                BY <1>1, <3>0
            <4>2. i \in Int /\ j \in Int
                BY <3>0
            <4> QED BY <2>2, <4>1, <4>2
        <3>2. t[i] = q[i + 1] /\ t[j] = q[j + 1]
            BY <1>1
        <3> QED BY <2>2, <3>1, <3>2 DEF InLine
    <2> QED BY <1>1, <2>1, <2>2 DEF InLine
<1>3. SummedOf(q[1]) = {}
    <2>1. Members(<<>>) = {}
        BY DEF Members
    <2> QED BY <1>1, <2>1 DEF SummedOf
<1>4. SummedIn(q) = SummedIn(t)
    <2>1. ASSUME NEW i \in DOMAIN q PROVE SummedOf(q[i]) \subseteq SummedIn(t)
        <3>1. CASE i = 1
            BY <1>3, <3>1
        <3>2. CASE i # 1
            <4>1. i - 1 \in DOMAIN t /\ (i - 1) + 1 = i
                BY <1>1, <3>2
            <4>2. t[i - 1] = q[i]
                BY <1>1, <4>1
            <4> QED BY <4>1, <4>2 DEF SummedIn
        <3> QED BY <3>1, <3>2
    <2>2. ASSUME NEW i \in DOMAIN t PROVE SummedOf(t[i]) \subseteq SummedIn(q)
        <3>1. i + 1 \in DOMAIN q /\ t[i] = q[i + 1]
            BY <1>1
        <3> QED BY <3>1 DEF SummedIn
    <2> QED BY <2>1, <2>2 DEF SummedIn
<1>5. ASSUME NEW i \in DOMAIN t PROVE \E j \in DOMAIN q : Members(t[i]) = Members(q[j])
    BY <1>1
<1> QED BY <1>2, <1>4, <1>5 DEF t

\* The entry at the head of the first list is taken from it.
LEMMA NextEntry ==
    ASSUME NEW q, InLine(q), q # <<>>, Head(q) # <<>>
    PROVE  LET r == Head(Head(q))
               Q == [q EXCEPT ![1] = Tail(Head(q))]
           IN  /\ r \in Entries /\ r \in Members(q[1]) /\ 1 \in DOMAIN q
               /\ InLine(Q) /\ StartFrom(Q, r.offset + r.length)
               /\ \A i \in DOMAIN Q : i \in DOMAIN q /\ Members(Q[i]) \subseteq Members(q[i])
               /\ SummedIn(q) = SummedEntry(r) \cup SummedIn(Q)
<1> DEFINE n == Len(q)
           h == Head(q)
           r == Head(h)
           rest == Tail(h)
           Q == [q EXCEPT ![1] = rest]
<1>1. h \in Seq(Entries) /\ InOrder(h) /\ h = q[1] /\ n \in Nat \ {0} /\ DOMAIN q = 1 .. n
    BY QueueHead
<1>2. q \in Seq(Seq(Entries))
    BY DEF InLine
<1> HIDE DEF h
<1>3. /\ r \in Entries /\ rest \in Seq(Entries) /\ InOrder(rest)
      /\ Members(h) = {r} \cup Members(rest) /\ StartsFrom(rest, r.offset + r.length)
    BY <1>1, FirstEntry DEF h
<1> HIDE DEF r, rest, n
<1>4. /\ Q \in Seq(Seq(Entries)) /\ DOMAIN Q = DOMAIN q /\ Q[1] = rest
      /\ \A i \in DOMAIN q : i # 1 => Q[i] = q[i]
    BY <1>1, <1>2, <1>3
<1> HIDE DEF Q
<1>5. \A i \in DOMAIN Q : i \in DOMAIN q /\ Members(Q[i]) \subseteq Members(q[i])
    BY <1>1, <1>3, <1>4
<1>6. InLine(Q)
    <2>1. \A i \in DOMAIN Q : InOrder(Q[i])
        BY <1>3, <1>4 DEF InLine
    <2>2. ASSUME NEW i \in DOMAIN Q, NEW j \in DOMAIN Q, i < j,
                 NEW x \in Members(Q[i]), NEW y \in Members(Q[j])
          PROVE  x.offset + x.length <= y.offset
        <3>1. i \in DOMAIN q /\ j \in DOMAIN q /\ x \in Members(q[i]) /\ y \in Members(q[j])
            BY <1>5
        <3> QED BY <2>2, <3>1 DEF InLine
    <2> QED BY <1>4, <2>1, <2>2 DEF InLine
<1>7. StartFrom(Q, r.offset + r.length)
    <2>1. ASSUME NEW i \in DOMAIN Q, NEW y \in Members(Q[i]) PROVE y.offset >= r.offset + r.length
        <3>1. CASE i = 1
            BY <1>3, <1>4, <2>1, <3>1 DEF StartsFrom
        <3>2. CASE i # 1
            <4>1. 1 < i /\ 1 \in DOMAIN q /\ i \in DOMAIN q
                BY <1>1, <1>4, <3>2
            <4>2. r \in Members(q[1]) /\ y \in Members(q[i])
                BY <1>1, <1>3, <1>5
            <4>3. r.offset + r.length <= y.offset
                BY <4>1, <4>2 DEF InLine
            <4>4. y \in Entries
                BY <1>2, <4>1, <4>2, MemberEntries
            <4> QED BY <1>3, <4>3, <4>4, EntryFields
        <3> QED BY <3>1, <3>2
    <2> QED BY <2>1 DEF StartFrom, StartsFrom
<1>8. SummedIn(q) = SummedEntry(r) \cup SummedIn(Q)
    <2>1. SummedOf(q[1]) = SummedEntry(r) \cup SummedOf(Q[1])
        <3>1. Members(q[1]) = {r} \cup Members(Q[1])
            BY <1>1, <1>3, <1>4
        <3> QED BY <3>1, SummedParts
    <2>2. \A i \in DOMAIN q : i # 1 => SummedOf(q[i]) = SummedOf(Q[i])
        BY <1>4
    <2>3. 1 \in DOMAIN q /\ DOMAIN q = DOMAIN Q
        BY <1>1, <1>4
    <2> QED BY <2>1, <2>2, <2>3 DEF SummedIn
<1>9. r \in Members(q[1]) /\ 1 \in DOMAIN q
    BY <1>1, <1>3
<1> QED BY <1>3, <1>5, <1>6, <1>7, <1>8, <1>9 DEF r, h, Q, rest

LEMMA EndsLater ==
    ASSUME NEW list \in Seq(Runs2), NEW j \in Nat, NEW k \in Nat, EndsBy(list, j), j <= k
    PROVE  EndsBy(list, k)
<1>1. ASSUME NEW i \in DOMAIN list PROVE list[i].offset + list[i].length <= k
    <2>1. list[i] \in Runs2
        OBVIOUS
    <2>2. list[i].offset \in Nat /\ list[i].length \in Nat
        BY <2>1, RunLimit DEF Runs2
    <2>3. list[i].offset + list[i].length <= j
        BY DEF EndsBy, Members
    <2> QED BY <2>2, <2>3
<1> QED BY <1>1 DEF EndsBy, Members

\* Nothing is joined yet, and all is left: the lists of the segments follow one another.
LEMMA JoinBegins ==
    ASSUME RunsInv, ListsInv, JoinInv, CreateDataExtentItems
    PROVE  JoinInv'
<1>1. /\ step = "extents" /\ step' = "csums" /\ runs2' = runs2 /\ runs' = runs
      /\ todo' = [i \in 1 .. Cardinality(Segments) |-> runs[i - 1]]
    BY DEF CreateDataExtentItems
<1> DEFINE S == (DeviceSize + Reserved) \div DataChunkSize
<1>2. S \in Nat /\ Segments = 0 .. S /\ Cardinality(Segments) = S + 1
    <2>1. DeviceSize + Reserved \in Nat /\ DataChunkSize \in Nat \ {0}
        BY SegmentSize DEF Segments
    <2>2. S \in Nat
        <3>1. \A a \in Nat, b \in Nat \ {0} : a \div b \in Nat
            OBVIOUS
        <3> QED BY <2>1, <3>1
    <2>3. Cardinality(0 .. S) = S + 1
        <3> HIDE DEF S
        <3>1. 0 \in Int /\ S \in Int
            BY <2>2
        <3>2. Cardinality(0 .. S) = IF 0 > S THEN 0 ELSE S - 0 + 1
            BY <3>1, FS_Interval
        <3> QED BY <2>2, <3>2
    <2> QED BY <2>2, <2>3 DEF Segments
<1> HIDE DEF S
<1>3. /\ DOMAIN todo' = 1 .. S + 1
      /\ \A i \in 1 .. S + 1 : i - 1 \in Segments /\ todo'[i] = runs[i - 1]
    <2>1. todo' = [i \in 1 .. S + 1 |-> runs[i - 1]]
        BY <1>1, <1>2
    <2>2. \A i \in 1 .. S + 1 : i - 1 \in 0 .. S
        BY <1>2
    <2> QED BY <1>2, <2>1, <2>2
<1>4. runs \in [Segments -> Seq(Entries)] /\ \A s \in Segments : InOrder(runs[s])
    BY DEF RunsInv, Listed
<1>5. Confined(runs)
    BY <1>1 DEF ListsInv, Accounted
<1>6. todo' \in Seq(Seq(Entries))
    <2>1. \A i \in 1 .. S + 1 : runs[i - 1] \in Seq(Entries)
        BY <1>3, <1>4
    <2>2. todo' = [i \in 1 .. S + 1 |-> runs[i - 1]] /\ S + 1 \in Nat
        BY <1>1, <1>2
    <2>3. ASSUME NEW T, NEW n \in Nat, NEW f(_), \A i \in 1 .. n : f(i) \in T
          PROVE  [i \in 1 .. n |-> f(i)] \in Seq(T)
        BY <2>3
    <2> QED BY <2>1, <2>2
<1>7. ASSUME NEW s \in Segments, NEW t \in Segments, s < t,
             NEW x \in Members(runs[s]), NEW y \in Members(runs[t])
      PROVE  x.offset + x.length <= y.offset
    <2>1. x \in Entries /\ y \in Entries
        BY <1>4, MemberEntries
    <2>2. /\ x.offset \in Nat /\ x.length \in Nat /\ x.length > 0
          /\ y.offset \in Nat /\ y.length \in Nat /\ y.length > 0
        BY <2>1, EntryFields
    <2> DEFINE e == x.offset + x.length - 1
    <2>3. e \in Nat /\ e \in Extent(x.offset, x.length) /\ y.offset \in Extent(y.offset, y.length)
        BY <2>2 DEF Extent
    <2>4. x.offset + x.length = e + 1
        BY <2>2
    <2> HIDE DEF e
    <2>5. e \in Covered(runs[s]) /\ y.offset \in Covered(runs[t])
        BY <2>3 DEF Covered
    <2>6. SegmentOf(e) = s /\ SegmentOf(y.offset) = t
        BY <1>5, <2>5 DEF Confined
    <2>7. e < y.offset
        BY <1>7, <2>2, <2>3, <2>6, EarlierSegment
    <2> QED BY <2>2, <2>3, <2>4, <2>7
<1>8. InLine(todo')
    <2>1. \A i \in DOMAIN todo' : InOrder(todo'[i])
        BY <1>3, <1>4
    <2>2. ASSUME NEW i \in DOMAIN todo', NEW j \in DOMAIN todo', i < j,
                 NEW x \in Members(todo'[i]), NEW y \in Members(todo'[j])
          PROVE  x.offset + x.length <= y.offset
        <3>1. i - 1 \in Segments /\ j - 1 \in Segments
            BY <1>3
        <3>2. i - 1 < j - 1
            BY <1>2, <1>3, <2>2
        <3>3. x \in Members(runs[i - 1]) /\ y \in Members(runs[j - 1])
            BY <1>3, <2>2
        <3> QED BY <1>7, <3>1, <3>2, <3>3
    <2> QED BY <1>6, <2>1, <2>2 DEF InLine
<1>9. runs2' = <<>> /\ Members(runs2') = {} /\ Covered(runs2') = {} /\ runs2' \in Seq(Runs2)
      /\ InOrder(runs2')
    <2>1. runs2' = <<>>
        BY <1>1 DEF JoinInv
    <2>2. Members(runs2') = {}
        BY <2>1 DEF Members
    <2>3. InOrder(runs2')
        BY <2>1 DEF InOrder
    <2> QED BY <2>1, <2>2, <2>3 DEF Covered
<1>10. SummedIn(runs') = SummedIn(todo')
    <2>1. DOMAIN runs' = Segments
        BY <1>1, <1>4
    <2>2. ASSUME NEW s \in Segments PROVE SummedOf(runs'[s]) \subseteq SummedIn(todo')
        <3>1. s + 1 \in DOMAIN todo' /\ (s + 1) - 1 = s
            BY <1>2, <1>3
        <3>2. todo'[s + 1] = runs'[s]
            BY <1>1, <1>3, <3>1
        <3> QED BY <3>1, <3>2 DEF SummedIn
    <2>3. ASSUME NEW i \in DOMAIN todo' PROVE SummedOf(todo'[i]) \subseteq SummedIn(runs')
        <3>1. i - 1 \in DOMAIN runs' /\ todo'[i] = runs'[i - 1]
            BY <1>1, <1>3, <2>1
        <3> QED BY <3>1 DEF SummedIn
    <2> QED BY <2>1, <2>2, <2>3 DEF SummedIn
<1> QED BY <1>1, <1>8, <1>9, <1>10 DEF JoinInv, EndsBy

\* One entry after the other.
LEMMA JoinRunKeeps ==
    ASSUME JoinInv, JoinRun
    PROVE  JoinInv'
<1>1. step = "csums" /\ step' = "csums" /\ todo # <<>> /\ runs' = runs
    BY DEF JoinRun
<1>2. /\ InLine(todo) /\ runs2 \in Seq(Runs2) /\ InOrder(runs2)
      /\ \A i \in DOMAIN todo : \A x \in Members(todo[i]) : EndsBy(runs2, x.offset)
      /\ SummedIn(runs) = Covered(runs2) \cup SummedIn(todo)
    BY <1>1 DEF JoinInv
<1>3. CASE Head(todo) = <<>>
    <2>1. todo' = Tail(todo) /\ runs2' = runs2
        BY <1>3 DEF JoinRun
    <2>2. /\ InLine(todo') /\ SummedIn(todo) = SummedIn(todo')
          /\ \A i \in DOMAIN todo' : \E j \in DOMAIN todo : Members(todo'[i]) = Members(todo[j])
        BY <1>1, <1>2, <1>3, <2>1, NextList
    <2>3. \A i \in DOMAIN todo' : \A x \in Members(todo'[i]) : EndsBy(runs2', x.offset)
        BY <1>2, <2>1, <2>2
    <2> QED BY <1>1, <1>2, <2>1, <2>2, <2>3 DEF JoinInv
<1>4. CASE Head(todo) # <<>>
    <2> DEFINE r == Head(Head(todo))
               Q == [todo EXCEPT ![1] = Tail(Head(todo))]
    <2>1. todo' = Q /\ runs2' = IF r.inode = dummy_inode THEN runs2 ELSE Joined(runs2, r)
        BY <1>4 DEF JoinRun
    <2>2. /\ r \in Entries /\ r \in Members(todo[1]) /\ 1 \in DOMAIN todo
          /\ InLine(Q) /\ StartFrom(Q, r.offset + r.length)
          /\ \A i \in DOMAIN Q : i \in DOMAIN todo /\ Members(Q[i]) \subseteq Members(todo[i])
          /\ SummedIn(todo) = SummedEntry(r) \cup SummedIn(Q)
        BY <1>1, <1>2, <1>4, NextEntry
    <2> HIDE DEF r, Q
    <2>3. r.offset \in Nat /\ r.length \in Nat \ {0} /\ EndsBy(runs2, r.offset)
        BY <1>2, <2>2, EntryFields
    <2>4. CASE r.inode = dummy_inode
        <3>1. runs2' = runs2 /\ SummedEntry(r) = {}
            BY <2>1, <2>4 DEF SummedEntry
        <3>2. SummedIn(runs') = Covered(runs2') \cup SummedIn(todo')
            BY <1>1, <1>2, <2>1, <2>2, <3>1
        <3>3. \A i \in DOMAIN todo' : \A x \in Members(todo'[i]) : EndsBy(runs2', x.offset)
            BY <1>2, <2>1, <2>2, <3>1
        <3> QED BY <1>1, <1>2, <2>1, <2>2, <3>1, <3>2, <3>3 DEF JoinInv
    <2>5. CASE r.inode # dummy_inode
        <3>1. /\ runs2' \in Seq(Runs2) /\ InOrder(runs2') /\ EndsBy(runs2', r.offset + r.length)
              /\ Covered(runs2') = Covered(runs2) \cup Extent(r.offset, r.length)
            BY <1>2, <2>1, <2>3, <2>5, JoinedRuns
        <3>2. SummedEntry(r) = Extent(r.offset, r.length)
            BY <2>5 DEF SummedEntry
        <3>3. SummedIn(runs') = Covered(runs2') \cup SummedIn(todo')
            BY <1>1, <1>2, <2>1, <2>2, <3>1, <3>2
        <3>4. ASSUME NEW i \in DOMAIN todo', NEW x \in Members(todo'[i])
              PROVE  EndsBy(runs2', x.offset)
            <4>1. r.offset + r.length \in Nat
                BY <2>3
            <4>2. x.offset >= r.offset + r.length
                BY <2>1, <2>2 DEF StartFrom, StartsFrom
            <4>3. x.offset \in Nat
                <5>1. todo'[i] \in Seq(Entries)
                    BY <2>1, <2>2 DEF InLine
                <5>2. x \in Entries
                    BY <5>1, MemberEntries
                <5> QED BY <5>2, EntryFields
            <4>4. r.offset + r.length <= x.offset
                BY <4>1, <4>2, <4>3
            <4> QED BY <3>1, <4>1, <4>3, <4>4, EndsLater
        <3> QED BY <1>1, <2>1, <2>2, <3>1, <3>3, <3>4 DEF JoinInv
    <2> QED BY <2>4, <2>5
<1> QED BY <1>3, <1>4

LEMMA InitJoin == ConvInit => JoinInv
BY DEF ConvInit, JoinInv

\* Nothing else has a part in it.
LEMMA OtherJoins ==
    ASSUME JoinInv, [ConvNext]_<<vars, cvars>>, ~ CreateDataExtentItems, ~ JoinRun
    PROVE  JoinInv'
<1>1. CASE UNCHANGED <<vars, cvars>>
    <2>1. UNCHANGED <<step, runs2, todo, runs>>
        BY <1>1 DEF cvars, memory
    <2> QED BY <2>1 DEF JoinInv
<1>2. CASE \/ Scan \/ ParseDataBitmap \/ ProtectCluster \/ CalcUsedSpace \/ MapFile \/ SplitRuns
           \/ WriteData \/ CreateImage
    <2>1. /\ step' \in {"scan", "protect", "files", "extents"}
          /\ step \in {"scan", "protect", "files", "extents"} /\ runs2' = runs2
        <3>1. CASE Scan
            BY <3>1 DEF Scan, cvars, memory
        <3>2. CASE ParseDataBitmap
            BY <3>2 DEF ParseDataBitmap
        <3>3. CASE ProtectCluster
            <4>1. UNCHANGED step /\ (Stays \/ UNCHANGED runs2)
                BY <3>3 DEF ProtectCluster
            <4>2. step = "protect"
                BY <3>3 DEF ProtectCluster
            <4> QED BY <4>1, <4>2 DEF Stays, memory
        <3>4. CASE CalcUsedSpace
            BY <3>4 DEF CalcUsedSpace
        <3>5. CASE MapFile
            BY <3>5 DEF MapFile
        <3>6. CASE SplitRuns
            BY <3>6 DEF SplitRuns
        <3>7. CASE WriteData
            <4>1. UNCHANGED step /\ (Stays \/ UNCHANGED runs2)
                BY <3>7 DEF WriteData
            <4>2. step = "files"
                BY <3>7 DEF WriteData
            <4> QED BY <4>1, <4>2 DEF Stays, memory
        <3>8. CASE CreateImage
            BY <3>8 DEF CreateImage
        <3> QED BY <1>2, <3>1, <3>2, <3>3, <3>4, <3>5, <3>6, <3>7, <3>8
    <2> QED BY <2>1 DEF JoinInv
<1>3. CASE \/ CalcChecksums \/ LayOutBlock \/ LayoutDone \/ WriteTrees \/ TreesWritten
           \/ WriteSuperblock \/ ClearFirstCluster
    <2>1. step' \in {"trees", "blocks", "supers", "done"}
        BY <1>3 DEF CalcChecksums, LayOutBlock, LayoutDone, WriteTrees, TreesWritten,
                    WriteSuperblock, ClearFirstCluster, cvars
    <2> QED BY <2>1 DEF JoinInv
<1> QED BY <1>1, <1>2, <1>3 DEF ConvNext

LEMMA JoinStep ==
    ASSUME RunsInv, ListsInv, JoinInv, [ConvNext]_<<vars, cvars>>
    PROVE  JoinInv'
BY JoinBegins, JoinRunKeeps, OtherJoins

-----------------------------------------------------------------------------
(* What is summed. *)

Late == step \in {"trees", "blocks", "supers", "done"}

\* What was in the unit u is there for good: it is in data that was granted, or in a
\* cluster that NTFS had and that was not moved.
KeptAs(u, content) ==
    \/ u \in DataGranted /\ u \in DOMAIN disk /\ disk[u] = content
    \/ /\ u \in NtfsUnits /\ content = Ntfs(u)
       /\ \E k \in ClustersInUse : k \in Nat /\ k \notin Moved /\ u \in Extent(k * ClusterSize, ClusterSize)

SummedOnce(u) == Cardinality({c \in csums : u \in DOMAIN c.sums}) = 1

SumInv ==
    Late =>
        /\ \A c \in csums : /\ Cardinality(DOMAIN c.sums) <= MaxRun
                            /\ \A u \in DOMAIN c.sums : KeptAs(u, c.sums[u])
        /\ \A k \in SummedIn(runs) : k \in Nat =>
              \A u \in Extent(k * ClusterSize, ClusterSize) \cap DOMAIN disk : SummedOnce(u)

\* The cluster of a unit.
LEMMA UnitCluster ==
    ASSUME NEW u \in Nat
    PROVE  \E k \in Nat : u \in Extent(k * ClusterSize, ClusterSize)
<1>1. ClusterSize \in Int /\ ClusterSize > 0 /\ u \in Int
    OBVIOUS
<1> DEFINE k == u \div ClusterSize
           m == u % ClusterSize
<1>2. u = ClusterSize * k + m /\ k \in Int /\ m \in 0 .. ClusterSize - 1
    BY <1>1, Division
<1> HIDE DEF k, m
<1>3. k \in Nat
    <2>1. CASE k < 0
        <3>1. (-1 - k) * ClusterSize >= 0
            BY <1>1, <1>2, <2>1
        <3>2. (-1 - k) * ClusterSize = 0 - ClusterSize - (ClusterSize * k)
            BY <1>1, <1>2
        <3> QED BY <1>1, <1>2, <3>1, <3>2
    <2> QED BY <1>2, <2>1
<1>4. ClusterSize * k = k * ClusterSize /\ k * ClusterSize \in Nat
    BY <1>1, <1>3
<1> QED BY <1>1, <1>2, <1>3, <1>4 DEF Extent

\* The unit of a cluster that is summed.
LEMMA SummedStays ==
    ASSUME WholeWords, ClusterBitmaps, WholeClusters, WholeBitmap, WholeSectors,
           SuperblockReserved, ConvInv, RunsInv, ImageInv, ListsInv, ImageDone,
           NEW k \in SummedIn(runs), NEW u \in Extent(k * ClusterSize, ClusterSize) \cap DOMAIN disk
    PROVE  KeptAs(u, disk[u])
<1>1. step # "scan" /\ step # "protect"
    BY DEF ImageDone
<1>2. runs \in [Segments -> Seq(Entries)]
    BY DEF RunsInv, Listed
<1>3. PICK s \in Segments : k \in SummedOf(runs[s])
    BY <1>2 DEF SummedIn
<1>4. PICK r \in Members(runs[s]) : r.inode # dummy_inode /\ k \in Extent(r.offset, r.length)
    BY <1>3 DEF SummedOf
<1>5. EntryTells(r, s, ClustersInUse, Moved, FALSE)
    <2>1. EntriesTell(runs, ClustersInUse, Moved, FALSE)
        BY <1>1 DEF ImageInv, EntriesKept
    <2> QED BY <1>4, <2>1 DEF EntriesTell
<1>6. k \in Covered(runs[s])
    BY <1>4 DEF Covered
<1>7. k \in ClustersInUse \/ Extent(k * ClusterSize, ClusterSize) \subseteq DataGranted
    BY <1>1, <1>6 DEF ListsInv, Accounted, ListedGranted
<1>8. CASE k \in ClustersInUse
    <2>1. k \in Nat /\ k * ClusterSize \in in_use
        BY <1>8, InUseClusters
    <2>2. k \notin Moved
        BY <1>4, <1>5, <1>8 DEF EntryTells, TellsOfUse
    <2>3. u \in NtfsUnits
        BY <2>1 DEF NtfsUnits, ClusterSpace
    <2>4. disk[u] = Ntfs(u)
        BY <1>8, <2>1, <2>2, <2>3, InPlaceKept
    <2> QED BY <1>8, <2>1, <2>2, <2>3, <2>4 DEF KeptAs
<1>9. CASE Extent(k * ClusterSize, ClusterSize) \subseteq DataGranted
    BY <1>9 DEF KeptAs
<1> QED BY <1>7, <1>8, <1>9

\* No item is too long.
LEMMA ItemLength ==
    ASSUME NEW r \in Runs2, NEW D
    PROVE  Cardinality(Extent(r.offset * ClusterSize, r.length * ClusterSize) \cap D) <= MaxRun
<1>1. /\ r.offset \in Nat /\ r.length \in Nat /\ r.length <= MaxRunClusters
      /\ MaxRunClusters \in Nat /\ MaxRunClusters * ClusterSize <= MaxRun /\ MaxRun \in Nat
    BY RunLimit DEF Runs2
<1> DEFINE a == r.offset * ClusterSize
           n == r.length * ClusterSize
<1>2. a \in Nat /\ n \in Nat
    BY <1>1
<1>3. n <= MaxRun
    <2>1. n <= MaxRunClusters * ClusterSize
        BY <1>1, ScaledOrder
    <2>2. MaxRunClusters * ClusterSize \in Nat
        BY <1>1
    <2> QED BY <1>1, <1>2, <2>1, <2>2
<1> HIDE DEF a, n
<1>4. IsFiniteSet(Extent(a, n)) /\ Cardinality(Extent(a, n)) <= n
    <2> DEFINE b == a + n - 1
    <2>1. a \in Int /\ b \in Int
        BY <1>2
    <2>2. IsFiniteSet(a .. b) /\ Cardinality(a .. b) = IF a > b THEN 0 ELSE b - a + 1
        BY <2>1, FS_Interval
    <2>3. b = a + n - 1
        OBVIOUS
    <2> HIDE DEF b
    <2>4. Cardinality(a .. b) <= n
        BY <1>2, <2>1, <2>2, <2>3
    <2> QED BY <2>2, <2>3, <2>4 DEF Extent
<1>5. /\ Cardinality(Extent(a, n) \cap D) <= Cardinality(Extent(a, n))
      /\ IsFiniteSet(Extent(a, n) \cap D)
    BY <1>4, FS_Subset
<1>6. Cardinality(Extent(a, n) \cap D) \in Nat /\ Cardinality(Extent(a, n)) \in Nat
    BY <1>4, <1>5, FS_CardinalityType
<1>7. Cardinality(Extent(a, n) \cap D) <= MaxRun
    BY <1>1, <1>2, <1>3, <1>4, <1>5, <1>6
<1> QED BY <1>7 DEF a, n

\* calc_checksums sums each unit of the runs once.
LEMMA ChecksumsMade ==
    ASSUME WholeWords, ClusterBitmaps, WholeClusters, WholeBitmap, WholeSectors,
           SuperblockReserved, ConvInv, RunsInv, ImageInv, ListsInv, JoinInv, CalcChecksums
    PROVE  SumInv'
<1> DEFINE SumOf(r) ==
             [addr |-> r.offset * ClusterSize,
              sums |-> [u \in Extent(r.offset * ClusterSize, r.length * ClusterSize)
                                \cap DOMAIN disk |-> disk[u]]]
<1>1. /\ step = "csums" /\ todo = <<>> /\ UNCHANGED <<in_use, allocated, disk, runs, relocs>>
      /\ csums' = {SumOf(r) : r \in {q \in Range(runs2) : q.offset * ClusterSize < OrigSize}}
    BY DEF CalcChecksums, NextPhase
<1>2. runs2 \in Seq(Runs2) /\ InOrder(runs2) /\ SummedIn(runs) = Covered(runs2)
    <2>1. SummedIn(todo) = {}
        BY <1>1 DEF SummedIn
    <2> QED BY <1>1, <2>1 DEF JoinInv
<1>3. ImageDone
    BY <1>1 DEF ImageDone
<1>4. DOMAIN disk = 0 .. OrigSize - 1 /\ OrigSize \in Nat
    BY ConversionAssumption DEF ConvInv, OnlyGrantedWritten, WholeSectors
<1>5. \A u, content : KeptAs(u, content)' <=> KeptAs(u, content)
    BY <1>1 DEF KeptAs, DataGranted, DataAllocations, NtfsUnits, ClusterSpace, Moved, ClustersInUse
<1>6. ASSUME NEW i \in DOMAIN runs2
      PROVE  /\ runs2[i] \in Runs2 /\ runs2[i].offset \in Nat /\ runs2[i].length \in Nat
             /\ SumOf(runs2[i]).sums =
                  [u \in Extent(runs2[i].offset * ClusterSize, runs2[i].length * ClusterSize)
                            \cap DOMAIN disk |-> disk[u]]
    <2>1. runs2[i] \in Runs2
        BY <1>2
    <2> QED BY <2>1, RunLimit DEF Runs2
<1>7. ASSUME NEW c \in csums' PROVE \E i \in DOMAIN runs2 : c = SumOf(runs2[i])
    BY <1>1 DEF Range
<1> HIDE DEF SumOf
<1>8. ASSUME NEW c \in csums'
      PROVE  /\ Cardinality(DOMAIN c.sums) <= MaxRun
             /\ \A u \in DOMAIN c.sums : KeptAs(u, c.sums[u])'
    <2>1. PICK i \in DOMAIN runs2 : c = SumOf(runs2[i])
        BY <1>7
    <2> DEFINE r == runs2[i]
               E == Extent(r.offset * ClusterSize, r.length * ClusterSize)
    <2>2. DOMAIN c.sums = E \cap DOMAIN disk /\ \A u \in E \cap DOMAIN disk : c.sums[u] = disk[u]
        BY <1>6, <2>1
    <2>3. r \in Runs2 /\ r.offset \in Nat /\ r.length \in Nat /\ r \in Members(runs2)
        BY <1>6 DEF Members
    <2> HIDE DEF r
    <2>4. Cardinality(DOMAIN c.sums) <= MaxRun
        BY <2>2, <2>3, ItemLength
    <2>5. ASSUME NEW u \in E \cap DOMAIN disk PROVE KeptAs(u, disk[u])
        <3>1. u \in Nat
            BY <1>4
        <3>2. PICK k \in Nat : u \in Extent(k * ClusterSize, ClusterSize)
            BY <3>1, UnitCluster
        <3>3. k \in Extent(r.offset, r.length)
            BY <2>3, <2>5, <3>2, ClusterInExtent
        <3>4. k \in SummedIn(runs)
            BY <1>2, <2>3, <3>3 DEF Covered
        <3> QED BY <1>3, <2>5, <3>2, <3>4, SummedStays
    <2> QED BY <1>5, <2>2, <2>4, <2>5
<1>9. ASSUME NEW k \in SummedIn(runs), k \in Nat,
             NEW u \in Extent(k * ClusterSize, ClusterSize) \cap DOMAIN disk
      PROVE  SummedOnce(u)'
    <2>1. PICK i \in DOMAIN runs2 : k \in Extent(runs2[i].offset, runs2[i].length)
        BY <1>2, <1>9, CoveredBy
    <2>2. ASSUME NEW j \in DOMAIN runs2,
                 u \in Extent(runs2[j].offset * ClusterSize, runs2[j].length * ClusterSize)
          PROVE  j = i
        <3>0. /\ runs2[j].offset \in Nat /\ runs2[j].length \in Nat
              /\ runs2[i].offset \in Nat /\ runs2[i].length \in Nat
            BY <1>6
        <3>1. k \in Extent(runs2[j].offset, runs2[j].length)
            BY <1>6, <1>9, <2>2, ClusterInExtent
        <3>2. /\ runs2[j].offset <= k /\ k + 1 <= runs2[j].offset + runs2[j].length
              /\ runs2[i].offset <= k /\ k + 1 <= runs2[i].offset + runs2[i].length
            BY <1>9, <2>1, <3>0, <3>1 DEF Extent
        <3>3. j \in Nat /\ i \in Nat
            BY <1>2
        <3>4. CASE i < j
            <4>1. runs2[i].offset + runs2[i].length <= runs2[j].offset
                BY <1>2, <3>4 DEF InOrder
            <4> QED BY <1>9, <3>0, <3>2, <4>1
        <3>5. CASE j < i
            <4>1. runs2[j].offset + runs2[j].length <= runs2[i].offset
                BY <1>2, <3>5 DEF InOrder
            <4> QED BY <1>9, <3>0, <3>2, <4>1
        <3> QED BY <3>3, <3>4, <3>5
    <2>3. u \in Extent(runs2[i].offset * ClusterSize, runs2[i].length * ClusterSize)
        BY <1>6, <1>9, <2>1, ClusterInExtent
    <2>4. SumOf(runs2[i]) \in csums'
        <3>1. u \in Nat /\ u < OrigSize
            BY <1>4
        <3>2. runs2[i].offset * ClusterSize < OrigSize
            <4>1. runs2[i].offset * ClusterSize \in Nat
                <5>1. runs2[i].offset \in Nat
                    BY <1>6
                <5> QED BY <5>1
            <4>2. runs2[i].offset * ClusterSize <= u
                BY <2>3, <3>1, <4>1 DEF Extent
            <4> QED BY <1>4, <3>1, <4>1, <4>2
        <3> QED BY <1>1, <3>2 DEF Range
    <2>5. {c \in csums' : u \in DOMAIN c.sums} = {SumOf(runs2[i])}
        <3>1. u \in DOMAIN SumOf(runs2[i]).sums
            BY <1>6, <1>9, <2>3
        <3>2. ASSUME NEW c \in csums', u \in DOMAIN c.sums PROVE c = SumOf(runs2[i])
            <4>1. PICK j \in DOMAIN runs2 : c = SumOf(runs2[j])
                BY <1>7
            <4>2. u \in Extent(runs2[j].offset * ClusterSize, runs2[j].length * ClusterSize)
                BY <1>6, <3>2, <4>1
            <4> QED BY <2>2, <4>1, <4>2
        <3> QED BY <2>4, <3>1, <3>2
    <2>6. Cardinality({SumOf(runs2[i])}) = 1
        BY FS_Singleton
    <2> QED BY <2>5, <2>6 DEF SummedOnce
<1> QED BY <1>1, <1>8, <1>9 DEF SumInv

\* The items and what they sum stay.
LEMMA SumsStay ==
    ASSUME SumInv, DataKept, UNCHANGED <<csums, runs, relocs>>, Late' => Late
    PROVE  SumInv'
<1> SUFFICES ASSUME Late PROVE SumInv'
    BY DEF SumInv
<1>1. in_use' = in_use /\ DOMAIN disk' = DOMAIN disk
    BY DEF DataKept
<1>2. NtfsUnits' = NtfsUnits /\ ClustersInUse' = ClustersInUse /\ Moved' = Moved
    BY <1>1, SameUse, SameMoves DEF NtfsUnits
<1>3. ASSUME NEW u, NEW content, KeptAs(u, content) PROVE KeptAs(u, content)'
    BY <1>2, <1>3 DEF KeptAs, DataKept
<1>4. ASSUME NEW c \in csums
      PROVE  /\ Cardinality(DOMAIN c.sums) <= MaxRun
             /\ \A u \in DOMAIN c.sums : KeptAs(u, c.sums[u])'
    BY <1>3 DEF SumInv
<1>5. \A u : SummedOnce(u)' <=> SummedOnce(u)
    BY DEF SummedOnce
<1>6. \A k \in SummedIn(runs) : k \in Nat =>
         \A u \in Extent(k * ClusterSize, ClusterSize) \cap DOMAIN disk : SummedOnce(u)
    BY DEF SumInv
<1> QED BY <1>1, <1>4, <1>5, <1>6 DEF SumInv

LEMMA InitSum == ConvInit => SumInv
BY DEF ConvInit, SumInv, Late

LEMMA SumStep ==
    ASSUME WholeWords, ClusterBitmaps, WholeClusters, WholeBitmap, WholeSectors,
           SuperblockReserved, ConvInv, GeometryInv, RunsInv, ImageInv, ListsInv, JoinInv, SumInv,
           [ConvNext]_<<vars, cvars>>
    PROVE  SumInv'
<1>1. CASE CalcChecksums
    BY <1>1, ChecksumsMade
<1>2. CASE \/ LayOutBlock \/ LayoutDone \/ WriteTrees \/ TreesWritten \/ WriteSuperblock
           \/ ClearFirstCluster \/ UNCHANGED <<vars, cvars>>
    <2>1. UNCHANGED <<csums, runs, relocs>> /\ (Late' => Late)
        BY <1>2 DEF LayOutBlock, LayoutDone, WriteTrees, TreesWritten, WriteSuperblock,
                    ClearFirstCluster, cvars, memory, Late
    <2> QED BY <2>1, DataKeptNext, SumsStay
<1>3. CASE \/ Scan \/ ParseDataBitmap \/ ProtectCluster \/ CalcUsedSpace \/ SplitRuns \/ MapFile
           \/ WriteData \/ CreateImage \/ CreateDataExtentItems \/ JoinRun
    <2>1. ~ Late'
        BY <1>3 DEF Late, Scan, ParseDataBitmap, ProtectCluster, CalcUsedSpace, SplitRuns, MapFile,
                    WriteData, CreateImage, CreateDataExtentItems, JoinRun, cvars
    <2> QED BY <2>1 DEF SumInv
<1> QED BY <1>1, <1>2, <1>3 DEF ConvNext

-----------------------------------------------------------------------------
(* Every extent that is referred to is summed. *)

\* No copy was moved in its turn.
CopiesStay == Moved \subseteq ClustersInUse

\* A cluster that has an entry and was not moved is summed.
LEMMA ListedSummed ==
    ASSUME RunsInv, ImageInv, SumInv, Late, NEW s \in Segments,
           NEW k \in Nat, k \in Covered(runs[s]), k \notin Moved,
           NEW u \in Extent(k * ClusterSize, ClusterSize) \cap DOMAIN disk
    PROVE  SummedOnce(u)
<1>1. step # "scan" /\ step # "protect"
    BY DEF Late
<1>2. runs \in [Segments -> Seq(Entries)]
    BY DEF RunsInv, Listed
<1>3. PICK r \in Members(runs[s]) : k \in Extent(r.offset, r.length)
    BY DEF Covered
<1>4. r \in Entries
    BY <1>2, <1>3, MemberEntries
<1>5. r.inode # dummy_inode
    <2>1. EntriesTell(runs, ClustersInUse, Moved, FALSE)
        BY <1>1 DEF ImageInv, EntriesKept
    <2>2. r.inode = dummy_inode => r.length = 1 /\ r.offset \in Moved
        BY <1>3, <2>1 DEF EntriesTell, EntryTells, TellsOfMoves
    <2>3. r.length = 1 => r.offset = k
        BY <1>3, <1>4, EntryFields DEF Extent
    <2> QED BY <2>2, <2>3
<1>6. k \in SummedIn(runs)
    BY <1>2, <1>3, <1>5 DEF SummedIn, SummedOf
<1> QED BY <1>6 DEF SumInv

\* So is data that was granted, if no copy was moved.
LEMMA GrantedSummed ==
    ASSUME WholeWords, ClusterBitmaps, WholeSectors, WholeBitmap, ConvInv, RunsInv, ImageInv,
           ListsInv, SumInv, Late, CopiesStay, NEW u \in DataGranted \cap DOMAIN disk
    PROVE  SummedOnce(u)
<1>1. u \in Nat
    BY ConversionAssumption DEF ConvInv, OnlyGrantedWritten
<1>2. PICK k \in Nat : u \in Extent(k * ClusterSize, ClusterSize)
    BY <1>1, UnitCluster
<1>3. SegmentOf(k) \in Segments /\ k \in Covered(runs[SegmentOf(k)])
    BY <1>2 DEF Late, ListsInv, Accounted, GrantedListed
<1>4. k \notin Moved
    <2>1. CASE k \in ClustersInUse
        <3>1. k * ClusterSize \in in_use
            BY <2>1, InUseClusters
        <3>2. u \in NtfsUnits
            BY <1>2, <3>1 DEF NtfsUnits, ClusterSpace
        <3>3. u \notin Granted
            BY <3>2, NtfsNotGranted
        <3> QED BY <3>3 DEF DataGranted, DataAllocations, Granted
    <2> QED BY <2>1 DEF CopiesStay
<1> QED BY <1>2, <1>3, <1>4, ListedSummed

\* The extents of the files.
LEMMA FilesSummed ==
    ASSUME WholeWords, ClusterBitmaps, WholeClusters, WholeBitmap, WholeSectors, BitsInBitmap,
           ConvInv, RunsInv, ImageInv, SentKept, FilesInv, ListsInv, SumInv, Late, CopiesStay,
           FilesMarked, NEW e \in fs_extents, NEW u \in Extent(e.addr, e.length) \cap DOMAIN disk
    PROVE  SummedOnce(u)
<1>1. PICK i \in DOMAIN files : IsExtentOf(e, files[i])
    <2>1. ImageDone /\ step # "files"
        BY DEF Late, ImageDone
    <2>2. Opened /\ Processed = Len(files)
        BY <2>1 DEF Opened, Processed
    <2>3. files \in Seq(ConvertedFiles)
        BY DEF ConvInv, Queues
    <2> QED BY <2>2, <2>3 DEF FilesInv, ExtentsMade
<1>2. PICK f \in Files : f = files[i]
    BY DEF ConvInv, Queues, ConvertedFiles
<1>3. CASE DataWritten(e, f)
    <2>1. e.length = f.length
        BY <1>3 DEF DataWritten, Extents
    <2> QED BY <1>3, <2>1, GrantedSummed DEF DataWritten
<1>4. ASSUME NEW m \in f.mappings, NEW p \in Pieces(m), e = PieceExtent(f, p)
      PROVE  SummedOnce(u)
    <2>1. m \in Mappings /\ m.lcn \in Nat /\ m.length \in Nat
        BY DEF Files, Mappings
    <2>2. PICK k \in Nat, n \in Nat \ {0} : MakesPiece(m, k, n) /\ p = PieceAt(m, k, n)
        BY <2>1, PiecesMade
    <2>3. PICK r \in Nat : r = Redirected(k)
        BY RedirectedType DEF RunsInv
    <2>4. e.addr = r * ClusterSize /\ e.length = n * ClusterSize
        BY <1>4, <2>2, <2>3 DEF PieceExtent, PieceAt, Extents
    <2>5. u \in Nat /\ u \in DOMAIN disk
        BY ConversionAssumption DEF ConvInv, OnlyGrantedWritten
    <2>6. PICK j \in Nat : u \in Extent(j * ClusterSize, ClusterSize)
        BY <2>5, UnitCluster
    <2>7. j \in Extent(r, n)
        BY <2>4, <2>6, ClusterInExtent
    <2>8. r <= j /\ j < r + n
        BY <2>7 DEF Extent
    <2> DEFINE c == k + (j - r)
    <2>9. c \in Nat /\ k <= c /\ c < k + n /\ j = r + (c - k)
        BY <2>8
    <2> HIDE DEF c
    <2>10. Redirected(c) = j
        BY <2>1, <2>2, <2>3, <2>9, PieceSends
    <2>11. c \in ClustersInUse
        <3>1. m.lcn <= k /\ k + n <= m.lcn + m.length /\ m.lcn # 0
            BY <2>2 DEF MakesPiece
        <3>2. c \in Extent(m.lcn, m.length)
            BY <2>1, <2>9, <3>1 DEF Extent
        <3>3. c * ClusterSize \in in_use /\ c * ClusterSize < DeviceSize
            BY <1>2, <1>4, <3>1, <3>2 DEF FilesMarked, Laid
        <3>4. PICK d \in ClustersInUse : d \in Nat /\ c * ClusterSize = d * ClusterSize
            BY <3>3, InUseCluster DEF ConvInv, IInv
        <3>5. c * ClusterSize \in Extent(c * ClusterSize, ClusterSize)
            BY <2>9 DEF Extent
        <3>6. c = d
            BY <2>9, <3>4, <3>5, OneCluster
        <3> QED BY <3>4, <3>6
    <2>12. CASE c \in Moved
        <3>1. Holds(j, c)
            BY <2>10, <2>11, <2>12 DEF SentKept
        <3>2. u \in DataGranted
            BY <2>6, <3>1 DEF Holds
        <3> QED BY <2>5, <3>2, GrantedSummed
    <2>13. CASE c \notin Moved
        <3>1. j = c
            BY <2>9, <2>10, <2>13 DEF SentKept
        <3>2. SegmentOf(c) \in Segments /\ c \in Covered(runs[SegmentOf(c)])
            BY <2>11 DEF ImageInv, EntriesKept, AllCovered, Late
        <3> QED BY <2>5, <2>6, <2>9, <2>13, <3>1, <3>2, ListedSummed
    <2> QED BY <2>12, <2>13
<1> QED BY <1>1, <1>2, <1>3, <1>4 DEF IsExtentOf

\* The extents of ntfs.img.
LEMMA ImageSummed ==
    ASSUME WholeWords, ClusterBitmaps, WholeSectors, WholeBitmap, ConvInv, RunsInv, ImageInv,
           ListsInv, SumInv, Late, CopiesStay,
           NEW e \in img_extents, NEW u \in Extent(e.addr, e.length) \cap DOMAIN disk
    PROVE  SummedOnce(u)
<1>1. step # "scan" /\ ImageDone
    BY DEF Late, ImageDone
<1>2. PICK r \in AllRuns : ~ r.relocated /\ ~ r.not_in_img /\ e = ImageExtent(r)
    BY <1>1 DEF ImageInv, ImageMade, ImageItems
<1>3. PICK s \in Segments : r \in Members(runs[s])
    BY DEF AllRuns, Members
<1>4. runs \in [Segments -> Seq(Entries)]
    BY DEF RunsInv, Listed
<1>5. r \in Entries /\ r.offset \in Nat /\ r.length \in Nat
    BY <1>3, <1>4, MemberEntries, EntryFields
<1>6. EntryTells(r, s, ClustersInUse, Moved, step = "protect")
    BY <1>1, <1>3 DEF ImageInv, EntriesKept, EntriesTell
<1>7. u \in Nat /\ u \in DOMAIN disk
    BY ConversionAssumption DEF ConvInv, OnlyGrantedWritten
<1>8. CASE r.inode = dummy_inode
    <2>1. r.length = 1 /\ r.offset \in Moved /\ r.offset \in ClustersInUse
        BY <1>2, <1>6, <1>8 DEF EntryTells, TellsOfMoves
    <2>2. e.addr = MovedTo(r.offset) * ClusterSize /\ e.length = 1 * ClusterSize
        BY <1>2, <1>8, <2>1 DEF ImageExtent, Extents
    <2>3. 1 * ClusterSize = ClusterSize
        OBVIOUS
    <2>4. Holds(MovedTo(r.offset), r.offset)
        BY <2>1 DEF ImageInv, CopiesKept, CopyKept
    <2>5. u \in DataGranted
        BY <2>2, <2>3, <2>4 DEF Holds
    <2> QED BY <1>7, <2>5, GrantedSummed
<1>9. CASE r.inode # dummy_inode
    <2>1. e.addr = r.offset * ClusterSize /\ e.length = r.length * ClusterSize
        BY <1>2, <1>9 DEF ImageExtent, Extents
    <2>2. PICK k \in Nat : u \in Extent(k * ClusterSize, ClusterSize)
        BY <1>7, UnitCluster
    <2>3. k \in Extent(r.offset, r.length)
        BY <1>5, <2>1, <2>2, ClusterInExtent
    <2>4. k \in SummedIn(runs)
        BY <1>3, <1>4, <1>9, <2>3 DEF SummedIn, SummedOf
    <2> QED BY <1>7, <2>2, <2>4 DEF SumInv
<1> QED BY <1>8, <1>9

\* What is summed is still there.
LEMMA ChecksumsNow ==
    ASSUME WholeWords, ClusterBitmaps, WholeClusters, WholeBitmap, WholeSectors, BitsInBitmap,
           SuperblockReserved, ConvInv, RunsInv, ImageInv, SentKept, FilesInv, ListsInv, SumInv,
           FilesMarked, CopiesStay
    PROVE  ChecksumsHold
<1> SUFFICES ASSUME Late
             PROVE  /\ \A e \in fs_extents \cup img_extents :
                         \A u \in Extent(e.addr, e.length) \cap DOMAIN disk : SummedOnce(u)
                    /\ \A c \in csums : /\ Cardinality(DOMAIN c.sums) <= MaxRun
                                        /\ \A u \in DOMAIN c.sums : disk[u] = c.sums[u]
    BY DEF ChecksumsHold, Late, SummedOnce
<1>1. ASSUME NEW e \in fs_extents \cup img_extents, NEW u \in Extent(e.addr, e.length) \cap DOMAIN disk
      PROVE  SummedOnce(u)
    BY FilesSummed, ImageSummed
<1>2. ASSUME NEW c \in csums
      PROVE  /\ Cardinality(DOMAIN c.sums) <= MaxRun
             /\ \A u \in DOMAIN c.sums : disk[u] = c.sums[u]
    <2>1. ASSUME NEW u \in DOMAIN c.sums, KeptAs(u, c.sums[u]) PROVE disk[u] = c.sums[u]
        <3>1. ASSUME NEW k \in ClustersInUse, k \in Nat, k \notin Moved,
                     u \in Extent(k * ClusterSize, ClusterSize), u \in NtfsUnits
              PROVE  disk[u] = Ntfs(u)
            <4>1. ImageDone
                BY DEF Late, ImageDone
            <4> QED BY <3>1, <4>1, InPlaceKept
        <3> QED BY <2>1, <3>1 DEF KeptAs
    <2> QED BY <2>1 DEF SumInv
<1> QED BY <1>1, <1>2

\* All data of the files and of ntfs.img is summed, each unit of it in one item, and no
\* item is too long for a leaf: however the entries were cut, inserted, joined and split.
\* What was summed stays as it was while the trees, the superblocks and the first cluster
\* are written.  The files are taken to lie in clusters that NTFS marks in use, and no
\* copy to have been moved in its turn.
THEOREM ChecksumsKept ==
    ASSUME WholeStripes, WholeWords, ClusterBitmaps, WholeClusters, BootInUse, WholeBitmap,
           WholeSectors, BitsInBitmap, SuperblockReserved, EndClear
    PROVE  ConvSpec => [](FilesMarked /\ CopiesStay => ChecksumsHold)
<1>1. ConvInit => /\ AlignedInv /\ RunsInv /\ ImageInv /\ SentKept /\ FilesInv
                  /\ DeviceInv /\ DataInSegments /\ ListsInv /\ JoinInv /\ SumInv
    BY InitAligned, InitRuns, InitImage, InitSent, InitFiles, InitDevice, InitInSegments,
       InitLists, InitJoin, InitSum DEF ConvInit
<1>2. ConvInv /\ AlignedInv /\ [ConvNext]_<<vars, cvars>> => AlignedInv'
    BY ConvAligned
<1>3. ConvInv => NoOverwrite
    BY LocatedNotGranted DEF ConvInv
<1>4. AlignedInv => DataAligned
    BY DEF AlignedInv
<1>5. /\ ConvInv /\ RunsInv /\ DataAligned' /\ NoOverwrite' /\ [ConvNext]_<<vars, cvars>>
      => RunsInv'
    BY RunsStep
<1>6. /\ ConvInv /\ GeometryInv /\ RunsInv /\ ImageInv /\ DataInside' /\ DataAligned'
      /\ NoOverwrite' /\ [ConvNext]_<<vars, cvars>>
      => ImageInv'
    BY ImageStep
<1>7. /\ ConvInv /\ GeometryInv /\ RunsInv /\ SentKept /\ DataInside' /\ DataAligned'
      /\ NoOverwrite' /\ [ConvNext]_<<vars, cvars>>
      => SentKept'
    BY SentStep
<1>8. /\ ConvInv /\ GeometryInv /\ RunsInv /\ FilesInv /\ DataInside' /\ [ConvNext]_<<vars, cvars>>
      => FilesInv'
    BY FilesStep
<1>9. ConvInv /\ DeviceInv /\ [ConvNext]_<<vars, cvars>> => DeviceInv'
    BY DeviceStep
<1>10. ConvInv /\ DeviceInv /\ DataInSegments /\ [ConvNext]_<<vars, cvars>> => DataInSegments'
    BY InSegmentsStep
<1>11. /\ ConvInv /\ RunsInv /\ ListsInv /\ GeometryInv' /\ DataAligned' /\ NoOverwrite'
       /\ DataInSegments' /\ DataInside' /\ [ConvNext]_<<vars, cvars>>
       => ListsInv'
    BY ListsStep
<1>12. RunsInv /\ ListsInv /\ JoinInv /\ [ConvNext]_<<vars, cvars>> => JoinInv'
    BY JoinStep
<1>13. /\ ConvInv /\ GeometryInv /\ RunsInv /\ ImageInv /\ ListsInv /\ JoinInv /\ SumInv
       /\ [ConvNext]_<<vars, cvars>>
       => SumInv'
    BY SumStep
<1>14. /\ ConvInv /\ RunsInv /\ ImageInv /\ SentKept /\ FilesInv /\ ListsInv /\ SumInv
       => (FilesMarked /\ CopiesStay => ChecksumsHold)
    BY ChecksumsNow
<1> QED BY <1>1, <1>2, <1>3, <1>4, <1>5, <1>6, <1>7, <1>8, <1>9, <1>10, <1>11, <1>12, <1>13,
           <1>14, ConversionInvariant, ConvDataInside, PTL DEF ConvSpec

-----------------------------------------------------------------------------
(* The conversion implements the abstract switch from one file system to the *)
(* other.                                                                  *)

\* The program does not go on after it has given up.
LEMMA FailedStays ==
    ASSUME StepPhase, Queues, phase = "failed", [ConvNext]_<<vars, cvars>>
    PROVE  phase' = "failed"
<1>1. step \in {"protect", "files", "trees"}
    BY DEF StepPhase
<1>2. CASE ParseDataBitmap \/ CalcUsedSpace \/ CalcChecksums
    <2>1. phase \in {"scan", "protect", "rewrite"}
        BY <1>2 DEF ParseDataBitmap, CalcUsedSpace, CalcChecksums, NextPhase
    <2> QED BY <2>1
<1>3. CASE UNCHANGED <<vars, cvars>>
    BY <1>3 DEF vars
<1> QED BY <1>1, <1>2, <1>3
    DEF ConvNext, Scan, ProtectCluster, SplitRuns, MapFile, WriteData, CreateImage,
        CreateDataExtentItems, JoinRun, LayOutBlock, LayoutDone, WriteTrees, TreesWritten,
        WriteSuperblock, ClearFirstCluster

\* Once the first superblock is written it stays written.
LEMMA SuperStays ==
    ASSUME SuperblockReserved, SwitchInv, SwitchInv', disk[PrimarySuper] = Super,
           [ConvNext]_<<vars, cvars>>
    PROVE  disk'[PrimarySuper] = Super
<1>1. ConvInv /\ StepPhase /\ Queues /\ FirstSuperblock'
    BY DEF SwitchInv, ConvInv
<1>2. step \in {"supers", "done"}
    BY <1>1, PrimaryUntouched
<1>3. step' \in {"supers", "done"} \/ UNCHANGED disk
    BY <1>2
    DEF ConvNext, Scan, ParseDataBitmap, ProtectCluster, CalcUsedSpace, SplitRuns, MapFile,
        WriteData, CreateImage, CreateDataExtentItems, JoinRun, CalcChecksums, LayOutBlock,
        LayoutDone, WriteTrees, TreesWritten, WriteSuperblock, ClearFirstCluster, cvars
<1>4. CASE UNCHANGED disk
    BY <1>4
<1>5. CASE step' = "done"
    BY <1>1, <1>5 DEF FirstSuperblock, PrimarySuper
<1>6. CASE step' = "supers" /\ disk' # disk
    <2> DEFINE p == PrimarySuper
               sb == Head(todo)
               content == [i \in {0} |-> Super]
    <2>1. step = "supers" /\ todo # <<>> /\ disk' = Written(sb, content)
        BY <1>2, <1>6
        DEF ConvNext, Scan, ParseDataBitmap, ProtectCluster, CalcUsedSpace, SplitRuns, MapFile,
            WriteData, CreateImage, CreateDataExtentItems, JoinRun, CalcChecksums, LayOutBlock,
            LayoutDone, WriteTrees, TreesWritten, WriteSuperblock, ClearFirstCluster, cvars
    <2>2. p \in DOMAIN disk
        <3>1. p \in Nat /\ p < Reserved
            BY PrimaryIsReserved
        <3> QED BY <1>1, <3>1, ConversionAssumption DEF ConvInv, OnlyGrantedWritten
    <2>3. sb \in Nat
        BY <1>1, <2>1, HeadAndTail DEF Queues
    <2>4. DOMAIN content = {0} /\ content[0] = Super
        OBVIOUS
    <2> HIDE DEF content, p
    <2>5. disk'[p] = IF p - sb \in {0} THEN content[p - sb] ELSE disk[p]
        BY <2>1, <2>2, <2>4, WrittenUnits
    <2>6. disk[p] = Super
        BY DEF p
    <2>7. disk'[p] = Super
        BY <2>4, <2>5, <2>6
    <2> QED BY <2>7 DEF p
<1> QED BY <1>2, <1>3, <1>4, <1>5, <1>6

\* The trees are laid out in the device.
BlocksInside == \A a \in Blocks : Extent(a.addr, a.length) \subseteq DOMAIN disk

\* Which of the two file systems is whole depends on the first superblock alone.
VolumeBySuper == Volume = IF disk[PrimarySuper] = Super THEN "btrfs" ELSE "ntfs"

LEMMA VolumeNow ==
    ASSUME WholeWords, ClusterBitmaps, WholeSectors, SuperblockReserved, SwitchInv,
           ImageFaithful, FilesFaithful, ChecksumsHold, BlocksInside
    PROVE  VolumeBySuper
<1>1. ConvInv /\ IInv /\ TypeOK /\ TreesFirst /\ FirstSuperblock /\ OnlyGrantedWritten
    BY DEF SwitchInv, ConvInv, IInv
<1>2. CASE step \notin {"supers", "done"}
    <2>1. Volume = "ntfs"
        BY <1>1, <1>2, NtfsUntouched, NotYetBtrfs DEF Volume
    <2>2. disk[PrimarySuper] # Super
        BY <1>1, <1>2, PrimaryUntouched
    <2> QED BY <2>1, <2>2 DEF VolumeBySuper
<1>3. CASE disk[PrimarySuper] = Super
    <2>1. step \in {"supers", "done"}
        BY <1>1, <1>3, PrimaryUntouched
    <2>2. \A a \in Blocks : TreeWritten(a)
        BY <1>1, <2>1 DEF TreesFirst
    <2>3. \A a \in Blocks : \A u \in Extent(a.addr, a.length) : disk[u] = Tree
        BY <2>2 DEF TreeWritten, BlocksInside
    <2>4. BtrfsWhole
        BY <1>3, <2>3, Zenon DEF BtrfsWhole
    <2> QED BY <1>3, <2>4 DEF Volume, VolumeBySuper
<1>4. CASE step \in {"supers", "done"} /\ disk[PrimarySuper] # Super
    <2>1. \A u \in DOMAIN disk : disk[u] = Ntfs(u) \/ u \in Granted
        BY <1>1, <1>4 DEF FirstSuperblock
    <2>2. NtfsWhole
        BY <1>1, <2>1, GrantedWritesSpareNtfs
    <2>3. ~ BtrfsWhole
        BY <1>4 DEF BtrfsWhole
    <2> QED BY <1>4, <2>2, <2>3 DEF Volume, VolumeBySuper
<1> QED BY <1>2, <1>3, <1>4

\* A step that writes the first superblock is the switch, one that fails gives up, and
\* every other leaves both as they are.
LEMMA StepSwitchesOver ==
    ASSUME SuperblockReserved, SwitchInv, SwitchInv', VolumeBySuper, VolumeBySuper',
           [ConvNext]_<<vars, cvars>>
    PROVE  [Abstract!Next]_Abstract!vars
<1>1. ConvInv /\ ConvInv' /\ StepPhase /\ Queues /\ StepPhase'
    BY DEF SwitchInv, ConvInv
<1> DEFINE Written1 == disk[PrimarySuper] = Super
           Written2 == disk'[PrimarySuper] = Super
<1>2. PrimarySuper' = PrimarySuper
    BY DEF PrimarySuper
<1>3. Volume = IF Written1 THEN "btrfs" ELSE "ntfs"
    BY DEF VolumeBySuper
<1>4. Volume' = IF Written2 THEN "btrfs" ELSE "ntfs"
    BY <1>2 DEF VolumeBySuper
<1>5. Written1 => Written2
    BY SuperStays
<1>6. Written1 => phase = "trees"
    BY <1>1, PrimaryUntouched DEF StepPhase
<1>7. Written2 => phase' = "trees"
    <2>1. ConvInv' /\ step' \notin {"supers", "done"} => disk'[PrimarySuper] # Super
        <3>1. ASSUME ConvInv', step' \notin {"supers", "done"} PROVE disk'[PrimarySuper] # Super
            <4>1. GrantedAbove' /\ OnlyGrantedWritten'
                BY <3>1 DEF ConvInv
            <4> DEFINE p == PrimarySuper
            <4>2. p \in Nat /\ p < Reserved
                BY PrimaryIsReserved
            <4> HIDE DEF p
            <4>3. p \in DOMAIN disk'
                BY <4>1, <4>2, ConversionAssumption DEF OnlyGrantedWritten
            <4>4. p \notin Granted'
                BY <4>1, <4>2 DEF GrantedAbove
            <4>5. disk'[p] = Ntfs(p)
                BY <3>1, <4>1, <4>3, <4>4 DEF OnlyGrantedWritten, Ntfs
            <4>6. disk'[p] # Super
                BY <4>5 DEF Ntfs, Super
            <4> QED BY <4>6 DEF p
        <3> QED BY <3>1
    <2> QED BY <1>1, <2>1 DEF StepPhase
<1>8. phase = "failed" => phase' = "failed"
    BY <1>1, FailedStays
<1> HIDE DEF Written1, Written2
<1>9. CASE Written1
    <2>1. phase # "failed" /\ phase' # "failed" /\ Volume = "btrfs" /\ Volume' = "btrfs"
        BY <1>3, <1>4, <1>5, <1>6, <1>7, <1>9
    <2> QED BY <2>1 DEF Abstract!vars
<1>10. CASE ~ Written1 /\ Written2
    <2>1. /\ phase # "failed" /\ phase' # "failed"
          /\ Volume = "ntfs" /\ Volume' = "btrfs"
        BY <1>3, <1>4, <1>7, <1>8, <1>10
    <2> QED BY <2>1 DEF Abstract!Next, Abstract!Switch
<1>11. CASE ~ Written1 /\ ~ Written2
    <2>1. Volume = "ntfs" /\ Volume' = "ntfs"
        BY <1>3, <1>4, <1>11
    <2>2. CASE phase' = "failed"
        BY <2>1, <2>2 DEF Abstract!Next, Abstract!GiveUp
    <2>3. CASE phase' # "failed"
        BY <1>8, <2>1, <2>3 DEF Abstract!vars
    <2> QED BY <2>2, <2>3
<1> QED BY <1>9, <1>10, <1>11

LEMMA StartsAsNtfs ==
    ASSUME ConvInit, VolumeBySuper, SuperblockReserved
    PROVE  Abstract!Init
<1>1. step = "scan" /\ phase = "scan" /\ ConvInv
    BY InitConv DEF ConvInit, Init
<1>2. disk[PrimarySuper] # Super
    BY <1>1, PrimaryUntouched
<1>3. Volume = "ntfs" /\ phase # "failed"
    BY <1>1, <1>2 DEF VolumeBySuper
<1> QED BY <1>3 DEF Abstract!Init

\* The conversion implements the abstract switch: wherever it is stopped the volume is
\* the NTFS volume it was or the whole Btrfs file system, with ntfs.img, the files and
\* the checksums in it; the write of the first superblock turns the one into the other,
\* and the program gives up only before that.
THEOREM ConversionSwitchesOver ==
    ASSUME WholeStripes, WholeWords, ClusterBitmaps, WholeClusters, BootInUse, WholeBitmap,
           WholeSectors, BitsInBitmap, SuperblockReserved, EndClear, FirstClusterShort
    PROVE  ConvSpec /\ [](FilesSound /\ CopiesStay /\ BlocksInside) => SwitchesOver
<1>1. ConvInit => SwitchInv
    BY InitSwitch
<1>2. SwitchInv /\ [ConvNext]_<<vars, cvars>> => SwitchInv'
    BY SwitchStep
<1>3. SwitchInv /\ ImageFaithful /\ FilesFaithful /\ ChecksumsHold /\ BlocksInside => VolumeBySuper
    BY VolumeNow
<1>4. ConvInit /\ VolumeBySuper => Abstract!Init
    BY StartsAsNtfs
<1>5. /\ SwitchInv /\ SwitchInv' /\ VolumeBySuper /\ VolumeBySuper' /\ [ConvNext]_<<vars, cvars>>
      => [Abstract!Next]_Abstract!vars
    BY StepSwitchesOver
<1>6. FilesSound => FilesMarked
    BY DEF FilesSound
<1>7. ConvSpec => []ImageFaithful
    BY ImageHoldsNtfs
<1>8. ConvSpec => [](FilesSound => FilesFaithful)
    BY FilesReadBack
<1>9. ConvSpec => [](FilesMarked /\ CopiesStay => ChecksumsHold)
    BY ChecksumsKept
<1> QED BY <1>1, <1>2, <1>3, <1>4, <1>5, <1>6, <1>7, <1>8, <1>9, PTL
        DEF ConvSpec, SwitchesOver, Abstract!Spec

-----------------------------------------------------------------------------
(* Volumes in use to the end, of which no copy is moved in its turn.       *)

\* Something is in use in the last segment, whole or not.
LastSegmentUsed ==
    \A used \in Bitmaps : \E c \in used, s \in Nat :
        Base(s) <= c /\ c < DeviceSize /\ DeviceSize <= Base(s) + DataChunkSize

\* The superblocks start stripes.
SupersOnStripes == \A sb \in SuperAddrs : sb % StripeLen = 0

UsedToTheEnd(s) ==
    Base(s) < DeviceSize /\ DeviceSize <= Base(s) + DataChunkSize /\ LocatedIn(s) # {}

\* The last segment is a chunk, the last one until more are made, and the space list has
\* no end of the device left.
EndTaken ==
    \A s \in SegmentsDone : UsedToTheEnd(s) =>
        /\ DeviceSize - 1 \notin space_list
        /\ phase = "scan" =>
              /\ DOMAIN chunks # {}
              /\ chunks[Len(chunks)].start + chunks[Len(chunks)].length = DeviceSize

ChunksOnDevice == \A i \in DOMAIN chunks : chunks[i].start + chunks[i].length <= DeviceSize

EndInv == EndTaken /\ ChunksOnDevice

LEMMA LastSegmentDone ==
    ASSUME LastSegmentUsed, WholeWords, ClusterBitmaps, TypeOK, Base(seg) >= DeviceSize
    PROVE  \E s \in SegmentsDone : UsedToTheEnd(s)
<1>1. PICK c \in in_use, s \in Nat :
          Base(s) <= c /\ c < DeviceSize /\ DeviceSize <= Base(s) + DataChunkSize
    BY DEF LastSegmentUsed, TypeOK
<1>2. PICK t \in 0 .. DeviceSize : Base(t) < DeviceSize /\ c \in LocatedIn(t)
    BY <1>1, AllLocated
<1>3. seg \in Nat /\ t \in Nat /\ Base(s) \in Nat /\ Base(t) \in Nat /\ Base(seg) \in Nat
    <2>1. seg \in Nat /\ t \in Nat
        BY DEF TypeOK
    <2> QED BY <2>1, BaseType
<1>4. c \in Nat /\ c + ClusterSize <= Base(t) + SegLength(t) /\ SegLength(t) \in 1 .. DataChunkSize
    BY <1>2, <1>3, LocatedIsUsed, SegmentFacts
<1>5. s <= t
    <2>1. CASE t < s
        <3>1. Base(t) + DataChunkSize <= Base(s)
            BY <1>1, <1>3, <2>1, BaseMonotone
        <3> QED BY <1>1, <1>3, <1>4, <3>1
    <2> QED BY <1>1, <1>3, <2>1
<1>6. Base(s) <= Base(t)
    <2>1. CASE s < t
        <3>1. Base(s) + DataChunkSize <= Base(t)
            BY <1>1, <1>3, <2>1, BaseMonotone
        <3> QED BY <1>3, <3>1
    <2>2. CASE s = t
        BY <1>3, <2>2
    <2> QED BY <1>1, <1>3, <1>5, <2>1, <2>2
<1>7. t < seg
    <2>1. CASE seg < t
        <3>1. Base(seg) + DataChunkSize <= Base(t)
            BY <1>3, <2>1, BaseMonotone
        <3> QED BY <1>2, <1>3, <3>1
    <2>2. CASE seg = t
        BY <1>2, <1>3, <2>2
    <2> QED BY <1>3, <2>1, <2>2
<1>8. DeviceSize <= Base(t) + DataChunkSize
    BY <1>1, <1>3, <1>6
<1>9. t \in SegmentsDone
    BY <1>2, <1>7 DEF SegmentsDone
<1> QED BY <1>2, <1>8, <1>9 DEF UsedToTheEnd

LEMMA InitEnd == Init => EndInv
<1>1. ASSUME Init PROVE SegmentsDone = {} /\ DOMAIN chunks = {}
    <2>1. seg = 0 /\ chunks = <<>>
        BY <1>1 DEF Init
    <2> QED BY <2>1 DEF SegmentsDone
<1> QED BY <1>1 DEF EndInv, EndTaken, ChunksOnDevice

LEMMA ScanSegmentEnd ==
    ASSUME WholeStripes, IInv, EndInv, ScanSegment
    PROVE  EndInv'
<1>1. /\ seg \in Nat /\ seg' = seg + 1 /\ Base(seg) < DeviceSize /\ Base(seg) \in Nat
      /\ SegLength(seg) \in 1 .. DataChunkSize /\ ChunkLength(seg) = SegLength(seg)
      /\ in_use' = in_use /\ TypeOK /\ Base(seg) + SegLength(seg) <= DeviceSize
      /\ SegLength(seg) < DataChunkSize => Base(seg) + SegLength(seg) = DeviceSize
    BY ScanSegmentShape, WholeSegments, SegmentFacts DEF IInv
<1>2. ASSUME NEW s \in 0 .. DeviceSize, s < seg PROVE Base(s) + DataChunkSize < DeviceSize
    <2>1. s \in Nat /\ Base(s) \in Nat
        BY BaseType
    <2>2. Base(s) + DataChunkSize <= Base(seg)
        BY <1>1, <1>2, <2>1, BaseMonotone
    <2> QED BY <1>1, <2>1, <2>2
<1>3. \A s : LocatedIn(s)' = LocatedIn(s) /\ UsedToTheEnd(s)' = UsedToTheEnd(s)
    BY <1>1 DEF LocatedIn, UsedToTheEnd
<1>4. CASE UsedClusters(seg) = {} /\ UNCHANGED <<space_list, chunks>>
    <2>1. LocatedIn(seg) = {}
        BY <1>1, <1>4, LocatedIsUsed
    <2>2. ASSUME NEW s \in SegmentsDone', UsedToTheEnd(s) PROVE FALSE
        <3>1. s \in 0 .. DeviceSize /\ s < seg + 1 /\ DeviceSize <= Base(s) + DataChunkSize
              /\ LocatedIn(s) # {}
            BY <1>1, <2>2 DEF SegmentsDone, UsedToTheEnd
        <3>2. s < seg
            BY <1>1, <2>1, <3>1
        <3>3. Base(s) \in Nat
            BY <3>1, BaseType
        <3> QED BY <1>2, <3>1, <3>2, <3>3
    <2> QED BY <1>3, <1>4, <2>2 DEF EndInv, EndTaken, ChunksOnDevice
<1>5. CASE /\ UsedClusters(seg) # {}
           /\ space_list' = space_list \ Extent(Base(seg), ChunkLength(seg))
           /\ chunks' \in Seq(Chunks)
           /\ Len(chunks) \in Nat
           /\ DOMAIN chunks = 1 .. Len(chunks) /\ DOMAIN chunks' = 1 .. Len(chunks) + 1
           /\ \A k \in DOMAIN chunks : chunks'[k] = chunks[k]
           /\ chunks'[Len(chunks) + 1] = SegmentChunk(seg)
    <2> DEFINE n == Len(chunks) + 1
               c == SegmentChunk(seg)
    <2>1. c.start + c.length = Base(seg) + SegLength(seg)
        BY <1>1, SegmentChunkPlace
    <2> HIDE DEF c
    <2>2. /\ chunks'[n] = c /\ n \in Nat \ {0} /\ Len(chunks') = n
          /\ \A i \in DOMAIN chunks' : i = n \/ i \in DOMAIN chunks
        BY <1>5 DEF c
    <2>3. ChunksOnDevice'
        BY <1>1, <1>5, <2>1, <2>2 DEF ChunksOnDevice, EndInv
    <2>4. ASSUME NEW s \in SegmentsDone', UsedToTheEnd(s)
          PROVE  /\ DeviceSize - 1 \notin space_list'
                 /\ DOMAIN chunks' # {}
                 /\ chunks'[Len(chunks')].start + chunks'[Len(chunks')].length = DeviceSize
        <3>1. s \in 0 .. DeviceSize /\ s < seg + 1 /\ DeviceSize <= Base(s) + DataChunkSize
            BY <1>1, <2>4 DEF SegmentsDone, UsedToTheEnd
        <3>2. s = seg
            <4>1. Base(s) \in Nat
                BY <3>1, BaseType
            <4> QED BY <1>1, <1>2, <3>1, <4>1
        <3>3. Base(seg) + SegLength(seg) = DeviceSize
            BY <1>1, <3>1, <3>2
        <3>4. DeviceSize - 1 \in Extent(Base(seg), ChunkLength(seg))
            BY <1>1, <3>3 DEF Extent
        <3>5. n \in DOMAIN chunks'
            BY <1>5, <2>2
        <3> QED BY <1>5, <2>1, <2>2, <3>3, <3>4, <3>5
    <2> QED BY <1>3, <2>3, <2>4 DEF EndInv, EndTaken
<1> QED BY <1>4, <1>5, ScanSegmentShape

\* A new chunk is long enough not to fit behind the end of the device.
LEMMA CallEnd ==
    ASSUME LastSegmentUsed, WholeWords, ClusterBitmaps, IInv, EndInv,
           NEW type, NEW size, NEW length, NEW counted,
           AllocatorCall(type, size, length, counted)
    PROVE  EndInv'
<1>1. phase # "scan" /\ size \in Nat /\ size >= SystemChunkSize /\ TypeOK /\ ScanProgress
    BY DEF AllocatorCall, IInv
<1>2. PICK t \in SegmentsDone : UsedToTheEnd(t)
    BY <1>1, LastSegmentDone DEF ScanProgress
<1>3. DeviceSize - 1 \notin space_list
    BY <1>2 DEF EndInv, EndTaken
<1>4. in_use' = in_use /\ seg' = seg /\ space_list' \subseteq space_list
    BY DEF AllocatorCall, Allocate, FromChunk, NewChunk, NoSpace, SpaceListRemove
<1>5. phase' # "scan"
    BY <1>1 DEF AllocatorCall, Allocate, FromChunk, NewChunk, NoSpace
<1>6. EndTaken'
    BY <1>3, <1>4, <1>5 DEF EndTaken
<1>7. CASE \E i \in DOMAIN chunks, addr \in Nat : TakenFrom(i, addr, length, type, counted)
    BY <1>6, <1>7 DEF TakenFrom, ChunksOnDevice, EndInv
<1>8. CASE ChunksKept
    BY <1>6, <1>8 DEF ChunksKept, ChunksOnDevice, EndInv
<1>9. ASSUME NEW n \in Nat, NEW start \in Nat, ChunkMade(n, start, size, type)
      PROVE  EndInv'
    <2>1. /\ DOMAIN chunks = 1 .. Len(chunks) /\ DOMAIN chunks' = 1 .. n /\ n = Len(chunks) + 1
          /\ \A k \in DOMAIN chunks : chunks'[k] = chunks[k]
          /\ chunks'[n].start = start /\ chunks'[n].length = size
          /\ Extent(start, size) \subseteq space_list
        BY <1>9 DEF ChunkMade
    <2>2. start + size <= DeviceSize
        <3>1. size > Reserved /\ Reserved \in Nat /\ DeviceSize \in Nat
            BY <1>1
        <3>2. start + size - 1 \in Extent(start, size)
            BY <1>1, <3>1 DEF Extent
        <3>3. start + size - 1 \in Extent(Reserved, DeviceSize)
            BY <1>1, <2>1, <3>2 DEF ScanProgress
        <3>4. start < DeviceSize
            BY <1>1, <3>1, <3>3 DEF Extent
        <3>5. DeviceSize - 1 \notin Extent(start, size)
            BY <1>3, <2>1
        <3> QED BY <1>1, <3>1, <3>4, <3>5 DEF Extent
    <2>3. \A i \in DOMAIN chunks' : i = n \/ i \in DOMAIN chunks
        BY <2>1
    <2> QED BY <1>6, <2>1, <2>2, <2>3 DEF EndInv, ChunksOnDevice
<1> QED BY <1>7, <1>8, <1>9, CallShape

LEMMA EndStep ==
    ASSUME LastSegmentUsed, WholeStripes, WholeWords, ClusterBitmaps, ConvInv, EndInv,
           [ConvNext]_<<vars, cvars>>
    PROVE  EndInv'
<1>1. IInv /\ StepPhase /\ Queues
    BY DEF ConvInv
<1>2. CASE ScanSegment
    BY <1>1, <1>2, ScanSegmentEnd
<1>3. CASE Calls
    BY <1>1, <1>3, CallEnd DEF Calls
<1>4. CASE Quiet
    <2>1. UNCHANGED <<in_use, seg, space_list, chunks>> /\ (phase' = "scan" => phase = "scan")
        BY <1>4 DEF Quiet, ChunksKept
    <2> QED BY <2>1 DEF EndInv, EndTaken, ChunksOnDevice, SegmentsDone, UsedToTheEnd, LocatedIn
<1> QED BY <1>1, <1>2, <1>3, <1>4, ConvCases

LEMMA BlocksOnDevice ==
    ASSUME ConvInv, GeometryInv, ChunksOnDevice
    PROVE  BlocksInside
<1>1. DOMAIN disk = 0 .. OrigSize - 1 /\ OrigSize \in Nat /\ DeviceSize <= OrigSize /\ TypeOK
    BY ConversionAssumption DEF ConvInv, OnlyGrantedWritten, IInv
<1>2. ASSUME NEW a \in Blocks, NEW u \in Extent(a.addr, a.length) PROVE u \in DOMAIN disk
    <2>1. a \in allocated
        BY DEF Blocks
    <2>2. PICK i \in DOMAIN chunks :
              Extent(a.addr, a.length) \subseteq Extent(chunks[i].start, chunks[i].length)
        BY <2>1 DEF GeometryInv, InsideChunk
    <2>3. chunks[i].start \in Nat /\ chunks[i].length \in Nat
          /\ chunks[i].start + chunks[i].length <= DeviceSize
        BY <1>1, ChunkFields DEF ChunksOnDevice
    <2>4. u \in Extent(chunks[i].start, chunks[i].length)
        BY <2>2
    <2> QED BY <1>1, <2>3, <2>4 DEF Extent
<1> QED BY <1>2 DEF BlocksInside

\* A cluster that lies before the end of the reserved area or in the stripe of a
\* superblock is never granted.
Guarded(k) ==
    \E u \in Extent(k * ClusterSize, ClusterSize) : u < Reserved \/ u \in SuperSpace(0, DeviceSize)

ProtectGuarded == step = "protect" => \A k \in Range(todo) : Guarded(k)

LEMMA StripeGuarded ==
    ASSUME WholeStripes, WholeClusters, SupersOnStripes,
           NEW sb \in SuperAddrs, sb < DeviceSize, NEW k \in Stripe(sb)
    PROVE  Guarded(k)
<1>1. sb \in Nat /\ sb % StripeLen = 0 /\ sb % ClusterSize = 0
    BY DEF SupersOnStripes, WholeClusters
<1>2. k \in Nat /\ k * ClusterSize < DeviceSize
    BY <1>1, StripeClusters
<1>3. sb - (sb % StripeLen) = sb
    BY <1>1
<1>4. Stripe(sb) = (sb \div ClusterSize) .. (((sb + StripeLen) - 1) \div ClusterSize)
    BY <1>3 DEF Stripe
<1> DEFINE q == sb \div ClusterSize
           top == (sb + StripeLen) - 1
<1>5. q \in Nat /\ sb = q * ClusterSize
    <2>1. sb = ClusterSize * q + (sb % ClusterSize) /\ q \in Int
        BY <1>1, Division
    <2>2. q \in Nat
        BY <1>1, QuotientBounds
    <2> QED BY <1>1, <2>1, <2>2
<1>6. top \in Nat /\ top \div ClusterSize \in Nat
    BY <1>1, QuotientBounds
<1>7. q <= k /\ k <= top \div ClusterSize
    BY <1>2, <1>4, <1>5, <1>6
<1> HIDE DEF top
<1>8. k * ClusterSize <= top
    BY <1>2, <1>6, <1>7, QuotientBounds
<1> HIDE DEF q
<1>9. (k - q) * ClusterSize >= 0
    BY <1>2, <1>5, <1>7
<1> DEFINE u == k * ClusterSize
<1>10. u \in Nat /\ sb <= u
    BY <1>2, <1>5, <1>9
<1>11. u \in Extent(k * ClusterSize, ClusterSize)
    BY <1>10 DEF Extent
<1>12. u <= top /\ u < DeviceSize
    BY <1>2, <1>8
<1> HIDE DEF u
<1>13. u \in Extent(sb, StripeLen) /\ u \in Extent(0, DeviceSize)
    BY <1>1, <1>10, <1>12 DEF Extent, top
<1>14. u \in SuperSpace(0, DeviceSize)
    BY <1>13 DEF SuperSpace
<1> QED BY <1>11, <1>14 DEF Guarded

\* The clusters of the stripes of all superblocks but the first, and those of the
\* reserved area.
MirrorClusters == UNION {Stripe(sb) : sb \in {x \in SuperAddrs \ {PrimarySuper} : x < DeviceSize}}
ReservedClusters == 0 .. (Reserved \div ClusterSize) - 1

LEMMA ProtectSets ==
    ASSUME WholeStripes, WholeClusters
    PROVE  /\ MirrorClusters \in SUBSET Nat /\ IsFiniteSet(MirrorClusters)
           /\ ReservedClusters \in SUBSET Nat /\ IsFiniteSet(ReservedClusters)
           /\ \A k \in ReservedClusters : k * ClusterSize < Reserved
<1>1. ASSUME NEW k \in MirrorClusters PROVE k \in Nat /\ k * ClusterSize < DeviceSize
    <2>1. PICK sb \in SuperAddrs : sb < DeviceSize /\ k \in Stripe(sb)
        BY DEF MirrorClusters
    <2>2. sb \in Nat
        OBVIOUS
    <2> QED BY <2>1, <2>2, StripeClusters
<1>2. MirrorClusters \in SUBSET Nat /\ IsFiniteSet(MirrorClusters)
    <2>1. \A k \in Nat : k <= k * ClusterSize
        OBVIOUS
    <2>2. MirrorClusters \subseteq 0 .. DeviceSize
        BY <1>1, <2>1
    <2>3. IsFiniteSet(0 .. DeviceSize)
        BY ClustersUpTo
    <2> QED BY <1>1, <2>2, <2>3, FS_Subset
<1> DEFINE q == Reserved \div ClusterSize
<1>3. q \in Nat
    BY QuotientBounds
<1>4. Reserved = q * ClusterSize
    BY Division DEF WholeClusters
<1>5. ReservedClusters = 0 .. q - 1
    BY DEF ReservedClusters
<1> HIDE DEF q
<1>6. ReservedClusters \in SUBSET Nat /\ IsFiniteSet(ReservedClusters)
    <2>1. ReservedClusters \subseteq 0 .. q
        BY <1>3, <1>5
    <2>2. IsFiniteSet(0 .. q)
        BY <1>3, FS_Interval
    <2>3. IsFiniteSet(ReservedClusters)
        BY <2>1, <2>2, FS_Subset
    <2>4. \A k \in 0 .. q : k \in Nat
        BY <1>3
    <2> QED BY <2>1, <2>3, <2>4
<1>7. ASSUME NEW k \in ReservedClusters PROVE k * ClusterSize < Reserved
    <2>1. k \in Nat /\ k + 1 <= q
        BY <1>3, <1>5
    <2>2. (q - (k + 1)) * ClusterSize >= 0
        BY <1>3, <2>1
    <2> QED BY <1>3, <1>4, <2>1, <2>2
<1> QED BY <1>2, <1>6, <1>7

\* With the chunks up to the end of the device nothing else is looked at.
LEMMA ProtectQueue ==
    ASSUME WholeSectors, WholeStripes, WholeClusters,
           chunks[Len(chunks)].start + chunks[Len(chunks)].length = DeviceSize
    PROVE  ToProtect = Ascending(MirrorClusters) \o Ascending(ReservedClusters)
<1> DEFINE Aligned(sb) == sb - (sb % StripeLen)
           First == CHOOSE sb \in SuperAddrs : \A other \in SuperAddrs : sb <= other
           Mirrors == {sb \in SuperAddrs \ {First} : sb < DeviceSize}
           Clusters(from, to) == (from \div ClusterSize) .. ((to - 1) \div ClusterSize)
           A == UNION {Clusters(Aligned(sb), Aligned(sb) + StripeLen) : sb \in Mirrors}
           B == 0 .. (Reserved \div ClusterSize) - 1
           last == chunks[Len(chunks)]
           end == last.start + last.length
           C == (end \div ClusterSize) .. (DeviceSize \div ClusterSize) - 0
           D == IF end < DeviceSize THEN Ascending(C) ELSE <<>>
<1>1. ToProtect = Ascending(A) \o Ascending(B) \o <<>> \o <<>>
    <2>1. ToProtect = Ascending(A) \o Ascending(B) \o <<>> \o D
        BY DEF ToProtect, WholeSectors
    <2>2. end = DeviceSize
        OBVIOUS
    <2> HIDE DEF end
    <2>3. ~ (end < DeviceSize)
        BY <2>2
    <2>4. D = <<>>
        BY <2>3
    <2> HIDE DEF D, A, B
    <2> QED BY <2>1, <2>4
<1>2. A = MirrorClusters
    <2>1. \A sb : Clusters(Aligned(sb), Aligned(sb) + StripeLen) = Stripe(sb)
        BY Zenon DEF Stripe
    <2>2. First = PrimarySuper
        BY Zenon DEF PrimarySuper
    <2> HIDE DEF Clusters, Aligned, First
    <2> QED BY <2>1, <2>2 DEF MirrorClusters
<1>3. B = ReservedClusters
    BY DEF ReservedClusters
<1> HIDE DEF A, B
<1> DEFINE a == Ascending(MirrorClusters)
           b == Ascending(ReservedClusters)
<1>4. a \in Seq(Nat) /\ b \in Seq(Nat)
    BY ProtectSets, AscendingRange
<1>5. ToProtect = a \o b \o <<>> \o <<>>
    BY <1>1, <1>2, <1>3
<1> HIDE DEF a, b
<1> DEFINE c == a \o b
<1>6. c \in Seq(Nat)
    BY <1>4
<1>7. ToProtect = c \o <<>> \o <<>>
    BY <1>5
<1> HIDE DEF c
<1>8. c \o <<>> = c
    BY <1>6
<1>9. ToProtect = c
    BY <1>7, <1>8
<1> QED BY <1>9 DEF a, b, c

LEMMA ProtectOnlyGuarded ==
    ASSUME WholeSectors, WholeStripes, WholeClusters, SupersOnStripes,
           chunks[Len(chunks)].start + chunks[Len(chunks)].length = DeviceSize
    PROVE  \A k \in Range(ToProtect) : Guarded(k)
<1>1. ASSUME NEW k \in MirrorClusters PROVE Guarded(k)
    <2>1. PICK sb \in SuperAddrs : sb < DeviceSize /\ k \in Stripe(sb)
        BY DEF MirrorClusters
    <2> QED BY <2>1, StripeGuarded
<1>2. ASSUME NEW k \in ReservedClusters PROVE Guarded(k)
    <2>1. k \in Nat /\ k * ClusterSize < Reserved
        BY ProtectSets
    <2>2. k * ClusterSize \in Extent(k * ClusterSize, ClusterSize)
        BY <2>1 DEF Extent
    <2> QED BY <2>1, <2>2 DEF Guarded
<1> DEFINE a == Ascending(MirrorClusters)
           b == Ascending(ReservedClusters)
<1>3. a \in Seq(Nat) /\ Range(a) = MirrorClusters /\ b \in Seq(Nat) /\ Range(b) = ReservedClusters
    BY ProtectSets, AscendingRange
<1>4. ToProtect = a \o b
    BY ProtectQueue
<1> HIDE DEF a, b
<1>5. Range(a \o b) = MirrorClusters \cup ReservedClusters
    BY <1>3, JoinedRange
<1> QED BY <1>1, <1>2, <1>4, <1>5

StayInv == EndInv /\ ProtectGuarded /\ CopiesStay

\* What is guarded and has an entry is in use by NTFS.
LEMMA GuardedInUse ==
    ASSUME WholeBitmap, WholeSectors, ClusterBitmaps, BitsInBitmap, TypeOK, GeometryInv,
           NEW k \in KnownClusters, Guarded(k)
    PROVE  k \in ClustersInUse
<1>1. PICK u \in Extent(k * ClusterSize, ClusterSize) : u < Reserved \/ u \in SuperSpace(0, DeviceSize)
    BY DEF Guarded
<1>2. k \in Nat /\ k * ClusterSize \in Nat
    BY DEF KnownClusters
<1>3. u \in Nat
    BY <1>2 DEF Extent
<1>4. u \notin Granted
    <2>1. u < Reserved => u \in Extent(0, Reserved)
        BY <1>3 DEF Extent
    <2> QED BY <1>1, <2>1 DEF GeometryInv, AvoidsSuperblocks
<1>5. k * ClusterSize \in in_use /\ k * ClusterSize < DeviceSize
    BY <1>4 DEF KnownClusters
<1>6. PICK j \in ClustersInUse : j \in Nat /\ k * ClusterSize = j * ClusterSize
    BY <1>5, InUseCluster
<1>7. k * ClusterSize \in Extent(k * ClusterSize, ClusterSize)
    BY <1>2 DEF Extent
<1>8. k * ClusterSize \in Extent(j * ClusterSize, ClusterSize)
    BY <1>6, <1>7
<1> QED BY <1>2, <1>6, <1>7, <1>8, OneCluster

LEMMA ParseStays ==
    ASSUME LastSegmentUsed, SupersOnStripes, WholeStripes, WholeWords, ClusterBitmaps,
           WholeClusters, WholeSectors, ConvInv, StayInv, ParseDataBitmap
    PROVE  ProtectGuarded' /\ CopiesStay'
<1>1. /\ todo' = ToProtect /\ UNCHANGED <<relocs, in_use, seg, space_list, chunks, allocated>>
      /\ phase = "scan" /\ Base(seg) >= DeviceSize /\ TypeOK
    BY DEF ParseDataBitmap, NextPhase, ConvInv, IInv
<1>2. PICK s \in SegmentsDone : UsedToTheEnd(s)
    BY <1>1, LastSegmentDone
<1>3. chunks[Len(chunks)].start + chunks[Len(chunks)].length = DeviceSize
    BY <1>1, <1>2 DEF StayInv, EndInv, EndTaken
<1>4. \A k \in Range(ToProtect) : Guarded(k)
    BY <1>3, ProtectOnlyGuarded
<1>5. ProtectGuarded'
    BY <1>1, <1>4 DEF ProtectGuarded, Guarded, SuperSpace, Extent
<1>6. Moved' = Moved /\ ClustersInUse' = ClustersInUse
    BY <1>1, SameMoves, SameUse
<1> QED BY <1>5, <1>6 DEF StayInv, CopiesStay

LEMMA ProtectStays ==
    ASSUME WholeBitmap, WholeSectors, ClusterBitmaps, BitsInBitmap, ConvInv, GeometryInv,
           RunsInv, ImageInv, StayInv, NoOverwrite', DataAligned', WholeWords, WholeClusters,
           ProtectCluster
    PROVE  ProtectGuarded' /\ CopiesStay'
<1>1. /\ step = "protect" /\ phase = "protect" /\ todo # <<>> /\ todo' = Tail(todo)
      /\ step' = "protect"
    BY DEF ProtectCluster, ConvInv, StepPhase
<1>2. todo \in Seq(Nat) /\ relocs \in Seq(Relocations) /\ Listed(runs, Segments, KnownClusters)
    BY <1>1 DEF RunsInv
<1> DEFINE k == Head(todo)
<1>3. k \in Nat /\ Range(todo) = {k} \cup Range(todo')
    BY <1>1, <1>2, RangeOfQueue, HeadAndTail
<1>4. k \in Range(todo)
    BY <1>3
<1>5. ProtectGuarded'
    <2>1. \A x : Guarded(x)' = Guarded(x)
        BY DEF Guarded, SuperSpace, Extent
    <2> HIDE DEF k
    <2> QED BY <1>1, <1>3, <2>1 DEF StayInv, ProtectGuarded
<1>6. CASE UNCHANGED <<relocs, in_use>>
    BY <1>5, <1>6, SameMoves, SameUse DEF StayInv, CopiesStay
<1>7. CASE /\ Met(runs[SegmentOf(k)], k, 1) # {}
           /\ AllocateData(ClusterSize, FALSE) /\ phase' # "failed" /\ Relocate(k)
    <2>1. AllocatorCall("data", DataChunkSize, ClusterSize, FALSE) /\ in_use' = in_use
        BY <1>1, <1>7, DataCalls
        DEF AllocateData, Allocate, FromChunk, NewChunk, NoSpace
    <2>2. SegmentOf(k) \in Segments /\ Guarded(k)
        BY <1>1, <1>4 DEF ImageInv, ProtectPlaced, StayInv, ProtectGuarded
    <2>3. k \in KnownClusters
        <3> DEFINE s == SegmentOf(k)
        <3> HIDE DEF k
        <3>1. runs[s] \in Seq(Entries) /\ InOrder(runs[s]) /\ Covered(runs[s]) \subseteq KnownClusters
            BY <1>2, <2>2 DEF Listed, k
        <3>2. Met(runs[s], k, 1) # {}
            BY <1>7
        <3> HIDE DEF s
        <3>3. k \in Covered(runs[s])
            BY <1>3, <3>1, <3>2, MetCovered
        <3> QED BY <3>1, <3>3
    <2>4. k \in ClustersInUse
        BY <2>2, <2>3, GuardedInUse DEF GeometryInv, IInv
    <2> DEFINE n == Returned \div ClusterSize
               r == [old_start |-> k, new_start |-> n]
    <2>5. n \in Nat
        BY <1>1, <1>7, <2>1, DataReturned DEF ConvInv
    <2>6. relocs' = Append(relocs, r)
        BY <1>7 DEF Relocate
    <2> HIDE DEF n, k
    <2>7. r \in Relocations /\ r.old_start = k
        BY <1>3, <2>5 DEF Relocations
    <2> HIDE DEF r
    <2>8. Moved' = Moved \cup {k}
        BY <1>2, <2>6, <2>7, MovedOn
    <2>9. ClustersInUse' = ClustersInUse
        BY <2>1, SameUse
    <2> QED BY <1>5, <2>4, <2>8, <2>9 DEF StayInv, CopiesStay, k
<1>8. ASSUME AllocateData(ClusterSize, FALSE), phase' = "failed", Stays
      PROVE  UNCHANGED <<relocs, in_use>>
    BY <1>8 DEF Stays, memory, AllocateData, Allocate, FromChunk, NewChunk, NoSpace
<1> QED BY <1>1, <1>6, <1>7, <1>8 DEF ProtectCluster, Stays, memory, vars

LEMMA StayStep ==
    ASSUME LastSegmentUsed, SupersOnStripes, WholeStripes, WholeWords, ClusterBitmaps,
           WholeClusters, WholeBitmap, WholeSectors, BitsInBitmap,
           ConvInv, GeometryInv, RunsInv, ImageInv, StayInv, NoOverwrite', DataAligned',
           [ConvNext]_<<vars, cvars>>
    PROVE  StayInv'
<1>1. EndInv'
    BY EndStep DEF StayInv
<1>2. CASE ParseDataBitmap
    BY <1>1, <1>2, ParseStays DEF StayInv
<1>3. CASE ProtectCluster
    BY <1>1, <1>3, ProtectStays DEF StayInv
<1>4. CASE \/ Scan \/ CalcUsedSpace \/ SplitRuns \/ MapFile \/ WriteData \/ CreateImage
           \/ CreateDataExtentItems \/ JoinRun \/ CalcChecksums \/ LayOutBlock \/ LayoutDone
           \/ WriteTrees \/ TreesWritten \/ WriteSuperblock \/ ClearFirstCluster
    <2>1. step' # "protect" /\ UNCHANGED relocs
        BY <1>4 DEF Scan, CalcUsedSpace, SplitRuns, MapFile, WriteData, CreateImage,
            CreateDataExtentItems, JoinRun, CalcChecksums, LayOutBlock, LayoutDone, WriteTrees,
            TreesWritten, WriteSuperblock, ClearFirstCluster, cvars, memory, Stays
    <2>2. UNCHANGED in_use
        <3>1. CASE ScanSegment
            BY <3>1 DEF ScanSegment
        <3>2. CASE Quiet
            BY <3>2 DEF Quiet, ChunksKept
        <3>3. CASE Calls
            BY <3>3 DEF Calls, AllocatorCall, Allocate, FromChunk, NewChunk, NoSpace
        <3> QED BY <3>1, <3>2, <3>3, ConvCases DEF ConvInv
    <2>3. Moved' = Moved /\ ClustersInUse' = ClustersInUse
        BY <2>1, <2>2, SameMoves, SameUse
    <2> QED BY <1>1, <2>1, <2>3 DEF StayInv, ProtectGuarded, CopiesStay
<1>5. CASE UNCHANGED <<vars, cvars>>
    <2>1. UNCHANGED <<step, todo, relocs, in_use>>
        BY <1>5 DEF vars, cvars, memory
    <2>2. Moved' = Moved /\ ClustersInUse' = ClustersInUse
        BY <2>1, SameMoves, SameUse
    <2>3. \A x : Guarded(x)' = Guarded(x)
        BY DEF Guarded, SuperSpace, Extent
    <2> QED BY <1>1, <2>1, <2>2, <2>3 DEF StayInv, ProtectGuarded, CopiesStay
<1> QED BY <1>2, <1>3, <1>4, <1>5 DEF ConvNext

LEMMA InitStay == ConvInit => StayInv
<1>1. ConvInit => EndInv
    BY InitEnd DEF ConvInit
<1>2. ASSUME ConvInit PROVE ProtectGuarded /\ CopiesStay
    <2>1. step = "scan" /\ relocs = <<>>
        BY <1>2 DEF ConvInit
    <2>2. Moved = {}
        BY <2>1 DEF Moved
    <2> QED BY <2>1, <2>2 DEF ProtectGuarded, CopiesStay
<1> QED BY <1>1, <1>2 DEF StayInv

\* If something is in use in the last segment, no copy is moved in its turn and the trees
\* are laid out on the device: the chunks then come to the end of the device, with
\* nothing left behind them, and protect_superblocks looks only at places that are never
\* given out.
THEOREM NothingMovedTwice ==
    ASSUME WholeStripes, WholeWords, ClusterBitmaps, WholeClusters, BootInUse, WholeBitmap,
           WholeSectors, BitsInBitmap, SuperblockReserved, EndClear, LastSegmentUsed,
           SupersOnStripes
    PROVE  ConvSpec => [](CopiesStay /\ BlocksInside)
<1>1. ConvInit => AlignedInv /\ RunsInv /\ ImageInv /\ StayInv
    BY InitAligned, InitRuns, InitImage, InitStay DEF ConvInit
<1>2. ConvInv /\ AlignedInv /\ [ConvNext]_<<vars, cvars>> => AlignedInv'
    BY ConvAligned
<1>3. ConvInv => NoOverwrite
    BY LocatedNotGranted DEF ConvInv
<1>4. AlignedInv => DataAligned
    BY DEF AlignedInv
<1>5. /\ ConvInv /\ RunsInv /\ DataAligned' /\ NoOverwrite' /\ [ConvNext]_<<vars, cvars>>
      => RunsInv'
    BY RunsStep
<1>6. /\ ConvInv /\ GeometryInv /\ RunsInv /\ ImageInv /\ DataInside' /\ DataAligned'
      /\ NoOverwrite' /\ [ConvNext]_<<vars, cvars>>
      => ImageInv'
    BY ImageStep
<1>7. /\ ConvInv /\ GeometryInv /\ RunsInv /\ ImageInv /\ StayInv /\ NoOverwrite' /\ DataAligned'
      /\ [ConvNext]_<<vars, cvars>>
      => StayInv'
    BY StayStep
<1>8. ConvInv /\ GeometryInv /\ StayInv => CopiesStay /\ BlocksInside
    BY BlocksOnDevice DEF StayInv, EndInv
<1> QED BY <1>1, <1>2, <1>3, <1>4, <1>5, <1>6, <1>7, <1>8, ConversionInvariant, ConvDataInside,
           PTL DEF ConvSpec

\* The files of a volume do not change while it is converted.
LEMMA FilesStaySound ==
    ASSUME FilesSound, StepPhase, Queues, [ConvNext]_<<vars, cvars>>
    PROVE  FilesSound'
<1>1. UNCHANGED <<files, in_use>>
    <2>1. UNCHANGED in_use
        <3>1. CASE ScanSegment
            BY <3>1 DEF ScanSegment
        <3>2. CASE Quiet
            BY <3>2 DEF Quiet, ChunksKept
        <3>3. CASE Calls
            BY <3>3 DEF Calls, AllocatorCall, Allocate, FromChunk, NewChunk, NoSpace
        <3> QED BY <3>1, <3>2, <3>3, ConvCases
    <2>2. UNCHANGED files
        BY DEF ConvNext, Scan, ParseDataBitmap, ProtectCluster, CalcUsedSpace, SplitRuns, MapFile,
            WriteData, CreateImage, CreateDataExtentItems, JoinRun, CalcChecksums, LayOutBlock,
            LayoutDone, WriteTrees, TreesWritten, WriteSuperblock, ClearFirstCluster, cvars
    <2> QED BY <2>1, <2>2
<1> QED BY <1>1 DEF FilesSound, FilesMarked, FilesApart, Laid

\* The same from what the volume is like at the start alone.
THEOREM VolumesSwitchOver ==
    ASSUME WholeStripes, WholeWords, ClusterBitmaps, WholeClusters, BootInUse, WholeBitmap,
           WholeSectors, BitsInBitmap, SuperblockReserved, EndClear, FirstClusterShort,
           LastSegmentUsed, SupersOnStripes
    PROVE  FilesSound /\ ConvSpec => SwitchesOver
<1>1. ConvSpec => [](CopiesStay /\ BlocksInside)
    BY NothingMovedTwice
<1>2. ConvSpec /\ [](FilesSound /\ CopiesStay /\ BlocksInside) => SwitchesOver
    BY ConversionSwitchesOver
<1>3. ConvInv /\ FilesSound /\ [ConvNext]_<<vars, cvars>> => FilesSound'
    BY FilesStaySound DEF ConvInv
<1> QED BY <1>1, <1>2, <1>3, ConversionInvariant, PTL DEF ConvSpec

\* On such volumes the files read back and all data is summed.
THEOREM VolumesReadBack ==
    ASSUME WholeStripes, WholeWords, ClusterBitmaps, WholeClusters, BootInUse, WholeBitmap,
           WholeSectors, BitsInBitmap, SuperblockReserved, EndClear, LastSegmentUsed,
           SupersOnStripes
    PROVE  FilesSound /\ ConvSpec => [](FilesFaithful /\ ChecksumsHold)
<1>1. ConvSpec => [](CopiesStay /\ BlocksInside)
    BY NothingMovedTwice
<1>2. ConvSpec => [](FilesSound => FilesFaithful)
    BY FilesReadBack
<1>3. ConvSpec => [](FilesMarked /\ CopiesStay => ChecksumsHold)
    BY ChecksumsKept
<1>4. FilesSound => FilesMarked
    BY DEF FilesSound
<1>5. ConvInv /\ FilesSound /\ [ConvNext]_<<vars, cvars>> => FilesSound'
    BY FilesStaySound DEF ConvInv
<1> QED BY <1>1, <1>2, <1>3, <1>4, <1>5, ConversionInvariant, PTL DEF ConvSpec

-----------------------------------------------------------------------------
(* The entries of all segments together. *)

Listings(R) == UNION {Members(R[s]) : s \in Segments}

\* What split_runs does to them: one entry gives way to its parts.
LEMMA ListingsCut ==
    ASSUME NEW R, NEW Known, Listed(R, Segments, Known), NEW t \in Segments,
           NEW offset \in Nat, NEW length \in Nat \ {0}, NEW inode \in Int, NEW file_offset \in Nat,
           ~ Torn(R[t], offset, length), Met(R[t], offset, length) # {}
    PROVE  LET Q == CutIn(R, t, offset, length, inode, file_offset)
           IN  \E r \in Members(R[t]) :
                  LET p == Piece(r, offset, length, inode, file_offset)
                  IN  /\ r.offset <= offset /\ offset + length <= r.offset + r.length
                      /\ p \in Listings(Q) /\ PartCut(p, r, offset, length, inode)
                      /\ \A x \in Listings(Q) :
                            \/ x \in Listings(R)
                            \/ PartBefore(x, r, offset)
                            \/ x = p
                            \/ PartAfter(x, r, offset + length)
                      /\ \A x \in Listings(R) : x = r \/ x \in Listings(Q)
<1> DEFINE Q == CutIn(R, t, offset, length, inode, file_offset)
           cut == Cut(R[t], offset, length, inode, file_offset)
<1>1. R \in [Segments -> Seq(Entries)] /\ R[t] \in Seq(Entries) /\ InOrder(R[t])
    BY DEF Listed
<1>2. Q[t] = cut /\ \A s \in Segments : s # t => Q[s] = R[s]
    BY <1>1 DEF CutIn
<1>3. PICK r \in Members(R[t]) :
         LET p == Piece(r, offset, length, inode, file_offset)
         IN  /\ r.offset <= offset /\ offset + length <= r.offset + r.length
             /\ p \in Members(cut) /\ PartCut(p, r, offset, length, inode)
             /\ \A x \in Members(cut) :
                   \/ x \in Members(R[t])
                   \/ PartBefore(x, r, offset)
                   \/ x = p
                   \/ PartAfter(x, r, offset + length)
             /\ \A x \in Members(R[t]) : x = r \/ x \in Members(cut)
    BY <1>1, CutParts
<1> DEFINE p == Piece(r, offset, length, inode, file_offset)
<1> HIDE DEF Q, cut, p
<1>4. /\ p \in Members(cut)
      /\ \A x \in Members(cut) : \/ x \in Members(R[t]) \/ PartBefore(x, r, offset) \/ x = p
                                 \/ PartAfter(x, r, offset + length)
      /\ \A x \in Members(R[t]) : x = r \/ x \in Members(cut)
    BY <1>3 DEF p
<1>5. p \in Listings(Q)
    BY <1>2, <1>4 DEF Listings
<1>6. ASSUME NEW x \in Listings(Q)
      PROVE  \/ x \in Listings(R) \/ PartBefore(x, r, offset) \/ x = p
             \/ PartAfter(x, r, offset + length)
    <2>1. PICK s \in Segments : x \in Members(Q[s])
        BY DEF Listings
    <2> QED BY <1>2, <1>4, <2>1 DEF Listings
<1>7. ASSUME NEW x \in Listings(R) PROVE x = r \/ x \in Listings(Q)
    <2>1. PICK s \in Segments : x \in Members(R[s])
        BY DEF Listings
    <2> QED BY <1>2, <1>4, <2>1 DEF Listings
<1>8. r.offset <= offset /\ offset + length <= r.offset + r.length
      /\ PartCut(p, r, offset, length, inode)
    BY <1>3 DEF p
<1> QED BY <1>5, <1>6, <1>7, <1>8 DEF Q, p

LEMMA ListingsInsert ==
    ASSUME NEW R, NEW Known, Listed(R, Segments, Known), NEW t \in Segments, NEW r \in Entries,
           Known \cap Extent(r.offset, r.length) = {}
    PROVE  Listings([R EXCEPT ![t] = Insert(R[t], r)]) = Listings(R) \cup {r}
<1> DEFINE Q == [R EXCEPT ![t] = Insert(R[t], r)]
<1>1. R \in [Segments -> Seq(Entries)] /\ R[t] \in Seq(Entries) /\ InOrder(R[t])
      /\ Covered(R[t]) \cap Extent(r.offset, r.length) = {}
    BY DEF Listed
<1>2. Members(Insert(R[t], r)) = Members(R[t]) \cup {r}
    BY <1>1, InsertInOrder
<1>3. Members(Q[t]) = Members(R[t]) \cup {r} /\ \A s \in Segments : s # t => Q[s] = R[s]
    BY <1>1, <1>2
<1> HIDE DEF Q
<1>4. ASSUME NEW x PROVE x \in Listings(Q) <=> x \in Listings(R) \/ x = r
    BY <1>3 DEF Listings
<1> QED BY <1>4 DEF Q

\* The entries are of clusters that are known.
LEMMA ListingsKnown ==
    ASSUME NEW R, NEW Known, Listed(R, Segments, Known), NEW r \in Listings(R)
    PROVE  r \in Entries /\ Extent(r.offset, r.length) \subseteq Known
<1>1. PICK s \in Segments : r \in Members(R[s])
    BY DEF Listings
<1>2. R[s] \in Seq(Entries) /\ Covered(R[s]) \subseteq Known
    BY DEF Listed
<1> QED BY <1>1, <1>2, MemberEntries DEF Covered

\* A cluster has one entry, in whatever list.
LEMMA OneListing ==
    ASSUME NEW R, NEW Known, Listed(R, Segments, Known), Confined(R),
           NEW x \in Listings(R), NEW y \in Listings(R), NEW k,
           k \in Extent(x.offset, x.length), k \in Extent(y.offset, y.length)
    PROVE  x = y
<1>1. PICK s \in Segments : x \in Members(R[s])
    BY DEF Listings
<1>2. PICK t \in Segments : y \in Members(R[t])
    BY DEF Listings
<1>3. k \in Covered(R[s]) /\ k \in Covered(R[t])
    BY <1>1, <1>2 DEF Covered
<1>4. s = t
    BY <1>3 DEF Confined
<1>5. R[s] \in Seq(Entries) /\ InOrder(R[s])
    BY DEF Listed
<1> QED BY <1>1, <1>2, <1>4, <1>5, OneEntry

\* A cluster that a list covers has an entry.
LEMMA ListingOf ==
    ASSUME NEW R, NEW s \in Segments, NEW k \in Covered(R[s])
    PROVE  \E r \in Listings(R) : r \in Members(R[s]) /\ k \in Extent(r.offset, r.length)
BY DEF Covered, Listings

-----------------------------------------------------------------------------
(* The entries of copies. *)

\* The clusters that others were moved to.
Copies == {relocs[i].new_start : i \in DOMAIN relocs}

\* The entry of a copy says so, and no other does; the image has part in all but
\* the data of files that was written anew.
CopyTold(r, C) ==
    /\ r.relocated => r.offset \in C
    /\ Extent(r.offset, r.length) \cap C # {} => r.relocated
    /\ r.not_in_img => r.inode \notin {0, dummy_inode} /\ ~ r.relocated

CopiesTold(R, C) == \A r \in Listings(R) : CopyTold(r, C)

LEMMA CopiesCut ==
    ASSUME NEW R, NEW Known, Listed(R, Segments, Known), NEW t, NEW C, CopiesTold(R, C),
           \A r \in Listings(R) : r.relocated => r.length = 1,
           NEW offset \in Nat, NEW length \in Nat \ {0}, NEW inode \in Int, NEW file_offset \in Nat,
           t \in Segments => ~ Torn(R[t], offset, length)
    PROVE  CopiesTold(CutIn(R, t, offset, length, inode, file_offset), C)
<1> DEFINE Q == CutIn(R, t, offset, length, inode, file_offset)
<1>1. R \in [Segments -> Seq(Entries)]
    BY DEF Listed
<1>2. CASE t \notin Segments
    <2>1. Q = R
        BY <1>1, <1>2 DEF CutIn
    <2> QED BY <2>1
<1>3. CASE t \in Segments /\ Met(R[t], offset, length) = {}
    <2>1. Q = R
        BY <1>1, <1>3 DEF CutIn, Cut
    <2> QED BY <2>1
<1>4. CASE t \in Segments /\ Met(R[t], offset, length) # {}
    <2>1. PICK r \in Members(R[t]) :
             LET p == Piece(r, offset, length, inode, file_offset)
             IN  /\ r.offset <= offset /\ offset + length <= r.offset + r.length
                 /\ p \in Listings(Q) /\ PartCut(p, r, offset, length, inode)
                 /\ \A x \in Listings(Q) :
                       \/ x \in Listings(R)
                       \/ PartBefore(x, r, offset)
                       \/ x = p
                       \/ PartAfter(x, r, offset + length)
                 /\ \A x \in Listings(R) : x = r \/ x \in Listings(Q)
        BY <1>4, ListingsCut
    <2>2. r \in Listings(R)
        BY <1>4 DEF Listings
    <2>3. r \in Entries /\ CopyTold(r, C) /\ (r.relocated => r.length = 1)
        BY <2>2, ListingsKnown DEF CopiesTold
    <2>4. r.offset \in Nat /\ r.length \in Nat \ {0}
        BY <2>3 DEF Entries
    <2> HIDE DEF Q
    <2>5. r.offset <= offset /\ offset + length <= r.offset + r.length
        BY <2>1
    <2>6. ASSUME NEW x, PartBefore(x, r, offset) PROVE CopyTold(x, C)
        <3>1. Extent(x.offset, x.length) \subseteq Extent(r.offset, r.length)
            BY <2>4, <2>5, <2>6 DEF Extent, PartBefore
        <3>2. r.length # 1
            BY <2>4, <2>5, <2>6 DEF PartBefore
        <3>3. ~ x.relocated /\ ~ x.not_in_img
            BY <2>6 DEF PartBefore
        <3> QED BY <2>3, <3>1, <3>2, <3>3 DEF CopyTold
    <2>7. ASSUME NEW x, PartCut(x, r, offset, length, inode) PROVE CopyTold(x, C)
        <3>1. Extent(x.offset, x.length) \subseteq Extent(r.offset, r.length)
            BY <2>4, <2>5, <2>7 DEF Extent, PartCut
        <3>2. r.length = 1 => x.offset = r.offset
            BY <2>4, <2>5, <2>7 DEF PartCut
        <3>3. x.relocated = r.relocated /\ ~ x.not_in_img
            BY <2>7 DEF PartCut
        <3> QED BY <2>3, <3>1, <3>2, <3>3 DEF CopyTold
    <2>8. ASSUME NEW x, PartAfter(x, r, offset + length) PROVE CopyTold(x, C)
        <3>1. Extent(x.offset, x.length) \subseteq Extent(r.offset, r.length)
            BY <2>4, <2>5, <2>8 DEF Extent, PartAfter
        <3>2. r.length # 1
            BY <2>4, <2>5, <2>8 DEF PartAfter
        <3>3. /\ x.relocated = r.relocated /\ x.not_in_img = r.not_in_img
              /\ x.inode = r.inode
            BY <2>8 DEF PartAfter
        <3> QED BY <2>3, <3>1, <3>2, <3>3 DEF CopyTold
    <2>9. ASSUME NEW x \in Listings(Q) PROVE CopyTold(x, C)
        <3>1. CASE x \in Listings(R)
            BY <3>1 DEF CopiesTold
        <3>2. CASE x = Piece(r, offset, length, inode, file_offset)
            BY <2>1, <2>7, <3>2
        <3> QED BY <2>1, <2>6, <2>8, <3>1, <3>2
    <2> QED BY <2>9 DEF CopiesTold, Q
<1> QED BY <1>2, <1>3, <1>4

\* The entry of a new copy, and that of new data.
LEMMA CopiesInsert ==
    ASSUME NEW R, NEW Known, Listed(R, Segments, Known), NEW C \in SUBSET Known, CopiesTold(R, C),
           NEW r \in Entries, Known \cap Extent(r.offset, r.length) = {}, NEW t \in Segments
    PROVE  LET Q == [R EXCEPT ![t] = Insert(R[t], r)]
           IN  /\ r.relocated /\ r.length = 1 /\ ~ r.not_in_img => CopiesTold(Q, C \cup {r.offset})
               /\ ~ r.relocated /\ r.inode \notin {0, dummy_inode} => CopiesTold(Q, C)
<1> DEFINE Q == [R EXCEPT ![t] = Insert(R[t], r)]
<1>1. Listings(Q) = Listings(R) \cup {r}
    BY ListingsInsert
<1>2. r.offset \in Extent(r.offset, r.length)
    BY EntryFields DEF Extent
<1>3. ASSUME NEW x \in Listings(R) PROVE CopyTold(x, C) /\ r.offset \notin Extent(x.offset, x.length)
    BY <1>2, ListingsKnown DEF CopiesTold
<1> HIDE DEF Q
<1>4. ASSUME r.relocated, ~ r.not_in_img PROVE CopiesTold(Q, C \cup {r.offset})
    BY <1>1, <1>3, <1>4 DEF CopiesTold, CopyTold
<1>5. ASSUME ~ r.relocated, r.inode \notin {0, dummy_inode} PROVE CopiesTold(Q, C)
    BY <1>1, <1>3, <1>5 DEF CopiesTold, CopyTold
<1> QED BY <1>4, <1>5 DEF Q

-----------------------------------------------------------------------------
(* No cluster is moved twice, and no two to one place. *)

\* All superblocks but the first are behind the reserved area.
MirrorsBehind == \A sb, other \in SuperAddrs : sb < other => Reserved <= other

Distinct(q) == \A i, j \in DOMAIN q : q[i] = q[j] => i = j

MovesApart ==
    \A i, j \in DOMAIN relocs :
        \/ relocs[i].old_start = relocs[j].old_start
        \/ relocs[i].new_start = relocs[j].new_start
        => i = j

\* What is left to protect has not been moved.
QueueOnce == step = "protect" => Distinct(todo) /\ Range(todo) \cap Moved = {}

RelocInv ==
    /\ MovesApart /\ QueueOnce
    /\ Copies \subseteq KnownClusters
    /\ step # "scan" => CopiesTold(runs, Copies)

LEMMA InitReloc == ConvInit => RelocInv
<1> SUFFICES ASSUME ConvInit PROVE RelocInv
    OBVIOUS
<1>1. step = "scan" /\ relocs = <<>>
    BY DEF ConvInit
<1>2. DOMAIN relocs = {}
    BY <1>1
<1> QED BY <1>1, <1>2 DEF RelocInv, MovesApart, QueueOnce, Copies

LEMMA AscendingDistinct ==
    ASSUME NEW S \in SUBSET Nat, IsFiniteSet(S)
    PROVE  Distinct(Ascending(S))
<1> DEFINE q == Ascending(S)
<1>1. q \in Seq(Nat)
    BY AscendingRange
<1>2. \A i, j \in DOMAIN q : i < j => q[i] < q[j]
    BY AscendingStrictly
<1> HIDE DEF q
<1>3. \A i \in DOMAIN q : i \in Int /\ q[i] \in Nat
    BY <1>1
<1>4. ASSUME NEW i \in DOMAIN q, NEW j \in DOMAIN q, q[i] = q[j] PROVE i = j
    <2>1. ~ (i < j) /\ ~ (j < i)
        BY <1>2, <1>3, <1>4
    <2> QED BY <1>3, <2>1
<1> QED BY <1>4 DEF Distinct, q

LEMMA JoinedDistinct ==
    ASSUME NEW a \in Seq(Nat), NEW b \in Seq(Nat), Distinct(a), Distinct(b),
           Range(a) \cap Range(b) = {}
    PROVE  Distinct(a \o b)
<1>1. /\ DOMAIN a = 1 .. Len(a) /\ DOMAIN b = 1 .. Len(b) /\ Len(a) \in Nat /\ Len(b) \in Nat
      /\ DOMAIN (a \o b) = 1 .. Len(a) + Len(b)
      /\ \A i \in 1 .. Len(a) : (a \o b)[i] = a[i]
      /\ \A i \in 1 .. Len(a) + Len(b) : i > Len(a) => (a \o b)[i] = b[i - Len(a)]
    OBVIOUS
<1> DEFINE c == a \o b
<1> HIDE DEF c
<1>2. \A i \in DOMAIN c : \/ i \in DOMAIN a /\ c[i] = a[i]
                          \/ i \in Nat /\ i - Len(a) \in DOMAIN b /\ c[i] = b[i - Len(a)]
    BY <1>1 DEF c
<1>3. \A i \in DOMAIN a, j \in DOMAIN b : a[i] # b[j]
    BY DEF Range
<1>4. ASSUME NEW i \in DOMAIN c, NEW j \in DOMAIN c, c[i] = c[j] PROVE i = j
    <2>1. CASE i \in DOMAIN a /\ c[i] = a[i] /\ j \in DOMAIN a /\ c[j] = a[j]
        BY <1>4, <2>1 DEF Distinct
    <2>2. CASE /\ i \in Nat /\ i - Len(a) \in DOMAIN b /\ c[i] = b[i - Len(a)]
               /\ j \in Nat /\ j - Len(a) \in DOMAIN b /\ c[j] = b[j - Len(a)]
        <3>1. i - Len(a) = j - Len(a)
            BY <1>4, <2>2 DEF Distinct
        <3> QED BY <1>1, <2>2, <3>1
    <2> QED BY <1>2, <1>3, <1>4, <2>1, <2>2
<1> QED BY <1>4 DEF Distinct, c

\* The primary superblock is the first.
LEMMA FirstOfSupers ==
    ASSUME NEW sb \in SuperAddrs
    PROVE  PrimarySuper \in SuperAddrs /\ PrimarySuper <= sb
<1>1. SuperAddrs \in SUBSET Nat /\ SuperAddrs # {}
    OBVIOUS
<1>2. \E least \in SuperAddrs : \A other \in SuperAddrs : least <= other
    BY <1>1, LeastNatural
<1>3. PrimarySuper \in SuperAddrs /\ \A other \in SuperAddrs : PrimarySuper <= other
    BY <1>2, Zenon DEF PrimarySuper
<1> QED BY <1>3

\* What protect_superblocks looks at it looks at once, if there is nothing behind the last
\* chunk.
LEMMA ProtectDistinct ==
    ASSUME WholeSectors, WholeStripes, WholeClusters, SupersOnStripes, MirrorsBehind,
           chunks[Len(chunks)].start + chunks[Len(chunks)].length = DeviceSize
    PROVE  ToProtect \in Seq(Nat) /\ Distinct(ToProtect)
<1>1. ASSUME NEW k \in MirrorClusters PROVE k \notin ReservedClusters
    <2>1. PICK sb \in SuperAddrs \ {PrimarySuper} : sb < DeviceSize /\ k \in Stripe(sb)
        BY DEF MirrorClusters
    <2>2. sb \in Nat /\ sb % StripeLen = 0 /\ sb % ClusterSize = 0
        BY DEF SupersOnStripes, WholeClusters
    <2>3. Reserved <= sb
        <3>1. PrimarySuper \in SuperAddrs /\ PrimarySuper <= sb
            BY <2>1, FirstOfSupers
        <3>2. PrimarySuper < sb
            BY <2>1, <2>2, <3>1
        <3> QED BY <2>1, <3>1, <3>2 DEF MirrorsBehind
    <2>4. sb - (sb % StripeLen) = sb
        BY <2>2
    <2>5. Stripe(sb) = (sb \div ClusterSize) .. (((sb + StripeLen) - 1) \div ClusterSize)
        BY <2>4 DEF Stripe
    <2> DEFINE q == sb \div ClusterSize
               top == ((sb + StripeLen) - 1) \div ClusterSize
    <2>6. q \in Nat /\ sb = q * ClusterSize
        <3>1. sb = ClusterSize * q + (sb % ClusterSize) /\ q \in Int
            BY <2>2, Division
        <3>2. q \in Nat
            BY <2>2, QuotientBounds
        <3> QED BY <2>2, <3>1, <3>2
    <2>7. k \in Nat /\ q <= k
        <3>1. k \in Nat
            BY <2>1, <2>2, StripeClusters
        <3>2. k \in q .. top
            BY <2>1, <2>5
        <3> HIDE DEF top
        <3> QED BY <2>6, <3>1, <3>2
    <2> HIDE DEF q
    <2>8. (k - q) * ClusterSize >= 0
        BY <2>6, <2>7
    <2>9. sb <= k * ClusterSize
        BY <2>6, <2>7, <2>8
    <2>10. ~ (k * ClusterSize < Reserved)
        BY <2>2, <2>3, <2>7, <2>9
    <2> QED BY <2>10, ProtectSets
<1> DEFINE a == Ascending(MirrorClusters)
           b == Ascending(ReservedClusters)
<1>2. a \in Seq(Nat) /\ Range(a) = MirrorClusters /\ b \in Seq(Nat) /\ Range(b) = ReservedClusters
    BY ProtectSets, AscendingRange
<1>3. Distinct(a) /\ Distinct(b)
    BY ProtectSets, AscendingDistinct
<1>4. ToProtect = a \o b
    BY ProtectQueue
<1> HIDE DEF a, b
<1>5. Distinct(a \o b) /\ a \o b \in Seq(Nat)
    BY <1>1, <1>2, <1>3, JoinedDistinct
<1> QED BY <1>4, <1>5

\* A list without its head.
LEMMA DistinctTail ==
    ASSUME NEW q \in Seq(Nat), q # <<>>, Distinct(q)
    PROVE  Distinct(Tail(q)) /\ Head(q) \notin Range(Tail(q))
<1>1. /\ Len(q) \in Nat \ {0} /\ DOMAIN q = 1 .. Len(q) /\ Head(q) = q[1]
      /\ DOMAIN Tail(q) = 1 .. Len(q) - 1
      /\ \A i \in 1 .. Len(q) - 1 : Tail(q)[i] = q[i + 1]
    OBVIOUS
<1> DEFINE t == Tail(q)
<1> HIDE DEF t
<1>2. \A i \in DOMAIN t : i \in Int /\ i >= 1 /\ i + 1 \in DOMAIN q /\ t[i] = q[i + 1]
    BY <1>1 DEF t
<1>3. ASSUME NEW i \in DOMAIN t, NEW j \in DOMAIN t, t[i] = t[j] PROVE i = j
    <2>1. i + 1 = j + 1
        BY <1>2, <1>3 DEF Distinct
    <2> QED BY <1>2, <2>1
<1>4. ASSUME NEW i \in DOMAIN t PROVE t[i] # Head(q)
    <2>1. 1 \in DOMAIN q /\ i + 1 # 1
        BY <1>1, <1>2
    <2> QED BY <1>1, <1>2, <2>1 DEF Distinct
<1> QED BY <1>3, <1>4 DEF Distinct, Range, t

\* One more relocation.
LEMMA CopiesOn ==
    ASSUME relocs \in Seq(Relocations), NEW r \in Relocations, relocs' = Append(relocs, r)
    PROVE  /\ Copies' = Copies \cup {r.new_start}
           /\ MovesApart /\ r.old_start \notin Moved /\ r.new_start \notin Copies => MovesApart'
<1>1. /\ Len(relocs) \in Nat /\ DOMAIN relocs = 1 .. Len(relocs)
      /\ DOMAIN relocs' = 1 .. Len(relocs) + 1
      /\ \A i \in 1 .. Len(relocs) : relocs'[i] = relocs[i]
      /\ relocs'[Len(relocs) + 1] = r
    OBVIOUS
<1>2. \A i \in DOMAIN relocs' : \/ i \in DOMAIN relocs /\ relocs'[i] = relocs[i]
                                \/ i = Len(relocs) + 1 /\ relocs'[i] = r
    BY <1>1
<1>3. \A i \in DOMAIN relocs : i \in DOMAIN relocs' /\ relocs'[i] = relocs[i]
    BY <1>1
<1>4. Len(relocs) + 1 \in DOMAIN relocs'
    BY <1>1
<1>5. ASSUME NEW x PROVE x \in Copies' <=> x \in Copies \/ x = r.new_start
    <2>1. x \in Copies' <=> \E i \in DOMAIN relocs' : x = relocs'[i].new_start
        BY DEF Copies
    <2>2. x \in Copies <=> \E i \in DOMAIN relocs : x = relocs[i].new_start
        BY DEF Copies
    <2> QED BY <1>1, <1>2, <1>3, <1>4, <2>1, <2>2
<1>6. ASSUME MovesApart, r.old_start \notin Moved, r.new_start \notin Copies PROVE MovesApart'
    <2>1. \A i \in DOMAIN relocs :
             relocs[i].old_start # r.old_start /\ relocs[i].new_start # r.new_start
        BY <1>6 DEF Moved, Copies
    <2> QED BY <1>2, <1>6, <2>1 DEF MovesApart
<1> QED BY <1>5, <1>6

LEMMA CopiesToldNext == CopiesTold(runs, Copies)' <=> CopiesTold(runs', Copies')
BY DEF CopiesTold, CopyTold, Listings, Segments

\* Nothing was moved yet, and nothing will be twice.
LEMMA ParseReloc ==
    ASSUME LastSegmentUsed, SupersOnStripes, MirrorsBehind, WholeStripes, WholeWords,
           ClusterBitmaps, WholeClusters, WholeSectors, WholeBitmap, ConvInv, EndInv, ImageInv,
           ParseDataBitmap
    PROVE  RelocInv'
<1>1. /\ todo' = ToProtect /\ step = "scan" /\ step' = "protect"
      /\ UNCHANGED <<relocs, in_use, seg, space_list, chunks, allocated>>
      /\ phase = "scan" /\ Base(seg) >= DeviceSize /\ TypeOK
    BY DEF ParseDataBitmap, NextPhase, ConvInv, IInv
<1>2. PICK last \in SegmentsDone : UsedToTheEnd(last)
    BY <1>1, LastSegmentDone
<1>3. chunks[Len(chunks)].start + chunks[Len(chunks)].length = DeviceSize
    BY <1>1, <1>2 DEF EndInv, EndTaken
<1>4. Distinct(ToProtect)
    BY <1>3, ProtectDistinct
<1>5. relocs' = <<>> /\ DOMAIN relocs' = {}
    BY <1>1 DEF ImageInv, MovesFresh
<1>6. Copies' = {} /\ Moved' = {} /\ MovesApart'
    BY <1>5 DEF Copies, Moved, MovesApart
<1>7. QueueOnce'
    BY <1>1, <1>4, <1>6 DEF QueueOnce, Distinct
<1> DEFINE U == ClustersInUse
           S(s) == {k \in U : SegmentOf(k) = s}
<1>8. runs' = [s \in Segments |-> RunList(S(s))]
    BY DEF ParseDataBitmap
<1>9. U \in SUBSET Nat /\ IsFiniteSet(U)
    BY InUseKnown
<1> HIDE DEF U
<1>10. ASSUME NEW s \in Segments, NEW r \in Members(runs'[s])
       PROVE  ~ r.relocated /\ ~ r.not_in_img
    <2> DEFINE T == S(s)
    <2>1. T \subseteq U
        OBVIOUS
    <2> HIDE DEF T
    <2>2. T \in SUBSET Nat /\ IsFiniteSet(T)
        BY <1>9, <2>1, FS_Subset
    <2>3. \A x \in Members(RunList(T)) : x.inode = 0 /\ ~ x.relocated /\ ~ x.not_in_img
        BY <2>2, RunListInOrder
    <2> QED BY <1>8, <1>10, <2>3 DEF T
<1>11. CopiesTold(runs', {})
    BY <1>10 DEF CopiesTold, CopyTold, Listings
<1>12. CopiesTold(runs, Copies)'
    BY <1>6, <1>11, CopiesToldNext
<1> QED BY <1>6, <1>7, <1>12 DEF RelocInv

\* A cluster is moved to where there was none.
LEMMA RelocateReloc ==
    ASSUME WholeWords, ClusterBitmaps, WholeClusters, ConvInv, RunsInv, ImageInv, RelocInv,
           GeometryInv', DataAligned', NoOverwrite', DataInSegments', DataInside',
           step = "protect", todo # <<>>, todo' = Tail(todo), step' = "protect",
           AllocatorCall("data", DataChunkSize, ClusterSize, FALSE), phase' # "failed",
           Relocate(Head(todo))
    PROVE  RelocInv'
<1> DEFINE k == Head(todo)
           n == Returned \div ClusterSize
           s == SegmentOf(k)
           cut == [runs EXCEPT ![s] = Cut(runs[s], k, 1, dummy_inode, 0)]
           copy == DataAlloc(n, 1, 0, 0, TRUE, FALSE)
           t == Returned \div DataChunkSize
           move == [old_start |-> k, new_start |-> n]
<1>1. Listed(runs, Segments, KnownClusters) /\ IInv /\ GrantedAbove /\ relocs \in Seq(Relocations)
      /\ todo \in Seq(Nat)
    BY DEF RunsInv, ConvInv
<1>2. ClusterSize \div ClusterSize = 1
    OBVIOUS
<1>3. n \in Nat /\ KnownClusters \cap Extent(n, 1) = {}
      /\ KnownClusters \cup Extent(n, 1) \subseteq KnownClusters'
    BY <1>1, <1>2, DataReturned
<1>4. SpaceTaken(Returned, n, 1, t)
    BY <1>1, <1>2, DataTaken
<1>5. t \in Segments /\ \A j \in Extent(n, 1) : SegmentOf(j) = t
    BY <1>4 DEF SpaceTaken
<1>6. n \in Extent(n, 1) /\ SegmentOf(n) = t
    BY <1>3, <1>5 DEF Extent
<1>7. runs' = [cut EXCEPT ![SegmentOf(n)] = Insert(cut[SegmentOf(n)], copy)]
      /\ relocs' = Append(relocs, move)
    BY DEF Relocate
<1>8. k \in Nat /\ Range(todo) = {k} \cup Range(Tail(todo))
    BY <1>1, RangeOfQueue, HeadAndTail
<1>9. k \notin Moved /\ Range(todo) \cap Moved = {} /\ Distinct(todo)
    BY <1>8 DEF RelocInv, QueueOnce
<1>10. dummy_inode \in Int /\ 0 \in Nat /\ 1 \in Nat \ {0}
    BY DEF dummy_inode
<1>11. copy \in Entries /\ copy.offset = n /\ copy.length = 1 /\ copy.relocated /\ ~ copy.not_in_img
    BY <1>3 DEF DataAlloc, Entries
<1>12. Distinct(Tail(todo)) /\ k \notin Range(Tail(todo))
    BY <1>1, <1>9, DistinctTail
<1> HIDE DEF n, t, copy, k
<1>13. move \in Relocations /\ move.old_start = k /\ move.new_start = n
    BY <1>3, <1>8 DEF Relocations
<1> HIDE DEF move
<1>14. Moved' = Moved \cup {k}
    BY <1>1, <1>7, <1>13, MovedOn
<1>15. Copies \subseteq KnownClusters /\ MovesApart /\ CopiesTold(runs, Copies)
    BY DEF RelocInv
<1>16. Copies' = Copies \cup {n} /\ MovesApart'
    BY <1>1, <1>3, <1>6, <1>7, <1>9, <1>13, <1>15, CopiesOn
<1>17. QueueOnce'
    BY <1>8, <1>9, <1>12, <1>14 DEF QueueOnce, Distinct
<1>18. Copies' \subseteq KnownClusters'
    BY <1>3, <1>6, <1>15, <1>16
<1>19. s \in Segments => ~ Torn(runs[s], k, 1)
    BY <1>1, <1>8, OneClusterWhole DEF Listed
<1>20. \A r \in Listings(runs) : r.relocated => r.length = 1
    BY DEF ImageInv, EntriesKept, EntriesTell, EntryTells, TellsOfMoves, Listings
<1> HIDE DEF s
<1>21. Listed(cut, Segments, KnownClusters)
    BY <1>1, <1>8, <1>10, <1>19, ListedCut
<1>22. CopiesTold(cut, Copies)
    <2>1. CopiesTold(CutIn(runs, s, k, 1, dummy_inode, 0), Copies)
        BY <1>1, <1>8, <1>10, <1>15, <1>19, <1>20, CopiesCut
    <2> QED BY <2>1 DEF CutIn
<1> HIDE DEF cut
<1>23. CopiesTold([cut EXCEPT ![t] = Insert(cut[t], copy)], Copies \cup {copy.offset})
    BY <1>3, <1>5, <1>11, <1>15, <1>21, <1>22, CopiesInsert
<1>24. CopiesTold(runs', Copies')
    BY <1>6, <1>7, <1>11, <1>16, <1>23
<1> QED BY <1>16, <1>17, <1>18, <1>24, CopiesToldNext DEF RelocInv

\* The relocations and what is left to protect stay.
LEMMA RelocStays ==
    ASSUME RelocInv, DataKept, UNCHANGED relocs,
           step' # "scan" => CopiesTold(runs', Copies),
           step' = "protect" => Distinct(todo') /\ Range(todo') \cap Moved = {}
    PROVE  RelocInv'
<1>1. KnownClusters \subseteq KnownClusters'
    BY KnownGrows DEF DataKept
<1>2. Copies' = Copies /\ Moved' = Moved /\ MovesApart'
    BY DEF Copies, Moved, MovesApart, RelocInv
<1>3. step' # "scan" => CopiesTold(runs, Copies)'
    BY <1>2, CopiesToldNext
<1>4. QueueOnce'
    BY <1>2 DEF QueueOnce, Distinct
<1> QED BY <1>1, <1>2, <1>3, <1>4 DEF RelocInv

LEMMA ProtectClusterReloc ==
    ASSUME WholeWords, ClusterBitmaps, WholeClusters, ConvInv, RunsInv, ImageInv, RelocInv, DataKept,
           GeometryInv', DataAligned', NoOverwrite', DataInSegments', DataInside',
           ProtectCluster
    PROVE  RelocInv'
<1>1. /\ step = "protect" /\ phase = "protect" /\ todo # <<>> /\ step' = "protect"
      /\ todo' = Tail(todo)
    BY DEF ProtectCluster, ConvInv, StepPhase
<1>2. todo \in Seq(Nat) /\ Distinct(todo) /\ Range(todo) \cap Moved = {}
    BY <1>1 DEF RunsInv, RelocInv, QueueOnce
<1>3. Distinct(todo') /\ Range(todo') \subseteq Range(todo)
    BY <1>1, <1>2, DistinctTail, RangeOfQueue
<1>4. CASE Stays
    <2>1. UNCHANGED <<relocs, runs>>
        BY <1>4 DEF Stays, memory
    <2> QED BY <1>1, <1>2, <1>3, <2>1, RelocStays DEF RelocInv
<1>5. CASE AllocateData(ClusterSize, FALSE) /\ phase' # "failed" /\ Relocate(Head(todo))
    <2>1. AllocatorCall("data", DataChunkSize, ClusterSize, FALSE)
        BY <1>1, <1>5, DataCalls
    <2> QED BY <1>1, <1>5, <2>1, RelocateReloc
<1> QED BY <1>4, <1>5 DEF ProtectCluster

LEMMA SplitRunsReloc ==
    ASSUME ConvInv, RunsInv, ImageInv, RelocInv, DataKept, SplitRuns
    PROVE  RelocInv'
<1>1. /\ step = "files" /\ todo # <<>> /\ step' = "files" /\ UNCHANGED relocs
    BY DEF SplitRuns
<1>2. Head(todo) \in ConvertedFiles
    BY <1>1, HeadAndTail DEF ConvInv, Queues
<1>3. PICK p \in FilePieces :
         LET list == runs[SegmentOf(p.lcn)] IN
              IF Torn(list, p.lcn, p.length)
              THEN phase' = "failed" /\ UNCHANGED runs
              ELSE /\ runs' = [runs EXCEPT ![SegmentOf(p.lcn)] =
                                  Cut(list, p.lcn, p.length, Head(todo).inode, p.vcn)]
                   /\ UNCHANGED phase
    BY DEF SplitRuns
<1> DEFINE f == Head(todo)
           t == SegmentOf(p.lcn)
<1>4. f.inode \in Int /\ f.mappings \in SUBSET [vcn : Nat, lcn : Nat, length : Nat \ {0}]
    BY <1>2 DEF ConvertedFiles, Files
<1>5. p.vcn \in Nat /\ p.lcn \in Nat /\ p.length \in Nat \ {0}
    <2>1. PICK m \in f.mappings : p \in Pieces(m)
        BY DEF FilePieces
    <2> HIDE DEF f
    <2>2. m \in [vcn : Nat, lcn : Nat, length : Nat \ {0}]
        BY <1>4
    <2> QED BY <2>1, <2>2, PieceType DEF RunsInv
<1>6. \/ UNCHANGED runs
      \/ /\ ~ Torn(runs[t], p.lcn, p.length)
         /\ runs' = [runs EXCEPT ![t] = Cut(runs[t], p.lcn, p.length, f.inode, p.vcn)]
    BY <1>3
<1>7. Listed(runs, Segments, KnownClusters) /\ CopiesTold(runs, Copies)
    BY <1>1 DEF RunsInv, RelocInv
<1>8. \A r \in Listings(runs) : r.relocated => r.length = 1
    BY <1>1 DEF ImageInv, EntriesKept, EntriesTell, EntryTells, TellsOfMoves, Listings
<1> HIDE DEF f, t
<1>9. CopiesTold(runs', Copies)
    <2>1. CASE UNCHANGED runs
        BY <1>7, <2>1
    <2>2. CASE /\ ~ Torn(runs[t], p.lcn, p.length)
               /\ runs' = [runs EXCEPT ![t] = Cut(runs[t], p.lcn, p.length, f.inode, p.vcn)]
        <3>1. t \in Segments => ~ Torn(runs[t], p.lcn, p.length)
            BY <2>2
        <3>2. CopiesTold(CutIn(runs, t, p.lcn, p.length, f.inode, p.vcn), Copies)
            BY <1>4, <1>5, <1>7, <1>8, <3>1, CopiesCut
        <3> QED BY <2>2, <3>2 DEF CutIn
    <2> QED BY <1>6, <2>1, <2>2
<1> QED BY <1>1, <1>9, RelocStays

LEMMA WriteDataReloc ==
    ASSUME WholeWords, ClusterBitmaps, WholeClusters, ConvInv, RunsInv, RelocInv, DataKept,
           GeometryInv', DataAligned', NoOverwrite', DataInSegments', DataInside', WriteData
    PROVE  RelocInv'
<1> DEFINE f == Head(todo)
<1>1. /\ step = "files" /\ step' = "files" /\ todo # <<>> /\ phase = "rewrite" /\ f.mappings = {}
      /\ UNCHANGED relocs
    BY DEF WriteData, ConvInv, StepPhase, Stays, memory
<1>2. f \in ConvertedFiles
    BY <1>1, HeadAndTail DEF ConvInv, Queues
<1>3. /\ AllocateData(f.length, TRUE)
      /\ IF phase' = "failed"
         THEN UNCHANGED runs
         ELSE LET addr == Returned IN
                 runs' = [runs EXCEPT ![addr \div DataChunkSize] =
                                Insert(@, DataAlloc(addr \div ClusterSize,
                                                    f.length \div ClusterSize, f.inode,
                                                    f.pos \div ClusterSize, FALSE, TRUE))]
    BY DEF WriteData, Stays, memory
<1> HIDE DEF f
<1>5. f.length \in DataLengths /\ f.inode \in Nat \ {0} /\ f.pos \in Nat
    BY <1>1, <1>2 DEF ConvertedFiles, Files
<1>6. AllocatorCall("data", DataChunkSize, f.length, TRUE)
    BY <1>1, <1>3, <1>5, DataCalls
<1>7. Listed(runs, Segments, KnownClusters) /\ CopiesTold(runs, Copies) /\ Copies \subseteq KnownClusters
    BY <1>1 DEF RunsInv, RelocInv
<1>8. CASE phase' = "failed"
    BY <1>1, <1>3, <1>7, <1>8, RelocStays
<1>9. CASE phase' # "failed"
    <2> DEFINE n == Returned \div ClusterSize
               c == f.length \div ClusterSize
               t == Returned \div DataChunkSize
               pos == f.pos \div ClusterSize
               r == DataAlloc(n, c, f.inode, pos, FALSE, TRUE)
    <2>1. n \in Nat /\ c \in Nat \ {0} /\ KnownClusters \cap Extent(n, c) = {}
        BY <1>6, <1>9, DataReturned DEF ConvInv
    <2>2. SpaceTaken(Returned, n, c, t)
        BY <1>6, <1>9, DataTaken DEF ConvInv
    <2>3. t \in Segments
        BY <2>2 DEF SpaceTaken
    <2>4. pos \in Nat
        BY <1>5
    <2>5. runs' = [runs EXCEPT ![t] = Insert(runs[t], r)]
        BY <1>3, <1>9
    <2> HIDE DEF n, c, t, pos
    <2>6. /\ r \in Entries /\ r.offset = n /\ r.length = c /\ ~ r.relocated
          /\ r.inode \notin {0, dummy_inode}
        BY <1>5, <2>1, <2>4 DEF Entries, DataAlloc, dummy_inode
    <2> HIDE DEF r
    <2>7. CopiesTold(runs', Copies)
        BY <1>7, <2>1, <2>3, <2>5, <2>6, CopiesInsert
    <2> QED BY <1>1, <2>7, RelocStays
<1> QED BY <1>8, <1>9

LEMMA RelocStep ==
    ASSUME LastSegmentUsed, SupersOnStripes, MirrorsBehind, WholeStripes, WholeWords,
           ClusterBitmaps, WholeClusters, WholeSectors, WholeBitmap, ConvInv, EndInv, RunsInv,
           ImageInv, RelocInv, DataKept, GeometryInv', DataAligned', NoOverwrite', DataInSegments',
           DataInside', [ConvNext]_<<vars, cvars>>
    PROVE  RelocInv'
<1>1. CASE ParseDataBitmap
    BY <1>1, ParseReloc
<1>2. CASE ProtectCluster
    BY <1>2, ProtectClusterReloc
<1>3. CASE SplitRuns
    BY <1>3, SplitRunsReloc
<1>4. CASE WriteData
    BY <1>4, WriteDataReloc
<1>5. CASE \/ Scan \/ CalcUsedSpace \/ MapFile \/ CreateImage \/ CreateDataExtentItems
           \/ JoinRun \/ CalcChecksums \/ LayOutBlock \/ LayoutDone \/ WriteTrees
           \/ TreesWritten \/ WriteSuperblock \/ ClearFirstCluster
    <2>1. /\ UNCHANGED <<relocs, runs>> /\ step' # "protect"
          /\ step' # "scan" => step # "scan"
        BY <1>5 DEF Scan, CalcUsedSpace, MapFile, CreateImage,
            CreateDataExtentItems, JoinRun, CalcChecksums, LayOutBlock, LayoutDone, WriteTrees,
            TreesWritten, WriteSuperblock, ClearFirstCluster, cvars, memory
    <2> QED BY <2>1, RelocStays DEF RelocInv
<1>6. CASE UNCHANGED <<vars, cvars>>
    <2>1. UNCHANGED <<relocs, runs, step, todo>>
        BY <1>6 DEF vars, cvars, memory
    <2> QED BY <2>1, RelocStays DEF RelocInv, QueueOnce
<1> QED BY <1>1, <1>2, <1>3, <1>4, <1>5, <1>6 DEF ConvNext

-----------------------------------------------------------------------------
(* The entries of files. *)

OfFile(r) == r.inode \notin {0, dummy_inode}
FileExtent(r) ==
    Extents(r.inode, r.file_offset * ClusterSize, r.offset * ClusterSize, r.length * ClusterSize)
OfFiles(R) == {FileExtent(r) : r \in {x \in Listings(R) : OfFile(x)}}

LEMMA OfFilesOf ==
    ASSUME NEW R, NEW e
    PROVE  e \in OfFiles(R) <=> \E r \in Listings(R) : OfFile(r) /\ e = FileExtent(r)
BY DEF OfFiles

\* Clusters of nobody that are cut out of an entry of nobody.
LEMMA OfFilesAway ==
    ASSUME NEW R, NEW Known, Listed(R, Segments, Known), NEW t, OfFiles(R) = {},
           NEW offset \in Nat, NEW length \in Nat \ {0}, NEW inode \in {0, dummy_inode},
           NEW file_offset \in Nat, t \in Segments => ~ Torn(R[t], offset, length)
    PROVE  OfFiles(CutIn(R, t, offset, length, inode, file_offset)) = {}
<1> DEFINE Q == CutIn(R, t, offset, length, inode, file_offset)
<1>1. R \in [Segments -> Seq(Entries)] /\ inode \in Int
    BY DEF Listed, dummy_inode
<1>2. \A x \in Listings(R) : ~ OfFile(x)
    BY OfFilesOf
<1>3. CASE t \notin Segments
    <2>1. Q = R
        BY <1>1, <1>3 DEF CutIn
    <2> QED BY <2>1
<1>4. CASE t \in Segments /\ Met(R[t], offset, length) = {}
    <2>1. Q = R
        BY <1>1, <1>4 DEF CutIn, Cut
    <2> QED BY <2>1
<1>5. CASE t \in Segments /\ Met(R[t], offset, length) # {}
    <2>1. PICK r \in Members(R[t]) :
             LET p == Piece(r, offset, length, inode, file_offset)
             IN  /\ r.offset <= offset /\ offset + length <= r.offset + r.length
                 /\ p \in Listings(Q) /\ PartCut(p, r, offset, length, inode)
                 /\ \A x \in Listings(Q) :
                       \/ x \in Listings(R)
                       \/ PartBefore(x, r, offset)
                       \/ x = p
                       \/ PartAfter(x, r, offset + length)
                 /\ \A x \in Listings(R) : x = r \/ x \in Listings(Q)
        BY <1>1, <1>5, ListingsCut
    <2>2. r \in Listings(R)
        BY <1>5 DEF Listings
    <2> DEFINE p == Piece(r, offset, length, inode, file_offset)
    <2>3. PartCut(p, r, offset, length, inode)
        BY <2>1
    <2>4. \A x \in Listings(Q) : \/ x \in Listings(R) \/ PartBefore(x, r, offset) \/ x = p
                                 \/ PartAfter(x, r, offset + length)
        BY <2>1
    <2> HIDE DEF Q, p
    <2>5. ASSUME NEW x \in Listings(Q) PROVE ~ OfFile(x)
        <3>1. ~ OfFile(r)
            BY <1>2, <2>2
        <3>2. PartBefore(x, r, offset) => ~ OfFile(x)
            BY DEF PartBefore, OfFile
        <3>3. PartAfter(x, r, offset + length) => ~ OfFile(x)
            BY <3>1 DEF PartAfter, OfFile
        <3>4. ~ OfFile(p)
            BY <2>3 DEF PartCut, OfFile
        <3> QED BY <1>2, <2>4, <3>2, <3>3, <3>4
    <2>6. \A e : e \notin OfFiles(Q)
        BY <2>5, OfFilesOf
    <2> QED BY <2>6 DEF Q
<1> QED BY <1>3, <1>4, <1>5

\* Clusters of a file that are cut out of an entry of nobody.
LEMMA OfFilesCut ==
    ASSUME NEW R, NEW Known, Listed(R, Segments, Known), NEW t \in Segments,
           NEW offset \in Nat, NEW length \in Nat \ {0}, NEW inode \in Nat \ {0},
           NEW file_offset \in Nat, ~ Torn(R[t], offset, length), Met(R[t], offset, length) # {},
           \A r \in Members(R[t]) : offset \in Extent(r.offset, r.length) => r.inode = 0
    PROVE  OfFiles(CutIn(R, t, offset, length, inode, file_offset))
             = OfFiles(R) \cup {Extents(inode, file_offset * ClusterSize, offset * ClusterSize,
                                        length * ClusterSize)}
<1> DEFINE Q == CutIn(R, t, offset, length, inode, file_offset)
<1>1. PICK r \in Members(R[t]) :
         LET p == Piece(r, offset, length, inode, file_offset)
         IN  /\ r.offset <= offset /\ offset + length <= r.offset + r.length
             /\ p \in Listings(Q) /\ PartCut(p, r, offset, length, inode)
             /\ \A x \in Listings(Q) :
                   \/ x \in Listings(R)
                   \/ PartBefore(x, r, offset)
                   \/ x = p
                   \/ PartAfter(x, r, offset + length)
             /\ \A x \in Listings(R) : x = r \/ x \in Listings(Q)
    BY ListingsCut
<1>2. r \in Listings(R)
    BY DEF Listings
<1>3. r \in Entries
    BY <1>2, ListingsKnown
<1>4. r.offset \in Nat /\ r.length \in Nat /\ r.offset <= offset /\ offset + length <= r.offset + r.length
    BY <1>1, <1>3, EntryFields
<1>5. r.inode = 0
    BY <1>4 DEF Extent
<1> DEFINE p == Piece(r, offset, length, inode, file_offset)
           new == Extents(inode, file_offset * ClusterSize, offset * ClusterSize,
                          length * ClusterSize)
<1>6. p \in Listings(Q) /\ \A x \in Listings(R) : x = r \/ x \in Listings(Q)
    BY <1>1
<1>7. \A x \in Listings(Q) : \/ x \in Listings(R) \/ PartBefore(x, r, offset) \/ x = p
                             \/ PartAfter(x, r, offset + length)
    BY <1>1
<1>8. FileExtent(p) = new /\ OfFile(p)
    BY DEF FileExtent, OfFile, Piece, DataAlloc, dummy_inode
<1> HIDE DEF Q, p, new
<1>9. ~ OfFile(r)
    BY <1>5 DEF OfFile
<1>10. ASSUME NEW x \in Listings(Q), OfFile(x) PROVE x \in Listings(R) \/ x = p
    <2>1. ~ PartBefore(x, r, offset)
        BY <1>10 DEF PartBefore, OfFile
    <2>2. ~ PartAfter(x, r, offset + length)
        BY <1>5, <1>10 DEF PartAfter, OfFile
    <2> QED BY <1>7, <1>10, <2>1, <2>2
<1>11. ASSUME NEW e PROVE e \in OfFiles(Q) <=> e \in OfFiles(R) \/ e = new
    BY <1>6, <1>8, <1>9, <1>10, OfFilesOf
<1> QED BY <1>11 DEF Q, new

LEMMA OfFilesInsert ==
    ASSUME NEW R, NEW Known, Listed(R, Segments, Known), NEW t \in Segments, NEW r \in Entries,
           Known \cap Extent(r.offset, r.length) = {}
    PROVE  OfFiles([R EXCEPT ![t] = Insert(R[t], r)])
             = OfFiles(R) \cup IF OfFile(r) THEN {FileExtent(r)} ELSE {}
<1> DEFINE Q == [R EXCEPT ![t] = Insert(R[t], r)]
<1>1. Listings(Q) = Listings(R) \cup {r}
    BY ListingsInsert
<1> HIDE DEF Q
<1>2. ASSUME NEW e PROVE e \in OfFiles(Q) <=> e \in OfFiles(R) \/ (OfFile(r) /\ e = FileExtent(r))
    BY <1>1, OfFilesOf
<1> QED BY <1>2 DEF Q

-----------------------------------------------------------------------------
(* The pieces of files have entries of their own. *)

\* No cluster belongs to two files, or to one in two places.
FilesOwned ==
    \A i, j \in DOMAIN files : \A m \in Laid(files[i]), o \in Laid(files[j]) :
        Extent(m.lcn, m.length) \cap Extent(o.lcn, o.length) # {} => i = j /\ m = o

\* Data that is rewritten starts with a cluster of the file.
FilesAligned == \A i \in DOMAIN files : files[i].pos % ClusterSize = 0

\* Two pieces of a mapping with a cluster in common are one.
LEMMA OnePiece ==
    ASSUME NEW m \in Mappings, NEW j \in Nat, NEW i \in Nat \ {0}, MakesPiece(m, j, i),
           NEW k \in Nat, NEW n \in Nat \ {0}, MakesPiece(m, k, n), j <= k, k < j + i
    PROVE  j = k /\ i = n
<1>1. j = k
    <2>1. CASE j < k
        <3>1. j + i <= k
            BY <2>1, PiecesApart
        <3> QED BY <3>1
    <2> QED BY <2>1
<1>2. ASSUME NEW a \in Nat \ {0}, NEW b \in Nat \ {0}, MakesPiece(m, k, a), MakesPiece(m, k, b)
      PROVE  ~ (a < b)
    <2>1. m.lcn \in Nat /\ m.length \in Nat
        BY DEF Mappings
    <2>2. SUFFICES ASSUME a < b PROVE FALSE
        OBVIOUS
    <2>3. k + a < k + b /\ k < k + a /\ k + a \in Nat
        BY <2>2
    <2>4. k + b <= m.lcn + m.length
        BY <1>2 DEF MakesPiece
    <2>5. k + a # m.lcn + m.length
        BY <2>1, <2>3, <2>4
    <2>6. Broken(k + a)
        BY <1>2, <2>5 DEF MakesPiece
    <2>7. ~ Broken(k + a)
        BY <1>2, <2>3 DEF MakesPiece
    <2> QED BY <2>6, <2>7
<1>3. ~ (i < n) /\ ~ (n < i)
    BY <1>1, <1>2
<1> QED BY <1>1, <1>3

LEMMA LaidInUse ==
    ASSUME WholeBitmap, WholeSectors, ClusterBitmaps, BitsInBitmap, TypeOK, FilesMarked,
           NEW i \in DOMAIN files, NEW m \in Laid(files[i]), NEW c \in Nat, c \in Extent(m.lcn, m.length)
    PROVE  c \in ClustersInUse
<1>1. c * ClusterSize \in in_use /\ c * ClusterSize < DeviceSize
    BY DEF FilesMarked
<1>2. PICK d \in ClustersInUse : d \in Nat /\ c * ClusterSize = d * ClusterSize
    BY <1>1, InUseCluster
<1>3. c * ClusterSize \in Extent(c * ClusterSize, ClusterSize)
    BY DEF Extent
<1>4. c = d
    BY <1>2, <1>3, OneCluster
<1> QED BY <1>2, <1>4

\* The place that a cluster in use is sent to is in an entry, and is not moved.
LEMMA SentListed ==
    ASSUME WholeBitmap, WholeSectors, RunsInv, ImageInv, ListsInv, SentKept, step # "scan",
           NEW k \in ClustersInUse
    PROVE  LET n == Redirected(k)
           IN  /\ n \in Nat /\ n \notin Moved
               /\ SegmentOf(n) \in Segments /\ n \in Covered(runs[SegmentOf(n)])
<1>1. PICK n \in Nat : n = Redirected(k)
    BY InUseClusters, RedirectedType DEF RunsInv
<1>2. k \in Nat
    BY InUseClusters
<1>3. n \notin Moved
    BY <1>1, <1>2 DEF ImageInv, MovesFresh
<1>4. CASE k \notin Moved
    <2>1. n = k
        BY <1>1, <1>2, <1>4 DEF SentKept
    <2> QED BY <1>1, <1>3, <2>1 DEF ImageInv, EntriesKept, AllCovered
<1>5. CASE k \in Moved
    <2>1. Extent(n * ClusterSize, ClusterSize) \subseteq DataGranted
        BY <1>1, <1>5 DEF SentKept, Holds
    <2>2. n * ClusterSize \in Extent(n * ClusterSize, ClusterSize)
        BY DEF Extent
    <2>3. SegmentOf(n) \in Segments /\ n \in Covered(runs[SegmentOf(n)])
        BY <2>1, <2>2 DEF ListsInv, Accounted, GrantedListed
    <2> QED BY <1>1, <1>3, <2>3
<1> QED BY <1>4, <1>5

\* An extent of a file in which the place of a piece is is that of the piece.
LEMMA ExtentAtPlace ==
    ASSUME WholeWords, ClusterBitmaps, WholeClusters, WholeBitmap, WholeSectors, BitsInBitmap,
           SuperblockReserved, ConvInv, RunsInv, ImageInv, SentKept, step = "files" \/ ImageDone,
           FilesMarked, FilesOwned,
           NEW i \in DOMAIN files, NEW m \in Laid(files[i]), NEW k \in Nat, NEW n \in Nat \ {0},
           MakesPiece(m, k, n), NEW j \in DOMAIN files, NEW e, IsExtentOf(e, files[j]),
           Redirected(k) * ClusterSize \in Extent(e.addr, e.length)
    PROVE  i = j /\ e = PieceExtent(files[i], PieceAt(m, k, n))
<1>1. files[i] \in Files /\ files[j] \in Files
    BY DEF ConvInv, Queues, ConvertedFiles
<1>2. m \in Mappings /\ m.lcn \in Nat /\ m.length \in Nat
    BY <1>1 DEF Laid, Files, Mappings
<1>3. k \in Extent(m.lcn, m.length)
    BY <1>2 DEF MakesPiece, Extent
<1>4. TypeOK
    BY DEF ConvInv, IInv
<1>5. k \in ClustersInUse
    BY <1>3, <1>4, LaidInUse
<1>6. PICK r \in Nat : r = Redirected(k)
    BY RedirectedType DEF RunsInv
<1>7. Carries(r, k)
    BY <1>5, <1>6, SentCarries
<1>8. disk[r * ClusterSize] = Ntfs(k * ClusterSize)
    <2>1. 0 \in 0 .. ClusterSize - 1 /\ r * ClusterSize + 0 = r * ClusterSize
          /\ k * ClusterSize + 0 = k * ClusterSize
        OBVIOUS
    <2> QED BY <1>7, <2>1 DEF Carries
<1>9. ~ DataWritten(e, files[j])
    <2>1. SUFFICES ASSUME DataWritten(e, files[j]) PROVE FALSE
        OBVIOUS
    <2>2. e.length = files[j].length /\ e.addr \in Nat /\ files[j].length \in Nat
        BY <1>1, <2>1 DEF DataWritten, Extents, Files
    <2>3. PICK d \in 0 .. files[j].length - 1 : r * ClusterSize = e.addr + d
        <3>1. e.addr <= r * ClusterSize /\ r * ClusterSize < e.addr + e.length
            BY <1>6, <2>2 DEF Extent
        <3>2. r * ClusterSize - e.addr \in 0 .. files[j].length - 1
            BY <2>2, <3>1
        <3> QED BY <2>2, <3>2
    <2>4. disk[r * ClusterSize] = Data(files[j].inode, files[j].pos + d)
        BY <2>1, <2>3 DEF DataWritten
    <2>5. \A u, v, w : Ntfs(u) # Data(v, w)
        BY DEF Ntfs, Data
    <2> QED BY <1>8, <2>4, <2>5
<1>10. PICK o \in files[j].mappings : \E p \in Pieces(o) : e = PieceExtent(files[j], p)
    BY <1>9 DEF IsExtentOf
<1>11. PICK p \in Pieces(o) : e = PieceExtent(files[j], p)
    BY <1>10
<1>12. o \in Mappings /\ o.lcn \in Nat /\ o.length \in Nat
    BY <1>1 DEF Files, Mappings
<1>13. PICK a \in Nat, b \in Nat \ {0} : MakesPiece(o, a, b) /\ p = PieceAt(o, a, b)
    BY <1>11, <1>12, PiecesMade
<1>14. PICK s \in Nat : s = Redirected(a)
    BY RedirectedType DEF RunsInv
<1>15. e.addr = s * ClusterSize /\ e.length = b * ClusterSize
    BY <1>11, <1>13, <1>14 DEF PieceExtent, PieceAt, Extents
<1>16. r \in Extent(s, b)
    <2>1. r * ClusterSize \in Extent(r * ClusterSize, ClusterSize)
        BY DEF Extent
    <2>2. r * ClusterSize \in Extent(s * ClusterSize, b * ClusterSize)
        BY <1>6, <1>15
    <2> QED BY <2>1, <2>2, ClusterInExtent
<1>17. s <= r /\ r < s + b
    BY <1>16 DEF Extent
<1> DEFINE c == a + (r - s)
<1>18. c \in Nat /\ a <= c /\ c < a + b /\ r = s + (c - a)
    BY <1>17
<1> HIDE DEF c
<1>19. Redirected(c) = r
    BY <1>12, <1>13, <1>14, <1>18, PieceSends
<1>20. o \in Laid(files[j]) /\ c \in Extent(o.lcn, o.length)
    <2>1. o.lcn # 0 /\ o.lcn <= a /\ a + b <= o.lcn + o.length
        BY <1>13 DEF MakesPiece
    <2> QED BY <1>12, <1>18, <2>1 DEF Extent, Laid
<1>21. c \in ClustersInUse
    BY <1>4, <1>18, <1>20, LaidInUse
<1>22. disk[r * ClusterSize] = Ntfs(c * ClusterSize)
    <2>1. 0 \in 0 .. ClusterSize - 1 /\ r * ClusterSize + 0 = r * ClusterSize
          /\ c * ClusterSize + 0 = c * ClusterSize
        BY <1>18
    <2>2. Carries(r, c)
        BY <1>19, <1>21, SentCarries
    <2> QED BY <2>1, <2>2 DEF Carries
<1>23. c = k
    <2>1. c * ClusterSize = k * ClusterSize
        BY <1>8, <1>22 DEF Ntfs
    <2>2. k * ClusterSize \in Extent(k * ClusterSize, ClusterSize)
        BY DEF Extent
    <2> QED BY <1>18, <2>1, <2>2, OneCluster
<1>24. i = j /\ m = o
    BY <1>3, <1>20, <1>23 DEF FilesOwned
<1>25. a = k /\ b = n
    BY <1>2, <1>13, <1>18, <1>23, <1>24, OnePiece
<1> QED BY <1>11, <1>13, <1>24, <1>25

FiledExtents == {PieceExtent(Head(todo), p) : p \in filed}

\* The entries of files are those of their extents, as far as they are converted.
FiledInv ==
    /\ step \in {"scan", "protect"} \/ ImageDone => filed = {}
    /\ step = "files" => filed \subseteq IF todo = <<>> THEN {} ELSE FilePieces
    /\ step = "protect" \/ Opened => OfFiles(runs) = fs_extents \cup FiledExtents

LEMMA HeadFile ==
    ASSUME files \in Seq(ConvertedFiles), todo \in Seq(ConvertedFiles), todo # <<>>, QueueLeft,
           step = "files"
    PROVE  /\ Processed \in Nat /\ Processed + 1 \in DOMAIN files
           /\ Head(todo) = files[Processed + 1]
<1>1. Processed = Len(files) - Len(todo) /\ Len(todo) <= Len(files)
    BY DEF Processed, QueueLeft
<1>2. Len(files) \in Nat /\ Len(todo) \in Nat \ {0} /\ DOMAIN todo = 1 .. Len(todo)
      /\ DOMAIN files = 1 .. Len(files) /\ Head(todo) = todo[1]
    OBVIOUS
<1>3. 1 \in DOMAIN todo
    BY <1>2
<1>4. todo[1] = files[(Len(files) - Len(todo)) + 1]
    BY <1>3 DEF QueueLeft
<1> QED BY <1>1, <1>2, <1>4

\* The entry that a piece is cut out of is that of nobody.
LEMMA PieceOfNobody ==
    ASSUME WholeWords, ClusterBitmaps, WholeClusters, WholeBitmap, WholeSectors, BitsInBitmap,
           SuperblockReserved, ConvInv, RunsInv, ImageInv, SentKept, ListsInv, FilesInv, FiledInv,
           FilesMarked, FilesOwned, step = "files", phase # "failed", todo # <<>>,
           NEW p \in FilePieces \ filed
    PROVE  LET t == SegmentOf(p.lcn)
           IN  /\ t \in Segments /\ p.lcn \in Nat /\ p.length \in Nat \ {0} /\ p.vcn \in Nat
               /\ Met(runs[t], p.lcn, p.length) # {}
               /\ \A r \in Members(runs[t]) : p.lcn \in Extent(r.offset, r.length) => r.inode = 0
<1>1. /\ Processed \in Nat /\ Processed + 1 \in DOMAIN files /\ Head(todo) = files[Processed + 1]
    BY HeadFile DEF ConvInv, Queues, FilesInv
<1>2. PICK i \in DOMAIN files : i = Processed + 1
    BY <1>1
<1>3. files[i] \in Files /\ Head(todo) = files[i]
    BY <1>1, <1>2 DEF ConvInv, Queues, ConvertedFiles
<1>4. PICK m \in files[i].mappings : p \in Pieces(m)
    BY <1>3 DEF FilePieces
<1>5. m \in Mappings /\ m.lcn \in Nat /\ m.length \in Nat
    BY <1>3, <1>4 DEF Files, Mappings
<1>6. PICK k \in Nat, n \in Nat \ {0} : MakesPiece(m, k, n) /\ p = PieceAt(m, k, n)
    BY <1>4, <1>5, PiecesMade
<1>7. m \in Laid(files[i])
    BY <1>4, <1>6 DEF MakesPiece, Laid
<1>8. k \in ClustersInUse
    <2>1. k \in Extent(m.lcn, m.length)
        BY <1>5, <1>6 DEF MakesPiece, Extent
    <2> QED BY <1>7, <2>1, LaidInUse DEF ConvInv, IInv
<1>9. p.lcn = Redirected(k) /\ p.length = n
    BY <1>6 DEF PieceAt
<1>10. /\ p.lcn \in Nat /\ p.lcn \notin Moved
       /\ SegmentOf(p.lcn) \in Segments /\ p.lcn \in Covered(runs[SegmentOf(p.lcn)])
    BY <1>8, <1>9, SentListed
<1>11. p.vcn \in Nat /\ p.length \in Nat \ {0}
    BY <1>4, <1>5, PieceType DEF RunsInv, Mappings
<1> DEFINE t == SegmentOf(p.lcn)
<1> HIDE DEF t
<1>12. t \in Segments /\ p.lcn \in Covered(runs[t])
    BY <1>10 DEF t
<1>13. runs[t] \in Seq(Entries) /\ InOrder(runs[t])
    BY <1>12 DEF RunsInv, Listed
<1>14. Met(runs[t], p.lcn, p.length) # {}
    BY <1>10, <1>11, <1>12, <1>13, MetFrom
<1>15. ASSUME NEW r \in Members(runs[t]), p.lcn \in Extent(r.offset, r.length) PROVE r.inode = 0
    <2>1. r \in Listings(runs)
        BY <1>12 DEF Listings
    <2>2. r \in Entries
        BY <1>13, MemberEntries
    <2>3. r.offset \in Nat /\ r.length \in Nat /\ r.inode \in Int
        BY <2>2 DEF Entries
    <2>4. r.inode # dummy_inode
        <3>1. SUFFICES ASSUME r.inode = dummy_inode PROVE FALSE
            OBVIOUS
        <3>2. r.length = 1 /\ r.offset \in Moved
            BY <1>12, <3>1 DEF ImageInv, EntriesKept, EntriesTell, EntryTells, TellsOfMoves
        <3>3. p.lcn = r.offset
            BY <1>10, <1>15, <2>3, <3>2 DEF Extent
        <3> QED BY <1>10, <3>2, <3>3
    <2>5. ~ OfFile(r)
        <3>1. SUFFICES ASSUME OfFile(r) PROVE FALSE
            OBVIOUS
        <3>2. FileExtent(r) \in fs_extents \cup FiledExtents
            BY <2>1, <3>1, OfFilesOf DEF FiledInv, Opened
        <3>3. PICK e : e = FileExtent(r)
            OBVIOUS
        <3>4. Redirected(k) * ClusterSize \in Extent(e.addr, e.length)
            <4>1. e.addr = r.offset * ClusterSize /\ e.length = r.length * ClusterSize
                BY <3>3 DEF FileExtent, Extents
            <4>2. p.lcn * ClusterSize \in Extent(p.lcn * ClusterSize, ClusterSize)
                BY <1>10 DEF Extent
            <4>3. Extent(p.lcn * ClusterSize, ClusterSize)
                    \subseteq Extent(r.offset * ClusterSize, r.length * ClusterSize)
                BY <1>10, <1>15, <2>3, ClusterInExtent
            <4> QED BY <1>9, <4>1, <4>2, <4>3
        <3>5. CASE e \in fs_extents
            <4>1. PICK j \in 1 .. Processed : IsExtentOf(e, files[j])
                BY <3>5 DEF FilesInv, Opened, ExtentsMade
            <4>2. j \in DOMAIN files /\ j # i
                <5>1. DOMAIN files = 1 .. Len(files) /\ Len(files) \in Nat
                    BY DEF ConvInv, Queues
                <5> QED BY <1>1, <1>2, <5>1
            <4>3. i = j
                BY <1>6, <1>7, <3>4, <4>1, <4>2, ExtentAtPlace
            <4> QED BY <4>2, <4>3
        <3>6. CASE e \in FiledExtents
            <4>1. PICK q \in filed : e = PieceExtent(files[i], q)
                BY <1>3, <3>6 DEF FiledExtents
            <4>2. PICK o \in files[i].mappings : q \in Pieces(o)
                BY <1>3, <4>1 DEF FiledInv, FilePieces
            <4>3. IsExtentOf(e, files[i])
                BY <4>1, <4>2 DEF IsExtentOf
            <4>4. e = PieceExtent(files[i], p)
                BY <1>6, <1>7, <3>4, <4>3, ExtentAtPlace
            <4>5. o \in Mappings
                BY <1>3, <4>2 DEF Files, Mappings
            <4>6. q.vcn \in Nat /\ q.lcn \in Nat /\ q.length \in Nat
                BY <4>2, <4>5, PieceType DEF RunsInv, Mappings
            <4>7. \E a \in Nat, b \in Nat \ {0} : q = PieceAt(o, a, b)
                BY <4>2, <4>5, PiecesMade
            <4>8. q = [vcn |-> q.vcn, lcn |-> q.lcn, length |-> q.length]
                BY <4>7 DEF PieceAt
            <4>9. p = [vcn |-> p.vcn, lcn |-> p.lcn, length |-> p.length]
                BY <1>6 DEF PieceAt
            <4>10. /\ q.vcn * ClusterSize = p.vcn * ClusterSize
                   /\ q.lcn * ClusterSize = p.lcn * ClusterSize
                   /\ q.length * ClusterSize = p.length * ClusterSize
                BY <4>1, <4>4 DEF PieceExtent, Extents
            <4>11. ASSUME NEW a \in Nat, NEW b \in Nat, a * ClusterSize = b * ClusterSize
                   PROVE  a = b
                <5>1. a * ClusterSize \in Extent(a * ClusterSize, ClusterSize)
                    BY DEF Extent
                <5> QED BY <4>11, <5>1, OneCluster
            <4>12. q.vcn = p.vcn /\ q.lcn = p.lcn /\ q.length = p.length
                BY <1>10, <1>11, <4>6, <4>10, <4>11
            <4> QED BY <4>1, <4>8, <4>9, <4>12
        <3> QED BY <3>2, <3>3, <3>5, <3>6
    <2> QED BY <2>4, <2>5 DEF OfFile
<1> QED BY <1>10, <1>11, <1>12, <1>14, <1>15 DEF t

LEMMA OfFilesNext == OfFiles(runs)' = OfFiles(runs')
BY DEF OfFiles, Listings, FileExtent, OfFile, Extents, Segments

\* Between the files nothing is filed.
LEMMA FiledQuiet ==
    ASSUME filed' = {},
           step' = "protect" \/ Opened' => OfFiles(runs') = fs_extents'
    PROVE  FiledInv'
<1>1. FiledExtents' = {}
    BY DEF FiledExtents
<1> QED BY <1>1, OfFilesNext DEF FiledInv

LEMMA ParseFiled ==
    ASSUME WholeBitmap, WholeSectors, FilesInv, FiledInv, ParseDataBitmap
    PROVE  FiledInv'
<1>1. step = "scan" /\ step' = "protect" /\ UNCHANGED <<filed, fs_extents>>
    BY DEF ParseDataBitmap
<1>2. filed' = {} /\ fs_extents' = {}
    BY <1>1 DEF FilesInv, FiledInv
<1> DEFINE U == ClustersInUse
           S(s) == {k \in U : SegmentOf(k) = s}
<1>3. runs' = [s \in Segments |-> RunList(S(s))]
    BY DEF ParseDataBitmap
<1>4. U \in SUBSET Nat /\ IsFiniteSet(U)
    BY InUseKnown
<1> HIDE DEF U
<1>5. ASSUME NEW s \in Segments, NEW r \in Members(runs'[s]) PROVE ~ OfFile(r)
    <2> DEFINE T == S(s)
    <2>1. T \subseteq U
        OBVIOUS
    <2> HIDE DEF T
    <2>2. T \in SUBSET Nat /\ IsFiniteSet(T)
        BY <1>4, <2>1, FS_Subset
    <2>3. \A x \in Members(RunList(T)) : x.inode = 0 /\ ~ x.relocated /\ ~ x.not_in_img
        BY <2>2, RunListInOrder
    <2> QED BY <1>3, <1>5, <2>3 DEF T, OfFile
<1>6. PICK R : R = runs'
    OBVIOUS
<1>7. \A r \in Listings(R) : ~ OfFile(r)
    BY <1>5, <1>6 DEF Listings
<1>8. \A e : e \notin OfFiles(R)
    BY <1>7, OfFilesOf
<1> QED BY <1>2, <1>6, <1>8, FiledQuiet

LEMMA RelocateFiled ==
    ASSUME WholeWords, ClusterBitmaps, WholeClusters, ConvInv, RunsInv,
           GeometryInv', DataAligned', NoOverwrite', DataInSegments', DataInside',
           OfFiles(runs) = {}, NEW k \in Nat,
           AllocatorCall("data", DataChunkSize, ClusterSize, FALSE), phase' # "failed", Relocate(k)
    PROVE  OfFiles(runs') = {}
<1> DEFINE n == Returned \div ClusterSize
           s == SegmentOf(k)
           cut == [runs EXCEPT ![s] = Cut(runs[s], k, 1, dummy_inode, 0)]
           copy == DataAlloc(n, 1, 0, 0, TRUE, FALSE)
           t == Returned \div DataChunkSize
<1>1. Listed(runs, Segments, KnownClusters) /\ IInv /\ GrantedAbove
    BY DEF RunsInv, ConvInv
<1>2. ClusterSize \div ClusterSize = 1
    OBVIOUS
<1>3. n \in Nat /\ KnownClusters \cap Extent(n, 1) = {}
    BY <1>1, <1>2, DataReturned
<1>4. SpaceTaken(Returned, n, 1, t)
    BY <1>1, <1>2, DataTaken
<1>5. t \in Segments /\ \A j \in Extent(n, 1) : SegmentOf(j) = t
    BY <1>4 DEF SpaceTaken
<1>6. SegmentOf(n) = t
    BY <1>3, <1>5 DEF Extent
<1>7. runs' = [cut EXCEPT ![SegmentOf(n)] = Insert(cut[SegmentOf(n)], copy)]
    BY DEF Relocate
<1>8. dummy_inode \in Int /\ dummy_inode \in {0, dummy_inode} /\ 0 \in Nat /\ 1 \in Nat \ {0}
    BY DEF dummy_inode
<1>9. copy \in Entries /\ copy.offset = n /\ copy.length = 1 /\ ~ OfFile(copy)
    BY <1>3 DEF DataAlloc, Entries, OfFile
<1> HIDE DEF n, t, copy
<1>10. s \in Segments => ~ Torn(runs[s], k, 1)
    BY <1>1, OneClusterWhole DEF Listed
<1> HIDE DEF s
<1>11. Listed(cut, Segments, KnownClusters)
    BY <1>1, <1>8, <1>10, ListedCut
<1>12. OfFiles(cut) = {}
    <2>1. OfFiles(CutIn(runs, s, k, 1, dummy_inode, 0)) = {}
        BY <1>1, <1>8, <1>10, OfFilesAway
    <2> QED BY <2>1 DEF CutIn
<1> HIDE DEF cut
<1>13. OfFiles([cut EXCEPT ![t] = Insert(cut[t], copy)]) = {}
    BY <1>3, <1>5, <1>9, <1>11, <1>12, OfFilesInsert
<1> QED BY <1>6, <1>7, <1>13

LEMMA ProtectClusterFiled ==
    ASSUME WholeWords, ClusterBitmaps, WholeClusters, ConvInv, RunsInv, FilesInv, FiledInv,
           GeometryInv', DataAligned', NoOverwrite', DataInSegments', DataInside',
           ProtectCluster
    PROVE  FiledInv'
<1>1. /\ step = "protect" /\ phase = "protect" /\ todo # <<>> /\ step' = "protect"
    BY DEF ProtectCluster, ConvInv, StepPhase
<1>2. filed = {} /\ fs_extents = {} /\ FiledExtents = {}
    BY <1>1 DEF FiledInv, FilesInv, FiledExtents
<1>3. OfFiles(runs) = {}
    BY <1>1, <1>2 DEF FiledInv
<1>4. Head(todo) \in Nat
    BY <1>1, HeadAndTail DEF RunsInv
<1>5. CASE Stays
    BY <1>2, <1>3, <1>5, FiledQuiet DEF Stays, memory
<1>6. CASE /\ AllocateData(ClusterSize, FALSE) /\ phase' # "failed" /\ Relocate(Head(todo))
           /\ UNCHANGED <<filed, fs_extents>>
    <2>1. AllocatorCall("data", DataChunkSize, ClusterSize, FALSE)
        BY <1>1, <1>6, DataCalls
    <2>2. OfFiles(runs') = {}
        BY <1>3, <1>4, <1>6, <2>1, RelocateFiled
    <2> QED BY <1>2, <1>6, <2>2, FiledQuiet
<1> QED BY <1>5, <1>6 DEF ProtectCluster

LEMMA SplitRunsFiled ==
    ASSUME WholeWords, ClusterBitmaps, WholeClusters, WholeBitmap, WholeSectors, BitsInBitmap,
           SuperblockReserved, ConvInv, RunsInv, ImageInv, SentKept, ListsInv, FilesInv, FiledInv,
           FilesMarked, FilesOwned, SplitRuns
    PROVE  FiledInv'
<1>1. /\ step = "files" /\ phase # "failed" /\ todo # <<>> /\ step' = "files"
      /\ UNCHANGED <<relocs, todo, fs_extents>>
    BY DEF SplitRuns
<1>2. Head(todo) \in ConvertedFiles
    BY <1>1, HeadAndTail DEF ConvInv, Queues
<1>3. PICK p \in FilePieces \ filed :
         /\ LET list == runs[SegmentOf(p.lcn)] IN
              IF Torn(list, p.lcn, p.length)
              THEN phase' = "failed" /\ UNCHANGED runs
              ELSE /\ runs' = [runs EXCEPT ![SegmentOf(p.lcn)] =
                                  Cut(list, p.lcn, p.length, Head(todo).inode, p.vcn)]
                   /\ UNCHANGED phase
         /\ filed' = filed \cup {p}
    BY DEF SplitRuns
<1>4. FilePieces' = FilePieces
    <2>1. \A m : Pieces(m)' = Pieces(m)
        BY <1>1, SamePieces
    <2> QED BY <1>1, <2>1 DEF FilePieces
<1>5. filed' \subseteq IF todo' = <<>> THEN {} ELSE FilePieces'
    <2>1. filed \subseteq FilePieces
        BY <1>1 DEF FiledInv
    <2> QED BY <1>1, <1>3, <1>4, <2>1
<1> DEFINE f == Head(todo)
           t == SegmentOf(p.lcn)
<1>6. FiledExtents' = FiledExtents \cup {PieceExtent(f, p)}
    BY <1>1, <1>3 DEF FiledExtents, PieceExtent, Extents
<1>7. f.inode \in Nat \ {0}
    BY <1>2 DEF ConvertedFiles, Files
<1>8. /\ t \in Segments /\ p.lcn \in Nat /\ p.length \in Nat \ {0} /\ p.vcn \in Nat
      /\ Met(runs[t], p.lcn, p.length) # {}
      /\ \A r \in Members(runs[t]) : p.lcn \in Extent(r.offset, r.length) => r.inode = 0
    BY <1>1, <1>3, PieceOfNobody
<1>9. OfFiles(runs) = fs_extents \cup FiledExtents /\ Listed(runs, Segments, KnownClusters)
    BY <1>1 DEF FiledInv, Opened, RunsInv
<1>10. PieceExtent(f, p) = Extents(f.inode, p.vcn * ClusterSize, p.lcn * ClusterSize,
                                   p.length * ClusterSize)
    BY DEF PieceExtent
<1>11. CASE Torn(runs[t], p.lcn, p.length)
    <2>1. phase' = "failed"
        BY <1>3, <1>11
    <2>2. ~ Opened'
        BY <1>1, <2>1 DEF Opened, ImageDone
    <2> QED BY <1>1, <1>5, <2>2 DEF FiledInv, ImageDone
<1>12. CASE ~ Torn(runs[t], p.lcn, p.length)
    <2>1. runs' = CutIn(runs, t, p.lcn, p.length, f.inode, p.vcn)
        BY <1>3, <1>12 DEF CutIn
    <2> HIDE DEF f, t
    <2>2. OfFiles(runs') = OfFiles(runs) \cup {PieceExtent(f, p)}
        <3>1. PICK R : R = runs
            OBVIOUS
        <3>2. Listed(R, Segments, KnownClusters) /\ ~ Torn(R[t], p.lcn, p.length)
              /\ Met(R[t], p.lcn, p.length) # {}
              /\ \A r \in Members(R[t]) : p.lcn \in Extent(r.offset, r.length) => r.inode = 0
            BY <1>8, <1>9, <1>12, <3>1
        <3>3. PICK inode \in Nat \ {0}, at \in Nat, n \in Nat \ {0}, pos \in Nat :
                 inode = f.inode /\ at = p.lcn /\ n = p.length /\ pos = p.vcn
            BY <1>7, <1>8
        <3>4. PICK s \in Segments : s = t
            BY <1>8
        <3>5. /\ Listed(R, Segments, KnownClusters) /\ ~ Torn(R[s], at, n) /\ Met(R[s], at, n) # {}
              /\ \A r \in Members(R[s]) : at \in Extent(r.offset, r.length) => r.inode = 0
            BY <3>2, <3>3, <3>4
        <3>6. OfFiles(CutIn(R, s, at, n, inode, pos))
                = OfFiles(R) \cup {Extents(inode, pos * ClusterSize, at * ClusterSize, n * ClusterSize)}
            BY <3>5, OfFilesCut
        <3> QED BY <1>10, <2>1, <3>1, <3>3, <3>4, <3>6
    <2>3. OfFiles(runs)' = fs_extents' \cup FiledExtents'
        BY <1>1, <1>6, <1>9, <2>2, OfFilesNext
    <2> QED BY <1>1, <1>5, <2>3 DEF FiledInv, ImageDone
<1> QED BY <1>11, <1>12

LEMMA MapFileFiled ==
    ASSUME FiledInv, MapFile
    PROVE  FiledInv'
<1>1. /\ step = "files" /\ phase # "failed" /\ todo # <<>> /\ filed' = {} /\ UNCHANGED runs
      /\ fs_extents' = fs_extents \cup FiledExtents
    BY DEF MapFile, FiledExtents, PieceExtent
<1>2. OfFiles(runs') = fs_extents'
    BY <1>1 DEF FiledInv, Opened
<1> QED BY <1>1, <1>2, FiledQuiet

LEMMA WriteDataFiled ==
    ASSUME WholeWords, ClusterBitmaps, WholeClusters, ConvInv, RunsInv, FilesInv, FiledInv,
           FilesAligned, GeometryInv', DataAligned', NoOverwrite', DataInSegments', DataInside',
           WriteData
    PROVE  FiledInv'
<1> DEFINE f == Head(todo)
<1>1. /\ step = "files" /\ step' = "files" /\ todo # <<>> /\ phase = "rewrite" /\ f.mappings = {}
      /\ UNCHANGED filed /\ phase # "failed"
    BY DEF WriteData, ConvInv, StepPhase, Stays, memory
<1>2. f \in ConvertedFiles
    BY <1>1, HeadAndTail DEF ConvInv, Queues
<1>3. /\ AllocateData(f.length, TRUE)
      /\ \/ phase' = "failed"
         \/ /\ phase' # "failed"
            /\ runs' = [runs EXCEPT ![Returned \div DataChunkSize] =
                                Insert(@, DataAlloc(Returned \div ClusterSize,
                                                    f.length \div ClusterSize, f.inode,
                                                    f.pos \div ClusterSize, FALSE, TRUE))]
            /\ fs_extents' = fs_extents \cup {Extents(f.inode, f.pos, Returned, f.length)}
    BY DEF WriteData
<1>4. f.pos % ClusterSize = 0
    <2>1. Processed + 1 \in DOMAIN files /\ f = files[Processed + 1]
        BY <1>1, HeadFile DEF ConvInv, Queues, FilesInv
    <2> QED BY <2>1 DEF FilesAligned
<1>5. filed = {} /\ FiledExtents = {}
    <2>1. FilePieces = {}
        BY <1>1 DEF FilePieces
    <2> QED BY <1>1, <2>1 DEF FiledInv, FiledExtents
<1> HIDE DEF f
<1>6. f.length \in DataLengths /\ f.inode \in Nat \ {0} /\ f.pos \in Nat
    BY <1>1, <1>2 DEF ConvertedFiles, Files
<1>7. AllocatorCall("data", DataChunkSize, f.length, TRUE)
    BY <1>1, <1>3, <1>6, DataCalls
<1>8. Listed(runs, Segments, KnownClusters) /\ OfFiles(runs) = fs_extents
    BY <1>1, <1>5 DEF RunsInv, FiledInv, Opened
<1>9. CASE phase' = "failed"
    <2>1. ~ Opened' /\ step' # "protect"
        BY <1>1, <1>9 DEF Opened, ImageDone
    <2> QED BY <1>1, <1>5, <2>1, FiledQuiet
<1>10. CASE phase' # "failed"
    <2> DEFINE n == Returned \div ClusterSize
               c == f.length \div ClusterSize
               t == Returned \div DataChunkSize
               pos == f.pos \div ClusterSize
               r == DataAlloc(n, c, f.inode, pos, FALSE, TRUE)
    <2>1. n \in Nat /\ c \in Nat \ {0} /\ KnownClusters \cap Extent(n, c) = {}
        BY <1>7, <1>10, DataReturned DEF ConvInv
    <2>2. SpaceTaken(Returned, n, c, t)
        BY <1>7, <1>10, DataTaken DEF ConvInv
    <2>3. t \in Segments /\ n * ClusterSize = Returned
        BY <2>2 DEF SpaceTaken
    <2>4. pos \in Nat /\ pos * ClusterSize = f.pos
        BY <1>4, <1>6, Division
    <2>5. c * ClusterSize = f.length
        <3>1. f.length \in Nat /\ f.length % ClusterSize = 0
            BY <1>6 DEF WholeClusters
        <3> QED BY <3>1, Division
    <2>6. runs' = [runs EXCEPT ![t] = Insert(runs[t], r)]
          /\ fs_extents' = fs_extents \cup {Extents(f.inode, f.pos, Returned, f.length)}
        BY <1>3, <1>10
    <2> HIDE DEF n, c, t, pos
    <2>7. /\ r \in Entries /\ r.offset = n /\ r.length = c /\ OfFile(r)
          /\ FileExtent(r) = Extents(f.inode, f.pos, Returned, f.length)
        BY <1>6, <2>1, <2>3, <2>4, <2>5 DEF Entries, DataAlloc, dummy_inode, OfFile, FileExtent
    <2> HIDE DEF r
    <2>8. OfFiles(runs') = fs_extents'
        BY <1>8, <2>1, <2>3, <2>6, <2>7, OfFilesInsert
    <2> QED BY <1>1, <1>5, <2>8, FiledQuiet
<1> QED BY <1>9, <1>10

LEMMA FiledStep ==
    ASSUME WholeWords, ClusterBitmaps, WholeClusters, WholeBitmap, WholeSectors, BitsInBitmap,
           SuperblockReserved, ConvInv, RunsInv, ImageInv, SentKept, ListsInv, FilesInv, FiledInv,
           FilesMarked, FilesOwned, FilesAligned,
           GeometryInv', DataAligned', NoOverwrite', DataInSegments', DataInside',
           [ConvNext]_<<vars, cvars>>
    PROVE  FiledInv'
<1>1. CASE ParseDataBitmap
    BY <1>1, ParseFiled
<1>2. CASE ProtectCluster
    BY <1>2, ProtectClusterFiled
<1>3. CASE SplitRuns
    BY <1>3, SplitRunsFiled
<1>4. CASE MapFile
    BY <1>4, MapFileFiled
<1>5. CASE WriteData
    BY <1>5, WriteDataFiled
<1>6. CASE Scan \/ CalcUsedSpace
    <2>1. /\ UNCHANGED <<runs, fs_extents, filed>> /\ step' # "protect"
          /\ step \in {"scan", "protect"} /\ (step = "scan" => step' = "scan")
        BY <1>6 DEF Scan, CalcUsedSpace, cvars, memory
    <2>2. filed = {} /\ FiledExtents = {}
        BY <2>1 DEF FiledInv, FiledExtents
    <2>3. Opened' => step = "protect"
        BY <2>1 DEF Opened, ImageDone
    <2> QED BY <2>1, <2>2, <2>3, FiledQuiet DEF FiledInv
<1>7. CASE CreateImage
    <2>1. /\ UNCHANGED <<runs, fs_extents, filed>> /\ step' # "protect"
          /\ step = "files" /\ phase # "failed" /\ todo = <<>>
        BY <1>7 DEF CreateImage
    <2>2. filed = {} /\ FiledExtents = {} /\ Opened
        BY <2>1 DEF FiledInv, FiledExtents, Opened
    <2> QED BY <2>1, <2>2, FiledQuiet DEF FiledInv
<1>8. CASE \/ CreateDataExtentItems \/ JoinRun \/ CalcChecksums \/ LayOutBlock \/ LayoutDone
           \/ WriteTrees \/ TreesWritten \/ WriteSuperblock \/ ClearFirstCluster
    <2>1. /\ UNCHANGED <<runs, fs_extents, filed>> /\ step' # "protect" /\ ImageDone
        BY <1>8 DEF CreateDataExtentItems, JoinRun, CalcChecksums, LayOutBlock, LayoutDone,
            WriteTrees, TreesWritten, WriteSuperblock, ClearFirstCluster, cvars, memory, ImageDone
    <2>2. filed = {} /\ FiledExtents = {} /\ Opened
        BY <2>1 DEF FiledInv, FiledExtents, Opened
    <2> QED BY <2>1, <2>2, FiledQuiet DEF FiledInv
<1>9. CASE UNCHANGED <<vars, cvars>>
    <2>1. UNCHANGED <<runs, fs_extents, filed, step, todo, phase, relocs>>
        BY <1>9 DEF vars, cvars, memory
    <2>2. FilePieces' = FilePieces
        <3>1. \A m : Pieces(m)' = Pieces(m)
            BY <2>1, SamePieces
        <3> QED BY <2>1, <3>1 DEF FilePieces
    <2>3. FiledExtents' = FiledExtents
        BY <2>1 DEF FiledExtents, PieceExtent, Extents
    <2>4. OfFiles(runs)' = OfFiles(runs)
        BY <2>1, OfFilesNext
    <2>5. (ImageDone' <=> ImageDone) /\ (Opened' <=> Opened)
        BY <2>1 DEF ImageDone, Opened
    <2> QED BY <2>1, <2>2, <2>3, <2>4, <2>5 DEF FiledInv
<1> QED BY <1>1, <1>2, <1>3, <1>4, <1>5, <1>6, <1>7, <1>8, <1>9 DEF ConvNext

-----------------------------------------------------------------------------
(* The references. *)

ItemOf(r) == [addr |-> r.offset * ClusterSize, length |-> r.length * ClusterSize,
              refs |-> References(r)]
DataItems == {ItemOf(r) : r \in {q \in AllRuns : q.inode # dummy_inode}}

ItemsInv == RefsDone => extent_items = DataItems

LEMMA SameDataItems ==
    ASSUME UNCHANGED <<runs, relocs>>
    PROVE  DataItems' = DataItems
<1>1. \A k : MovedFrom(k)' = MovedFrom(k)
    BY DEF MovedFrom, FirstReloc
<1>2. \A r : ItemOf(r)' = ItemOf(r)
    BY <1>1 DEF ItemOf, References, Image
<1>3. AllRuns' = AllRuns
    BY DEF AllRuns, Segments
<1> QED BY <1>2, <1>3 DEF DataItems

LEMMA ItemsStep ==
    ASSUME ItemsInv, [ConvNext]_<<vars, cvars>>
    PROVE  ItemsInv'
<1>1. CASE CreateDataExtentItems
    <2>1. extent_items' = DataItems /\ UNCHANGED <<runs, relocs>>
        BY <1>1 DEF CreateDataExtentItems, DataItems, ItemOf
    <2> QED BY <2>1, SameDataItems DEF ItemsInv
<1>2. CASE /\ UNCHANGED <<runs, relocs, extent_items>>
           /\ RefsDone' => RefsDone
    BY <1>2, SameDataItems DEF ItemsInv
<1>3. CASE \/ Scan \/ ParseDataBitmap \/ ProtectCluster \/ CalcUsedSpace \/ SplitRuns
           \/ MapFile \/ WriteData \/ CreateImage
    <2>1. ~ RefsDone'
        BY <1>3 DEF Scan, ParseDataBitmap, ProtectCluster, CalcUsedSpace, SplitRuns, MapFile,
            WriteData, CreateImage, cvars, RefsDone, ImageDone
    <2> QED BY <2>1 DEF ItemsInv
<1>4. CASE \/ JoinRun \/ CalcChecksums \/ LayOutBlock \/ LayoutDone
           \/ WriteTrees \/ TreesWritten \/ WriteSuperblock \/ ClearFirstCluster
    <2>1. /\ UNCHANGED <<runs, relocs, extent_items>> /\ RefsDone
        BY <1>4 DEF JoinRun, CalcChecksums, LayOutBlock, LayoutDone,
            WriteTrees, TreesWritten, WriteSuperblock, ClearFirstCluster, cvars, memory, ImageDone,
            RefsDone
    <2> QED BY <1>2, <2>1
<1>5. CASE UNCHANGED <<vars, cvars>>
    BY <1>2, <1>5 DEF vars, cvars, memory, RefsDone, ImageDone
<1> QED BY <1>1, <1>3, <1>4, <1>5 DEF ConvNext

\* A relocation is that of the cluster it is of, and that of the copy.
LEMMA MovedBack ==
    ASSUME relocs \in Seq(Relocations), MovesApart, NEW i \in DOMAIN relocs
    PROVE  /\ MovedTo(relocs[i].old_start) = relocs[i].new_start
           /\ MovedFrom(relocs[i].new_start) = relocs[i].old_start
           /\ relocs[i].old_start \in Nat /\ relocs[i].new_start \in Nat
<1>1. {j \in DOMAIN relocs : relocs[j].old_start = relocs[i].old_start} = {i}
    BY DEF MovesApart
<1>2. {j \in DOMAIN relocs : relocs[j].new_start = relocs[i].new_start} = {i}
    BY DEF MovesApart
<1>3. FirstReloc({i}) = relocs[i]
    <2>1. i \in Nat
        OBVIOUS
    <2>2. \A a : a \in {i} /\ (\A j \in {i} : a <= j) <=> a = i
        BY <2>1
    <2> QED BY <2>2 DEF FirstReloc
<1>4. relocs[i] \in Relocations
    OBVIOUS
<1> QED BY <1>1, <1>2, <1>3, <1>4 DEF MovedTo, MovedFrom, Relocations

LEMMA AllListings == AllRuns = Listings(runs)
BY DEF AllRuns, Listings, Members

LEMMA InitItems == ConvInit => FiledInv /\ ItemsInv
BY DEF ConvInit, FiledInv, ItemsInv, RefsDone, ImageDone, Opened

\* What is so once ntfs.img has been made.
Finished ==
    /\ ConvInv /\ RunsInv /\ ImageInv /\ ListsInv /\ RelocInv /\ FiledInv
    /\ CopiesStay /\ ImageDone

LEMMA SameScaled ==
    ASSUME NEW j \in Nat, NEW k \in Nat, j * ClusterSize = k * ClusterSize
    PROVE  j = k
<1>1. /\ j * ClusterSize \in Extent(j * ClusterSize, ClusterSize)
      /\ k * ClusterSize \in Extent(k * ClusterSize, ClusterSize)
    BY DEF Extent
<1> QED BY <1>1, OneCluster

LEMMA FinishedRuns ==
    ASSUME Finished
    PROVE  /\ Listed(runs, Segments, KnownClusters) /\ Confined(runs)
           /\ CopiesTold(runs, Copies) /\ MovesApart /\ relocs \in Seq(Relocations)
           /\ EntriesTell(runs, ClustersInUse, Moved, FALSE)
           /\ AllCovered(runs, ClustersInUse)
           /\ GrantedListed(runs, DataGranted)
           /\ img_extents = ImageItems
           /\ fs_extents = OfFiles(runs)
<1>1. step \notin {"scan", "protect"}
    BY DEF Finished, ImageDone
<1>2. fs_extents = OfFiles(runs)
    <2>1. OfFiles(runs) = fs_extents \cup FiledExtents /\ filed = {}
        BY DEF Finished, FiledInv, Opened
    <2>2. FiledExtents = {}
        BY <2>1 DEF FiledExtents
    <2> QED BY <2>1, <2>2
<1> QED BY <1>1, <1>2 DEF Finished, RunsInv, ListsInv, Accounted, RelocInv, ImageInv, ImageMade,
                          EntriesKept

\* The entry of a cluster that was moved.
LEMMA MovedListing ==
    ASSUME Finished, NEW r \in Listings(runs), r.inode = dummy_inode
    PROVE  /\ r.length = 1 /\ r.offset \in Moved /\ r.offset \in Nat
           /\ ~ r.relocated /\ ~ r.not_in_img
<1>1. PICK s \in Segments : r \in Members(runs[s])
    BY DEF Listings
<1>2. EntryTells(r, s, ClustersInUse, Moved, FALSE)
    BY <1>1, FinishedRuns DEF EntriesTell
<1>3. r \in Entries
    BY FinishedRuns, ListingsKnown
<1>4. r.length = 1 /\ r.offset \in Moved /\ r.offset \in Nat
    BY <1>2, <1>3, EntryFields DEF EntryTells, TellsOfMoves
<1>5. r.offset \in Extent(r.offset, r.length) /\ r.offset \in ClustersInUse
    BY <1>4 DEF Extent, Finished, CopiesStay
<1> QED BY <1>2, <1>4, <1>5 DEF EntryTells, TellsOfUse

\* Both entries of a relocation: that of the cluster and that of its copy.
LEMMA MoveListed ==
    ASSUME Finished, NEW i \in DOMAIN relocs
    PROVE  LET k == relocs[i].old_start
               n == relocs[i].new_start
           IN  /\ \E q \in Listings(runs) : q.inode = dummy_inode /\ q.offset = k
               /\ \E r \in Listings(runs) :
                     /\ r.inode # dummy_inode /\ r.offset = n /\ r.length = 1
                     /\ r.relocated /\ ~ r.not_in_img
<1>1. PICK k \in Nat, n \in Nat : k = relocs[i].old_start /\ n = relocs[i].new_start
    BY FinishedRuns, MovedBack
<1>2. k \in Moved /\ k \in ClustersInUse /\ n \in Copies /\ MovedTo(k) = n
    BY <1>1, FinishedRuns, MovedBack DEF Moved, Copies, Finished, CopiesStay
<1>3. \E q \in Listings(runs) : q.inode = dummy_inode /\ q.offset = k
    <2>1. SegmentOf(k) \in Segments /\ k \in Covered(runs[SegmentOf(k)])
        BY <1>2, FinishedRuns DEF AllCovered
    <2>2. PICK s \in Segments : k \in Covered(runs[s])
        BY <2>1
    <2>3. PICK q \in Listings(runs) : q \in Members(runs[s]) /\ k \in Extent(q.offset, q.length)
        BY <2>2, ListingOf
    <2>4. EntryTells(q, s, ClustersInUse, Moved, FALSE)
        BY <2>3, FinishedRuns DEF EntriesTell
    <2>5. q.inode = dummy_inode
        BY <1>2, <2>3, <2>4 DEF EntryTells, TellsOfUse
    <2>6. q.length = 1 /\ q.offset \in Nat
        BY <2>5, MovedListing
    <2>7. q.offset = k
        BY <2>3, <2>6 DEF Extent
    <2> QED BY <2>5, <2>7
<1>4. \E r \in Listings(runs) :
          r.inode # dummy_inode /\ r.offset = n /\ r.length = 1 /\ r.relocated /\ ~ r.not_in_img
    <2>1. Extent(n * ClusterSize, ClusterSize) \cap DataGranted # {}
        <3>1. Holds(n, k)
            BY <1>2 DEF Finished, ImageInv, CopiesKept, CopyKept
        <3>2. n * ClusterSize \in Extent(n * ClusterSize, ClusterSize)
            BY DEF Extent
        <3> QED BY <3>1, <3>2 DEF Holds
    <2>2. PICK s \in Segments : n \in Covered(runs[s])
        BY <2>1, FinishedRuns DEF GrantedListed
    <2>3. PICK r \in Listings(runs) : r \in Members(runs[s]) /\ n \in Extent(r.offset, r.length)
        BY <2>2, ListingOf
    <2>4. r.relocated /\ ~ r.not_in_img
        BY <1>2, <2>3, FinishedRuns DEF CopiesTold, CopyTold
    <2>5. r.length = 1
        BY <2>3, <2>4, FinishedRuns DEF EntriesTell, EntryTells, TellsOfMoves
    <2>6. r.offset = n
        BY <2>3, <2>5, FinishedRuns, ListingsKnown, EntryFields DEF Extent
    <2>7. r.inode # dummy_inode
        BY <2>4, MovedListing
    <2> QED BY <2>4, <2>5, <2>6, <2>7
<1> QED BY <1>1, <1>3, <1>4

AtPlace(e, r) == e.addr = r.offset * ClusterSize /\ e.length = r.length * ClusterSize

\* The part that the data of an entry has in the image.
ImagePart(r) ==
    Extents(Image, (IF r.relocated THEN MovedFrom(r.offset) ELSE r.offset) * ClusterSize,
            r.offset * ClusterSize, r.length * ClusterSize)

\* An extent of a file that is at the place of an entry is that of the entry.
LEMMA FileAtPlace ==
    ASSUME Finished, NEW r \in Listings(runs), NEW e
    PROVE  e \in fs_extents /\ AtPlace(e, r) <=> OfFile(r) /\ e = FileExtent(r)
<1>1. ASSUME OfFile(r), e = FileExtent(r) PROVE e \in fs_extents /\ AtPlace(e, r)
    BY <1>1, FinishedRuns, OfFilesOf DEF FileExtent, Extents, AtPlace
<1>2. ASSUME e \in fs_extents, AtPlace(e, r) PROVE OfFile(r) /\ e = FileExtent(r)
    <2>1. PICK x \in Listings(runs) : OfFile(x) /\ e = FileExtent(x)
        BY <1>2, FinishedRuns, OfFilesOf
    <2>2. x \in Entries /\ r \in Entries
        BY FinishedRuns, ListingsKnown
    <2>3. x.offset * ClusterSize = r.offset * ClusterSize
        BY <1>2, <2>1 DEF FileExtent, Extents, AtPlace
    <2>4. x.offset = r.offset
        BY <2>2, <2>3, SameScaled, EntryFields
    <2>5. r.offset \in Extent(x.offset, x.length) /\ r.offset \in Extent(r.offset, r.length)
        BY <2>2, <2>4, EntryFields DEF Extent
    <2>6. x = r
        BY <2>5, FinishedRuns, OneListing
    <2> QED BY <2>1, <2>6
<1> QED BY <1>1, <1>2

\* So is an extent of the image, whether the data was moved or not.
LEMMA ImageAtPlace ==
    ASSUME Finished, NEW r \in Listings(runs), r.inode # dummy_inode, NEW e
    PROVE  e \in img_extents /\ AtPlace(e, r) <=> ~ r.not_in_img /\ e = ImagePart(r)
<1>1. e \in img_extents
        <=> \E q \in Listings(runs) : ~ q.relocated /\ ~ q.not_in_img /\ e = ImageExtent(q)
    BY FinishedRuns, AllListings DEF ImageItems
<1>2. r \in Entries /\ r.offset \in Nat /\ r.length \in Nat /\ r.length > 0
    BY FinishedRuns, ListingsKnown, EntryFields
<1>3. CopyTold(r, Copies)
    BY FinishedRuns DEF CopiesTold
<1>4. ASSUME e \in img_extents, AtPlace(e, r) PROVE ~ r.not_in_img /\ e = ImagePart(r)
    <2>1. PICK q \in Listings(runs) : ~ q.relocated /\ ~ q.not_in_img /\ e = ImageExtent(q)
        BY <1>1, <1>4
    <2>2. q \in Entries /\ q.offset \in Nat /\ q.length \in Nat /\ q.length > 0
        BY FinishedRuns, ListingsKnown, EntryFields
    <2>3. CASE q.inode # dummy_inode
        <3>1. q.offset * ClusterSize = r.offset * ClusterSize
            BY <1>4, <2>1, <2>3 DEF ImageExtent, Extents, AtPlace
        <3>2. q.offset = r.offset
            BY <1>2, <2>2, <3>1, SameScaled
        <3>3. r.offset \in Extent(q.offset, q.length) /\ r.offset \in Extent(r.offset, r.length)
            BY <1>2, <2>2, <3>2 DEF Extent
        <3>4. q = r
            BY <3>3, FinishedRuns, OneListing
        <3> QED BY <2>1, <2>3, <3>4 DEF ImageExtent, ImagePart
    <2>4. CASE q.inode = dummy_inode
        <3>1. PICK i \in DOMAIN relocs : relocs[i].old_start = q.offset
            BY <2>4, MovedListing DEF Moved
        <3>2. PICK n \in Nat : n = relocs[i].new_start
            BY FinishedRuns, MovedBack
        <3>3. MovedTo(q.offset) = n /\ MovedFrom(n) = q.offset /\ n \in Copies
            BY <3>1, <3>2, FinishedRuns, MovedBack DEF Copies
        <3>4. n * ClusterSize = r.offset * ClusterSize
            BY <1>4, <2>1, <2>4, <3>3 DEF ImageExtent, Extents, AtPlace
        <3>5. n = r.offset
            BY <1>2, <3>2, <3>4, SameScaled
        <3>6. r.offset \in Extent(r.offset, r.length)
            BY <1>2 DEF Extent
        <3>7. r.relocated /\ ~ r.not_in_img
            BY <1>3, <3>3, <3>5, <3>6 DEF CopyTold
        <3>8. /\ e = Extents(Image, q.offset * ClusterSize, n * ClusterSize, q.length * ClusterSize)
              /\ q.length * ClusterSize = r.length * ClusterSize
            BY <1>4, <2>1, <2>4, <3>3 DEF ImageExtent, Extents, AtPlace
        <3> QED BY <3>3, <3>5, <3>7, <3>8 DEF ImagePart
    <2> QED BY <2>3, <2>4
<1>5. ASSUME ~ r.not_in_img, e = ImagePart(r) PROVE e \in img_extents /\ AtPlace(e, r)
    <2>1. AtPlace(e, r)
        BY <1>5 DEF ImagePart, Extents, AtPlace
    <2>2. CASE ~ r.relocated
        <3>1. e = ImageExtent(r)
            BY <1>5, <2>2 DEF ImageExtent, ImagePart
        <3> QED BY <1>1, <1>5, <2>1, <2>2, <3>1
    <2>3. CASE r.relocated
        <3>1. PICK i \in DOMAIN relocs : relocs[i].new_start = r.offset
            BY <1>3, <2>3 DEF CopyTold, Copies
        <3>2. PICK k \in Nat : k = relocs[i].old_start
            BY FinishedRuns, MovedBack
        <3>3. MovedTo(k) = r.offset /\ MovedFrom(r.offset) = k
            BY <3>1, <3>2, FinishedRuns, MovedBack
        <3>4. PICK q \in Listings(runs) : q.inode = dummy_inode /\ q.offset = k
            BY <3>2, MoveListed
        <3>5. q.length = 1 /\ ~ q.relocated /\ ~ q.not_in_img
            BY <3>4, MovedListing
        <3>6. r.length = 1
            <4>1. PICK s \in Segments : r \in Members(runs[s])
                BY DEF Listings
            <4> QED BY <2>3, <4>1, FinishedRuns DEF EntriesTell, EntryTells, TellsOfMoves
        <3>7. e = ImageExtent(q)
            BY <1>5, <2>3, <3>3, <3>4, <3>5, <3>6 DEF ImageExtent, ImagePart
        <3> QED BY <1>1, <2>1, <3>5, <3>7
    <2> QED BY <2>2, <2>3
<1> QED BY <1>4, <1>5

\* The references to the place of an entry, as one item puts them together.
RefsAt(addr, length) ==
    {[owner |-> x.owner, pos |-> x.pos] :
        x \in {y \in fs_extents \cup img_extents : y.addr = addr /\ y.length = length}}

LEMMA ReferencesMade ==
    ASSUME Finished, NEW r \in Listings(runs), r.inode # dummy_inode
    PROVE  RefsAt(r.offset * ClusterSize, r.length * ClusterSize) = References(r)
<1> DEFINE R == RefsAt(r.offset * ClusterSize, r.length * ClusterSize)
           Pair(x) == [owner |-> x.owner, pos |-> x.pos]
           FromFile == [owner |-> r.inode, pos |-> r.file_offset * ClusterSize]
           FromImage == [owner |-> Image,
                         pos |-> (IF r.relocated THEN MovedFrom(r.offset) ELSE r.offset)
                                    * ClusterSize]
<1>1. Pair(FileExtent(r)) = FromFile /\ Pair(ImagePart(r)) = FromImage
    BY DEF FileExtent, ImagePart, Extents
<1>2. ASSUME NEW y
      PROVE  y \in R <=> \E x : x \in fs_extents \cup img_extents /\ AtPlace(x, r) /\ y = Pair(x)
    BY DEF RefsAt, AtPlace
<1>3. ASSUME NEW x
      PROVE  x \in fs_extents \cup img_extents /\ AtPlace(x, r)
               <=> (OfFile(r) /\ x = FileExtent(r)) \/ (~ r.not_in_img /\ x = ImagePart(r))
    BY FileAtPlace, ImageAtPlace
<1> HIDE DEF R, Pair
<1>4. ASSUME NEW y
      PROVE  y \in R <=> (OfFile(r) /\ y = FromFile) \/ (~ r.not_in_img /\ y = FromImage)
    BY <1>1, <1>2, <1>3
<1> HIDE DEF FromFile, FromImage
<1>5. R = (IF OfFile(r) THEN {FromFile} ELSE {}) \cup (IF r.not_in_img THEN {} ELSE {FromImage})
    BY <1>4
<1>6. r.not_in_img => OfFile(r)
    BY FinishedRuns DEF CopiesTold, CopyTold, OfFile
<1>7. References(r) = CASE r.inode = 0 -> {FromImage}
                        [] r.inode # 0 /\ r.not_in_img -> {FromFile}
                        [] r.inode # 0 /\ ~ r.not_in_img -> {FromImage, FromFile}
    BY DEF References, FromFile, FromImage, Image
<1>8. CASE r.inode = 0
    BY <1>5, <1>6, <1>7, <1>8 DEF OfFile, R
<1>9. CASE r.inode # 0 /\ r.not_in_img
    BY <1>5, <1>7, <1>9 DEF OfFile, R
<1>10. CASE r.inode # 0 /\ ~ r.not_in_img
    BY <1>5, <1>7, <1>10 DEF OfFile, R
<1> QED BY <1>8, <1>9, <1>10 DEF R

\* No extent is at a place of its own.
LEMMA PlacesListed ==
    ASSUME Finished, NEW e \in fs_extents \cup img_extents
    PROVE  \E r \in Listings(runs) : r.inode # dummy_inode /\ AtPlace(e, r)
<1>1. CASE e \in fs_extents
    <2>1. PICK r \in Listings(runs) : OfFile(r) /\ e = FileExtent(r)
        BY <1>1, FinishedRuns, OfFilesOf
    <2>2. r.inode # dummy_inode
        BY <2>1 DEF OfFile
    <2> QED BY <2>1, <2>2 DEF FileExtent, Extents, AtPlace
<1>2. CASE e \in img_extents
    <2>1. PICK q \in Listings(runs) : e = ImageExtent(q)
        BY <1>2, FinishedRuns, AllListings DEF ImageItems
    <2>2. CASE q.inode # dummy_inode
        BY <2>1, <2>2 DEF ImageExtent, Extents, AtPlace
    <2>3. CASE q.inode = dummy_inode
        <3>1. PICK i \in DOMAIN relocs : relocs[i].old_start = q.offset
            BY <2>3, MovedListing DEF Moved
        <3>2. PICK n \in Nat : n = relocs[i].new_start /\ MovedTo(q.offset) = n
            BY <3>1, FinishedRuns, MovedBack
        <3>3. PICK r \in Listings(runs) :
                  r.inode # dummy_inode /\ r.offset = n /\ r.length = 1
            BY <3>2, MoveListed
        <3>4. q.length = 1
            BY <2>3, MovedListing
        <3> QED BY <2>1, <2>3, <3>2, <3>3, <3>4 DEF ImageExtent, Extents, AtPlace
    <2> QED BY <2>2, <2>3
<1> QED BY <1>1, <1>2

\* Every entry of data has an extent at its place.
LEMMA PlaceTaken ==
    ASSUME Finished, NEW r \in Listings(runs), r.inode # dummy_inode
    PROVE  \E e \in fs_extents \cup img_extents : AtPlace(e, r)
<1>1. CASE r.not_in_img
    <2>1. OfFile(r)
        BY <1>1, FinishedRuns DEF CopiesTold, CopyTold, OfFile
    <2> QED BY <2>1, FileAtPlace
<1>2. CASE ~ r.not_in_img
    BY <1>2, ImageAtPlace
<1> QED BY <1>1, <1>2

LEMMA ReferencedNow ==
    ASSUME Finished, ItemsInv
    PROVE  ExtentsReferenced
<1> DEFINE all == fs_extents \cup img_extents
           Summed(e) == [addr |-> e.addr, length |-> e.length, refs |-> RefsAt(e.addr, e.length)]
<1>1. SUFFICES ASSUME RefsDone PROVE extent_items = {Summed(e) : e \in all}
    BY DEF ExtentsReferenced, RefsAt
<1>2. ASSUME NEW r \in Listings(runs), r.inode # dummy_inode, NEW e, AtPlace(e, r)
      PROVE  Summed(e) = ItemOf(r)
    BY <1>2, ReferencesMade DEF AtPlace, ItemOf
<1>3. ASSUME NEW x
      PROVE  x \in extent_items
               <=> \E r \in Listings(runs) : r.inode # dummy_inode /\ x = ItemOf(r)
    BY <1>1, AllListings DEF ItemsInv, DataItems
<1>4. ASSUME NEW x
      PROVE  x \in extent_items <=> x \in {Summed(e) : e \in all}
    <2> HIDE DEF Summed
    <2>1. ASSUME x \in extent_items PROVE \E e \in all : x = Summed(e)
        <3>1. PICK r \in Listings(runs) : r.inode # dummy_inode /\ x = ItemOf(r)
            BY <1>3, <2>1
        <3>2. PICK e \in all : AtPlace(e, r)
            BY <3>1, PlaceTaken
        <3> QED BY <1>2, <3>1, <3>2
    <2>2. ASSUME NEW e \in all, x = Summed(e) PROVE x \in extent_items
        <3>1. PICK r \in Listings(runs) : r.inode # dummy_inode /\ AtPlace(e, r)
            BY PlacesListed
        <3> QED BY <1>2, <1>3, <2>2, <3>1
    <2> QED BY <2>1, <2>2
<1> QED BY <1>4

LEMMA FilesStayOwned ==
    ASSUME FilesOwned, FilesAligned, [ConvNext]_<<vars, cvars>>
    PROVE  FilesOwned' /\ FilesAligned'
<1>1. UNCHANGED files
    BY DEF ConvNext, Scan, ParseDataBitmap, ProtectCluster, CalcUsedSpace, SplitRuns, MapFile,
        WriteData, CreateImage, CreateDataExtentItems, JoinRun, CalcChecksums, LayOutBlock,
        LayoutDone, WriteTrees, TreesWritten, WriteSuperblock, ClearFirstCluster, cvars
<1> QED BY <1>1 DEF FilesOwned, FilesAligned, Laid

LEMMA ReferencedStep ==
    ASSUME WholeStripes, WholeWords, ClusterBitmaps, WholeClusters, WholeBitmap, WholeSectors,
           BitsInBitmap, SuperblockReserved, LastSegmentUsed, SupersOnStripes, MirrorsBehind,
           FilesSound, FilesOwned, FilesAligned, ConvInv, GeometryInv, StayInv, RunsInv, ImageInv,
           SentKept, ListsInv, FilesInv, RelocInv, FiledInv, ItemsInv,
           GeometryInv', DataAligned', NoOverwrite', DataInSegments', DataInside',
           [ConvNext]_<<vars, cvars>>
    PROVE  /\ FilesSound' /\ FilesOwned' /\ FilesAligned'
           /\ RelocInv' /\ FiledInv' /\ ItemsInv'
<1>1. FilesSound' /\ FilesOwned' /\ FilesAligned'
    BY FilesStaySound, FilesStayOwned DEF ConvInv
<1>2. DataKept
    BY DataKeptNext
<1>3. RelocInv'
    BY <1>2, RelocStep DEF StayInv
<1>4. FiledInv'
    BY FiledStep DEF FilesSound
<1> QED BY <1>1, <1>3, <1>4, ItemsStep

\* The extent items of the data agree with the extents that the files and ntfs.img have of
\* it: each has its item, of its place and length, and the item counts it and no other, even
\* though create_image and create_data_extent_items go over the lists at different times,
\* after relocation and the files have cut them, and each finds its own way from a copy to
\* the cluster it is of.  The files have no cluster in common, the data that is rewritten
\* starts with a cluster of its file, and the mirrors of the superblock lie behind the
\* reserved area.
THEOREM VolumesReferenced ==
    ASSUME WholeStripes, WholeWords, ClusterBitmaps, WholeClusters, BootInUse, WholeBitmap,
           WholeSectors, BitsInBitmap, SuperblockReserved, EndClear, LastSegmentUsed,
           SupersOnStripes, MirrorsBehind
    PROVE  FilesSound /\ FilesOwned /\ FilesAligned /\ ConvSpec => []ExtentsReferenced
<1>1. ConvInit => /\ AlignedInv /\ RunsInv /\ ImageInv /\ SentKept /\ FilesInv
                  /\ DeviceInv /\ DataInSegments /\ ListsInv /\ StayInv
                  /\ RelocInv /\ FiledInv /\ ItemsInv
    BY InitAligned, InitRuns, InitImage, InitSent, InitFiles, InitDevice, InitInSegments,
       InitLists, InitStay, InitReloc, InitItems DEF ConvInit
<1>2. ConvInv /\ AlignedInv /\ [ConvNext]_<<vars, cvars>> => AlignedInv'
    BY ConvAligned
<1>3. ConvInv => NoOverwrite
    BY LocatedNotGranted DEF ConvInv
<1>4. AlignedInv => DataAligned
    BY DEF AlignedInv
<1>5. /\ ConvInv /\ RunsInv /\ DataAligned' /\ NoOverwrite' /\ [ConvNext]_<<vars, cvars>>
      => RunsInv'
    BY RunsStep
<1>6. /\ ConvInv /\ GeometryInv /\ RunsInv /\ ImageInv /\ DataInside' /\ DataAligned'
      /\ NoOverwrite' /\ [ConvNext]_<<vars, cvars>>
      => ImageInv'
    BY ImageStep
<1>7. /\ ConvInv /\ GeometryInv /\ RunsInv /\ SentKept /\ DataInside' /\ DataAligned'
      /\ NoOverwrite' /\ [ConvNext]_<<vars, cvars>>
      => SentKept'
    BY SentStep
<1>8. /\ ConvInv /\ GeometryInv /\ RunsInv /\ FilesInv /\ DataInside' /\ [ConvNext]_<<vars, cvars>>
      => FilesInv'
    BY FilesStep
<1>9. ConvInv /\ DeviceInv /\ [ConvNext]_<<vars, cvars>> => DeviceInv'
    BY DeviceStep
<1>10. ConvInv /\ DeviceInv /\ DataInSegments /\ [ConvNext]_<<vars, cvars>> => DataInSegments'
    BY InSegmentsStep
<1>11. /\ ConvInv /\ RunsInv /\ ListsInv /\ GeometryInv' /\ DataAligned' /\ NoOverwrite'
       /\ DataInSegments' /\ DataInside' /\ [ConvNext]_<<vars, cvars>>
       => ListsInv'
    BY ListsStep
<1>12. /\ ConvInv /\ GeometryInv /\ RunsInv /\ ImageInv /\ StayInv /\ NoOverwrite' /\ DataAligned'
       /\ [ConvNext]_<<vars, cvars>>
       => StayInv'
    BY StayStep
<1>13. /\ FilesSound /\ FilesOwned /\ FilesAligned /\ ConvInv /\ GeometryInv /\ StayInv
       /\ RunsInv /\ ImageInv /\ SentKept /\ ListsInv /\ FilesInv /\ RelocInv /\ FiledInv
       /\ ItemsInv /\ GeometryInv' /\ DataAligned' /\ NoOverwrite' /\ DataInSegments'
       /\ DataInside' /\ [ConvNext]_<<vars, cvars>>
       => /\ FilesSound' /\ FilesOwned' /\ FilesAligned'
          /\ RelocInv' /\ FiledInv' /\ ItemsInv'
    BY ReferencedStep
<1>14. /\ ConvInv /\ StayInv /\ RunsInv /\ ImageInv /\ ListsInv /\ RelocInv /\ FiledInv
       /\ ItemsInv
       => ExtentsReferenced
    <2>1. ASSUME ~ ImageDone PROVE ExtentsReferenced
        BY <2>1 DEF ExtentsReferenced, RefsDone
    <2>2. ASSUME Finished, ItemsInv PROVE ExtentsReferenced
        BY <2>2, ReferencedNow
    <2> QED BY <2>1, <2>2 DEF Finished, StayInv
<1> QED BY <1>1, <1>2, <1>3, <1>4, <1>5, <1>6, <1>7, <1>8, <1>9, <1>10, <1>11, <1>12, <1>13,
           <1>14, ConversionInvariant, ConvDataInside, PTL DEF ConvSpec

-----------------------------------------------------------------------------
(* What the conversion leaves behind. *)

\* An extent that is not in its place is a copy of a cluster, in no place that NTFS used.
Copied(e) ==
    /\ e.addr \in Nat /\ e.pos \in Nat /\ e.length = ClusterSize
    /\ Extent(e.pos, e.length) \subseteq NtfsUnits
    /\ Extent(e.addr, e.length) \subseteq DOMAIN disk \ NtfsUnits
    /\ \A j \in 0 .. e.length - 1 : disk[e.addr + j] = Ntfs(e.pos + j)

\* Each unit NTFS used is in the image, as it was if it is in its place.
Sealed ==
    /\ \A u \in NtfsUnits : \E e \in img_extents :
          u \in Extent(e.pos, e.length) /\ (e.addr = e.pos => disk[u] = Ntfs(u))
    /\ \A e \in NotInPlace : Copied(e)

LEMMA SealedUnits ==
    ASSUME ConvInv, RunsInv, ImageInv, ImageFaithful, ImageDone, NEW u \in NtfsUnits
    PROVE  \E e \in img_extents :
               u \in Extent(e.pos, e.length) /\ (e.addr = e.pos => disk[u] = Ntfs(u))
<1> DEFINE Found == {x \in img_extents : x.owner = Image /\ u \in Extent(x.pos, x.length)}
           At(e) == e.addr + u - e.pos
           Places == {At(e) : e \in Found}
<1>1. Cardinality(Places) = 1 /\ \A v \in Places : v \in DOMAIN disk /\ disk[v] = Ntfs(u)
    BY DEF ImageFaithful, Reads
<1>2. Places # {}
    <2>1. Cardinality({}) = 0
        BY FS_EmptySet
    <2>2. Cardinality(Places) # 0
        BY <1>1
    <2> HIDE DEF Places
    <2> QED BY <2>1, <2>2
<1>3. PICK e \in Found : disk[At(e)] = Ntfs(u)
    <2>1. PICK v \in Places : disk[v] = Ntfs(u)
        BY <1>1, <1>2
    <2>2. PICK e \in Found : v = At(e)
        BY <2>1
    <2> QED BY <2>1, <2>2
<1>4. ASSUME e.addr = e.pos PROVE At(e) = u
    <2>1. img_extents = ImageItems
        BY DEF ImageInv, ImageMade
    <2>2. PICK r \in AllRuns : e = ImageExtent(r)
        BY <2>1 DEF ImageItems
    <2>3. r.offset \in Nat
        BY <2>2, MemberEntries, EntryFields DEF RunsInv, Listed, AllRuns, Members
    <2>4. e.pos = r.offset * ClusterSize
        BY <2>2 DEF ImageExtent, Extents
    <2>5. e.pos \in Int /\ u \in Int
        BY <2>3, <2>4, ConversionAssumption DEF NtfsUnits, ConvInv, OnlyGrantedWritten
    <2> QED BY <1>4, <2>5
<1> QED BY <1>3, <1>4

LEMMA SealedCopies ==
    ASSUME WholeWords, ClusterBitmaps, WholeBitmap, WholeSectors, ConvInv, RunsInv, ImageInv,
           ImageDone, NEW e \in NotInPlace
    PROVE  Copied(e)
<1>1. img_extents = ImageItems /\ DOMAIN disk = 0 .. DeviceSize - 1
    BY DEF ImageInv, ImageMade, ConvInv, OnlyGrantedWritten, WholeSectors
<1>2. PICK r \in AllRuns : ~ r.relocated /\ ~ r.not_in_img /\ e = ImageExtent(r)
    BY <1>1 DEF NotInPlace, ImageItems
<1>3. PICK s \in Segments : r \in Members(runs[s])
    BY DEF AllRuns, Members
<1>4. runs \in [Segments -> Seq(Entries)]
    BY DEF RunsInv, Listed
<1>5. r \in Entries /\ r.offset \in Nat
    BY <1>3, <1>4, MemberEntries, EntryFields
<1>6. /\ e.pos = r.offset * ClusterSize /\ e.length = r.length * ClusterSize
      /\ e.addr = (IF r.inode = dummy_inode THEN MovedTo(r.offset) ELSE r.offset) * ClusterSize
    BY <1>2 DEF ImageExtent, Extents
<1>7. r.inode = dummy_inode
    BY <1>6 DEF NotInPlace
<1>8. r.length = 1 /\ r.offset \in Moved /\ r.offset \in ClustersInUse
    <2>1. EntryTells(r, s, ClustersInUse, Moved, step = "protect")
        BY <1>3 DEF ImageInv, EntriesKept, EntriesTell, ImageDone
    <2> QED BY <1>2, <1>7, <2>1 DEF EntryTells, TellsOfMoves
<1> DEFINE k == r.offset
           n == MovedTo(k)
<1>9. k \in Nat /\ n \in Nat /\ Holds(n, k)
    BY <1>5, <1>8, MovedToType DEF RunsInv, ImageInv, CopiesKept, CopyKept
<1>10. k * ClusterSize \in in_use /\ k * ClusterSize + ClusterSize <= DeviceSize
    <2>1. k * ClusterSize \in in_use /\ k * ClusterSize < DeviceSize
        BY <1>8, InUseClusters
    <2> QED BY <1>9, <2>1, ClusterOnDevice
<1> HIDE DEF k, n
<1>11. e.pos = k * ClusterSize /\ e.addr = n * ClusterSize /\ e.length = ClusterSize
    BY <1>6, <1>7, <1>8 DEF k, n
<1>12. k * ClusterSize \in Nat /\ n * ClusterSize \in Nat
    BY <1>9
<1>13. Extent(k * ClusterSize, ClusterSize) \subseteq NtfsUnits
    <2>1. Extent(k * ClusterSize, ClusterSize) \subseteq DOMAIN disk
        BY <1>1, <1>10, <1>12 DEF Extent
    <2> QED BY <1>10, <2>1 DEF NtfsUnits, ClusterSpace
<1>14. Extent(n * ClusterSize, ClusterSize) \cap NtfsUnits = {}
    <2>1. DataGranted \subseteq Granted
        BY DEF DataGranted, DataAllocations, Granted
    <2> QED BY <1>9, <2>1, NtfsNotGranted DEF Holds
<1>15. /\ Extent(n * ClusterSize, ClusterSize) \subseteq DOMAIN disk
       /\ \A j \in 0 .. ClusterSize - 1 :
             disk[(n * ClusterSize) + j] = Ntfs((k * ClusterSize) + j)
    BY <1>9 DEF Holds, Carries
<1> QED BY <1>11, <1>12, <1>13, <1>14, <1>15 DEF Copied

LEMMA SealedNow ==
    ASSUME WholeWords, ClusterBitmaps, WholeClusters, WholeBitmap, WholeSectors, BitsInBitmap,
           SuperblockReserved, ConvInv, RunsInv, ImageInv, step \in {"supers", "done"}
    PROVE  Sealed
<1>1. ImageDone
    BY DEF ImageDone
<1>2. ImageFaithful
    BY ImageHolds
<1> QED BY <1>1, <1>2, SealedUnits, SealedCopies DEF Sealed

\* Before the superblocks are written there is none to be seen.
LEMMA UnseenNow ==
    ASSUME ConvInv, GeometryInv, WholeSectors, step \notin {"supers", "done"}
    PROVE  \A sb \in SuperAddrs \cap DOMAIN disk : disk[sb] # Super
<1>1. SUFFICES ASSUME NEW sb \in SuperAddrs, sb \in DOMAIN disk PROVE disk[sb] # Super
    OBVIOUS
<1>2. sb \in SuperSpace(0, DeviceSize)
    <2>1. sb \in Nat /\ sb < DeviceSize /\ StripeLen \in Nat \ {0}
        BY <1>1 DEF ConvInv, OnlyGrantedWritten, WholeSectors
    <2> DEFINE Part(x) == Extent(x, StripeLen) \cap Extent(0, DeviceSize)
    <2>2. sb \in Part(sb)
        BY <2>1 DEF Extent
    <2>3. SuperSpace(0, DeviceSize) = UNION {Part(x) : x \in SuperAddrs}
        BY DEF SuperSpace
    <2> HIDE DEF Part
    <2> QED BY <1>1, <2>2, <2>3
<1>3. sb \notin Granted
    BY <1>2 DEF GeometryInv, AvoidsSuperblocks
<1>4. disk[sb] = Ntfs(sb)
    BY <1>1, <1>3 DEF ConvInv, OnlyGrantedWritten
<1> QED BY <1>4 DEF Ntfs, Super

-----------------------------------------------------------------------------
(* What is written back. *)

\* What is held of an extent is what NTFS had at its position.
RecordOf(e) == [off |-> e.pos, data |-> [j \in 0 .. e.length - 1 |-> Ntfs(e.pos + j)]]

HomeOf(e) == Extent(e.pos, e.length)

HeldRight ==
    /\ held \in Seq({RecordOf(e) : e \in NotInPlace})
    /\ \A e \in NotInPlace :
          \/ \A u \in HomeOf(e) : disk[u] = Ntfs(u)
          \/ \E i \in DOMAIN held : held[i] = RecordOf(e)

OpenModes == {"stopped", "used", "interrupted"}

RollbackInv ==
    /\ IsFiniteSet(DOMAIN after)
    /\ mode # "convert" =>
          /\ DOMAIN disk = 0 .. OrigSize - 1
          /\ mode \in OpenModes \cup {"refused", "writing", "restored"}
          /\ step \in {"supers", "done"} => Sealed
          /\ step \notin {"supers", "done"} =>
                /\ mode \in {"stopped", "refused"}
                /\ \A sb \in SuperAddrs \cap DOMAIN disk : disk[sb] # Super
          /\ mode = "writing" => HeldRight
          /\ mode = "restored" => NtfsWhole

LEMMA InitRollback == RollbackInit => RollbackInv
<1> SUFFICES ASSUME RollbackInit PROVE RollbackInv
    OBVIOUS
<1>1. mode = "convert"
    BY DEF RollbackInit
<1>2. PICK n \in Trailing : after = [u \in Extent(OrigSize, n) |-> Ntfs(u)]
    BY DEF RollbackInit
<1>3. n \in Nat /\ OrigSize \in Nat
    BY RollbackAssumption, ConversionAssumption
<1>4. IsFiniteSet(OrigSize .. OrigSize + (n - 1))
    BY <1>3, FS_Interval
<1>5. DOMAIN after \subseteq OrigSize .. OrigSize + (n - 1)
    BY <1>2, <1>3 DEF Extent
<1>6. IsFiniteSet(DOMAIN after)
    BY <1>4, <1>5, FS_Subset
<1> QED BY <1>1, <1>6 DEF RollbackInv

\* What the conversion leaves behind when it stops.
LEMMA StopRollback ==
    ASSUME WholeWords, ClusterBitmaps, WholeClusters, WholeBitmap, WholeSectors, BitsInBitmap,
           SuperblockReserved, ConvInv, GeometryInv, RunsInv, ImageInv, RollbackInv, Stop
    PROVE  RollbackInv'
<1>1. /\ mode' = "stopped" /\ UNCHANGED <<in_use, step, disk, img_extents, after>>
      /\ UNCHANGED <<vars, cvars>>
    BY DEF Stop, vars, cvars, memory
<1>2. DOMAIN disk = 0 .. OrigSize - 1
    BY DEF ConvInv, OnlyGrantedWritten
<1>3. step \in {"supers", "done"} => Sealed
    BY SealedNow
<1>4. Sealed' = Sealed
    BY <1>1 DEF Sealed, Copied, NotInPlace, NtfsUnits, ClusterSpace
<1>5. step \notin {"supers", "done"} =>
          \A sb \in SuperAddrs \cap DOMAIN disk : disk[sb] # Super
    BY UnseenNow
<1> QED BY <1>1, <1>2, <1>3, <1>4, <1>5 DEF RollbackInv, OpenModes

\* The volume is used: what the image refers to is left alone.
LEMMA UseRollback ==
    ASSUME SuperblockReserved, RollbackInv, UseVolume
    PROVE  RollbackInv'
<1> DEFINE InImage == UNION {Extent(e.addr, e.length) : e \in img_extents}
<1>1. /\ mode = "stopped" /\ mode' = "used" /\ disk[PrimarySuper] = Super
      /\ UNCHANGED <<in_use, step, img_extents, after>>
    BY DEF UseVolume, vars, memory
<1>2. DOMAIN disk' = DOMAIN disk /\ \A u \in DOMAIN disk : u \in InImage => disk'[u] = disk[u]
    BY DEF UseVolume
<1>3. DOMAIN disk = 0 .. OrigSize - 1 /\ IsFiniteSet(DOMAIN after)
    BY <1>1 DEF RollbackInv
<1>4. step \in {"supers", "done"} /\ Sealed
    <2> DEFINE p == PrimarySuper
    <2>1. p \in SuperAddrs /\ p \in Nat /\ p < Reserved
        BY PrimaryIsReserved
    <2> HIDE DEF p
    <2>2. p \in DOMAIN disk
        BY <1>3, <2>1, ConversionAssumption
    <2>3. disk[p] = Super
        BY <1>1 DEF p
    <2> QED BY <1>1, <2>1, <2>2, <2>3 DEF RollbackInv
<1>5. ASSUME NEW e \in img_extents, NEW u \in Extent(e.addr, e.length), u \in DOMAIN disk
      PROVE  disk'[u] = disk[u]
    <2>1. u \in InImage
        BY <1>5
    <2> HIDE DEF InImage
    <2> QED BY <1>2, <1>5, <2>1
<1> HIDE DEF InImage
<1>6. NtfsUnits' = NtfsUnits /\ NotInPlace' = NotInPlace
    BY <1>1, <1>2 DEF NtfsUnits, ClusterSpace, NotInPlace
<1>7. ASSUME NEW u \in NtfsUnits
      PROVE  \E e \in img_extents :
                u \in Extent(e.pos, e.length) /\ (e.addr = e.pos => disk'[u] = Ntfs(u))
    <2>1. PICK e \in img_extents :
             u \in Extent(e.pos, e.length) /\ (e.addr = e.pos => disk[u] = Ntfs(u))
        BY <1>4 DEF Sealed
    <2>2. u \in DOMAIN disk
        BY DEF NtfsUnits
    <2>3. e.addr = e.pos => disk'[u] = Ntfs(u)
        BY <1>5, <2>1, <2>2
    <2> QED BY <2>1, <2>3
<1>8. ASSUME NEW e \in NotInPlace PROVE Copied(e)'
    <2>1. Copied(e) /\ e \in img_extents
        BY <1>4 DEF Sealed, NotInPlace
    <2>2. ASSUME NEW j \in 0 .. e.length - 1 PROVE disk'[e.addr + j] = disk[e.addr + j]
        <3>1. e.addr + j \in Extent(e.addr, e.length)
            BY <2>1 DEF Copied, Extent
        <3> QED BY <1>5, <2>1, <3>1 DEF Copied
    <2> QED BY <1>2, <1>6, <2>1, <2>2 DEF Copied
<1>9. Sealed'
    BY <1>1, <1>6, <1>7, <1>8 DEF Sealed
<1> QED BY <1>1, <1>2, <1>3, <1>4, <1>9 DEF RollbackInv, OpenModes

\* A record that is written back puts what NTFS had where NTFS had it.
LEMMA StoreRecord ==
    ASSUME NEW e, e.pos \in Nat, e.length \in Nat
    PROVE  Store(disk, RecordOf(e)) =
              [u \in DOMAIN disk |-> IF u - e.pos \in 0 .. e.length - 1
                                     THEN Ntfs(e.pos + (u - e.pos)) ELSE disk[u]]
BY DEF Store, RecordOf

LEMMA WriteBackUnits ==
    ASSUME NEW e, Copied(e), DOMAIN disk = 0 .. OrigSize - 1, disk' = Store(disk, RecordOf(e))
    PROVE  /\ DOMAIN disk' = DOMAIN disk
           /\ \A u \in DOMAIN disk :
                 disk'[u] = IF u \in HomeOf(e) THEN Ntfs(u) ELSE disk[u]
<1>1. e.pos \in Nat /\ e.length \in Nat
    BY DEF Copied
<1>2. disk' = [u \in DOMAIN disk |-> IF u - e.pos \in 0 .. e.length - 1
                                     THEN Ntfs(e.pos + (u - e.pos)) ELSE disk[u]]
    BY <1>1, StoreRecord
<1>3. ASSUME NEW u \in DOMAIN disk
      PROVE  /\ u - e.pos \in 0 .. e.length - 1 <=> u \in HomeOf(e)
             /\ e.pos + (u - e.pos) = u
    BY <1>1, ConversionAssumption DEF HomeOf, Extent
<1> QED BY <1>2, <1>3

\* What is read is what NTFS had, and all that is not in its place is read.
LEMMA ReadRollback ==
    ASSUME RollbackInv, ReadImage
    PROVE  RollbackInv'
<1> DEFINE P == {e.pos : e \in NotInPlace}
           q == Ascending(P)
<1>1. /\ mode \in OpenModes /\ mode' = "writing" /\ Seen # {}
      /\ UNCHANGED <<in_use, step, disk, img_extents, after>>
      /\ held' = [i \in DOMAIN q |-> Record(ExtentAt(q[i]))]
    BY DEF ReadImage, Openable, OpenModes, vars, cvars, memory
<1>2. DOMAIN disk = 0 .. OrigSize - 1 /\ IsFiniteSet(DOMAIN after)
    BY <1>1 DEF RollbackInv, OpenModes
<1>3. step \in {"supers", "done"} /\ Sealed
    <2>1. \E sb \in SuperAddrs \cap DOMAIN disk : disk[sb] = Super
        BY <1>1 DEF Seen
    <2> QED BY <1>1, <2>1 DEF RollbackInv, OpenModes
<1>4. ASSUME NEW e \in NotInPlace
      PROVE  /\ e.pos \in DOMAIN disk /\ e.pos \in Nat /\ e.length = ClusterSize
             /\ Record(e) = RecordOf(e)
    <2>1. Copied(e)
        BY <1>3 DEF Sealed
    <2>2. e.pos \in Extent(e.pos, e.length)
        BY <2>1 DEF Copied, Extent
    <2>3. e.pos \in DOMAIN disk
        BY <2>1, <2>2 DEF Copied, NtfsUnits
    <2>4. [j \in 0 .. e.length - 1 |-> disk[e.addr + j]]
             = [j \in 0 .. e.length - 1 |-> Ntfs(e.pos + j)]
        BY <2>1 DEF Copied
    <2> QED BY <2>1, <2>3, <2>4 DEF Copied, Record, RecordOf, Home
<1>5. q \in Seq(Nat) /\ Range(q) = P
    <2>1. P \subseteq 0 .. OrigSize - 1
        BY <1>2, <1>4
    <2>2. OrigSize \in Nat
        BY ConversionAssumption
    <2>3. IsFiniteSet(0 .. OrigSize - 1) /\ 0 .. OrigSize - 1 \subseteq Nat
        BY <2>2, FS_Interval
    <2> HIDE DEF P
    <2>4. IsFiniteSet(P)
        BY <2>1, <2>3, FS_Subset
    <2>5. P \in SUBSET Nat
        BY <2>1, <2>3
    <2> QED BY <2>4, <2>5, AscendingRange
<1>6. ASSUME NEW pos \in P
      PROVE  ExtentAt(pos) \in NotInPlace /\ ExtentAt(pos).pos = pos
    <2>1. \E e \in NotInPlace : e.pos = pos
        BY <1>6
    <2> QED BY <2>1, Zenon DEF ExtentAt
<1>7. ASSUME NEW i \in DOMAIN q
      PROVE  /\ ExtentAt(q[i]) \in NotInPlace /\ ExtentAt(q[i]).pos = q[i]
             /\ held'[i] = RecordOf(ExtentAt(q[i]))
    <2>1. q[i] \in P
        BY <1>5 DEF Range
    <2> HIDE DEF P, q
    <2>2. ExtentAt(q[i]) \in NotInPlace /\ ExtentAt(q[i]).pos = q[i]
        BY <1>6, <2>1
    <2>3. held'[i] = Record(ExtentAt(q[i]))
        BY <1>1
    <2> QED BY <1>4, <2>2, <2>3
<1> HIDE DEF q
<1>8. NotInPlace' = NotInPlace
    BY <1>1 DEF NotInPlace
<1>9. held' \in Seq({RecordOf(e) : e \in NotInPlace})
    <2> DEFINE R == {RecordOf(e) : e \in NotInPlace}
               n == Len(q)
               At(i) == Record(ExtentAt(q[i]))
    <2>1. DOMAIN q = 1 .. n /\ n \in Nat
        BY <1>5
    <2>2. \A i \in 1 .. n : At(i) \in R
        <3>1. ASSUME NEW i \in 1 .. n PROVE At(i) \in R
            <4>1. At(i) = RecordOf(ExtentAt(q[i])) /\ ExtentAt(q[i]) \in NotInPlace
                BY <1>4, <1>7, <2>1
            <4> HIDE DEF At
            <4> QED BY <4>1
        <3> QED BY <3>1
    <2>3. held' = [i \in 1 .. n |-> At(i)]
        BY <1>1, <2>1
    <2> HIDE DEF R, n, At
    <2>4. held' \in Seq(R)
        BY <2>1, <2>2, <2>3
    <2> QED BY <2>4 DEF R
<1>10. ASSUME NEW e \in NotInPlace PROVE \E i \in DOMAIN held' : held'[i] = RecordOf(e)
    <2>1. e.pos \in Range(q)
        BY <1>5
    <2>2. PICK i \in DOMAIN q : q[i] = e.pos
        BY <2>1 DEF Range
    <2> DEFINE d == ExtentAt(q[i])
    <2>3. d \in NotInPlace /\ d.pos = e.pos /\ held'[i] = RecordOf(d)
        BY <1>7, <2>2
    <2> HIDE DEF d
    <2>4. d.length = e.length
        BY <1>4, <2>3
    <2>5. RecordOf(d) = RecordOf(e)
        BY <2>3, <2>4 DEF RecordOf
    <2> QED BY <1>1, <2>3, <2>5
<1>11. HeldRight'
    BY <1>8, <1>9, <1>10 DEF HeldRight, RecordOf
<1>12. Sealed'
    BY <1>1, <1>3, <1>8 DEF Sealed, Copied, NtfsUnits, ClusterSpace
<1> QED BY <1>1, <1>2, <1>3, <1>11, <1>12 DEF RollbackInv, OpenModes

\* What is held is not more than the partition, and it goes where NTFS had it.
LEMMA HeldHead ==
    ASSUME RollbackInv, mode = "writing", held # <<>>
    PROVE  /\ step \in {"supers", "done"} /\ Sealed /\ HeldRight
           /\ DOMAIN disk = 0 .. OrigSize - 1
           /\ \E e \in NotInPlace :
                 /\ Copied(e) /\ Head(held) = RecordOf(e)
                 /\ ~ (Head(held).off + Cardinality(DOMAIN Head(held).data) > PartitionSize)
<1>1. /\ step \in {"supers", "done"} /\ Sealed /\ HeldRight /\ IsFiniteSet(DOMAIN after)
      /\ DOMAIN disk = 0 .. OrigSize - 1
    BY DEF RollbackInv
<1>2. PICK e \in NotInPlace : Head(held) = RecordOf(e)
    <2>1. Head(held) \in {RecordOf(e) : e \in NotInPlace}
        BY <1>1 DEF HeldRight
    <2> QED BY <2>1
<1>3. Copied(e)
    BY <1>1 DEF Sealed
<1>4. /\ e.pos \in Nat /\ e.length = ClusterSize /\ e.length \in Nat \ {0}
      /\ Extent(e.pos, e.length) \subseteq 0 .. OrigSize - 1
    BY <1>1, <1>3 DEF Copied, NtfsUnits
<1>5. e.pos + e.length <= OrigSize
    <2>1. e.pos + (e.length - 1) \in Extent(e.pos, e.length)
        BY <1>4 DEF Extent
    <2>2. OrigSize \in Nat
        BY ConversionAssumption
    <2> QED BY <1>4, <2>1, <2>2
<1>6. Cardinality(0 .. e.length - 1) = e.length
    <2>1. 0 \in Int /\ e.length - 1 \in Int
        BY <1>4
    <2>2. Cardinality(0 .. e.length - 1)
             = IF 0 > e.length - 1 THEN 0 ELSE (e.length - 1) - 0 + 1
        BY <2>1, FS_Interval
    <2> QED BY <1>4, <2>2
<1>7. RecordOf(e).off = e.pos /\ DOMAIN RecordOf(e).data = 0 .. e.length - 1
    BY DEF RecordOf
<1>8. PartitionSize >= OrigSize
    <2>1. Cardinality(DOMAIN after) \in Nat /\ OrigSize \in Nat
        BY <1>1, FS_CardinalityType, ConversionAssumption
    <2> QED BY <2>1 DEF PartitionSize
<1>9. PartitionSize \in Int /\ OrigSize \in Int
    <2>1. Cardinality(DOMAIN after) \in Nat /\ OrigSize \in Nat
        BY <1>1, FS_CardinalityType, ConversionAssumption
    <2> QED BY <2>1 DEF PartitionSize
<1>10. ~ (Head(held).off + Cardinality(DOMAIN Head(held).data) > PartitionSize)
    BY <1>2, <1>4, <1>5, <1>6, <1>7, <1>8, <1>9
<1> QED BY <1>1, <1>2, <1>3, <1>10

\* What is written back does not touch the copies.
LEMMA WriteBackSealed ==
    ASSUME Sealed, NEW e \in NotInPlace, Copied(e), DOMAIN disk = 0 .. OrigSize - 1,
           disk' = Store(disk, RecordOf(e)), UNCHANGED <<in_use, img_extents>>
    PROVE  /\ Sealed' /\ NotInPlace' = NotInPlace /\ NtfsUnits' = NtfsUnits
           /\ \A u \in NtfsUnits : disk'[u] = IF u \in HomeOf(e) THEN Ntfs(u) ELSE disk[u]
<1>1. /\ DOMAIN disk' = DOMAIN disk
      /\ \A u \in DOMAIN disk : disk'[u] = IF u \in HomeOf(e) THEN Ntfs(u) ELSE disk[u]
    BY WriteBackUnits
<1>2. NotInPlace' = NotInPlace /\ NtfsUnits' = NtfsUnits
    BY <1>1 DEF NotInPlace, NtfsUnits, ClusterSpace
<1>3. HomeOf(e) \subseteq NtfsUnits
    BY DEF Copied, HomeOf
<1>4. ASSUME NEW u \in NtfsUnits
      PROVE  disk'[u] = IF u \in HomeOf(e) THEN Ntfs(u) ELSE disk[u]
    BY <1>1 DEF NtfsUnits
<1>5. ASSUME NEW u \in NtfsUnits
      PROVE  \E d \in img_extents :
                u \in Extent(d.pos, d.length) /\ (d.addr = d.pos => disk'[u] = Ntfs(u))
    BY <1>4 DEF Sealed
<1>6. ASSUME NEW d \in NotInPlace PROVE Copied(d)'
    <2>1. Copied(d)
        BY DEF Sealed
    <2>2. ASSUME NEW j \in 0 .. d.length - 1 PROVE disk'[d.addr + j] = disk[d.addr + j]
        <3>1. d.addr + j \in Extent(d.addr, d.length)
            BY <2>1 DEF Copied, Extent
        <3>2. d.addr + j \in DOMAIN disk /\ d.addr + j \notin HomeOf(e)
            BY <1>3, <2>1, <3>1 DEF Copied
        <3> QED BY <1>1, <3>2
    <2> QED BY <1>1, <1>2, <2>1, <2>2 DEF Copied
<1>7. Sealed'
    BY <1>2, <1>5, <1>6 DEF Sealed
<1> QED BY <1>2, <1>4, <1>7

LEMMA WriteBackRollback ==
    ASSUME RollbackInv, WriteBack
    PROVE  /\ RollbackInv'
           /\ \A u \in NtfsUnits : disk[u] = Ntfs(u) => disk'[u] = Ntfs(u)
<1>1. /\ mode = "writing" /\ held # <<>> /\ disk' = Store(disk, Head(held))
      /\ held' = Tail(held) /\ UNCHANGED <<in_use, step, img_extents>>
      /\ DOMAIN after' = DOMAIN after
    BY DEF WriteBack, Store, vars, memory
<1>2. /\ step \in {"supers", "done"} /\ Sealed /\ HeldRight /\ DOMAIN disk = 0 .. OrigSize - 1
    BY <1>1, HeldHead
<1>3. PICK e \in NotInPlace :
         /\ Copied(e) /\ Head(held) = RecordOf(e)
         /\ ~ (Head(held).off + Cardinality(DOMAIN Head(held).data) > PartitionSize)
    BY <1>1, HeldHead
<1>4. mode' = "writing"
    BY <1>1, <1>3 DEF WriteBack
<1>5. /\ Sealed' /\ NotInPlace' = NotInPlace /\ NtfsUnits' = NtfsUnits
      /\ \A u \in NtfsUnits : disk'[u] = IF u \in HomeOf(e) THEN Ntfs(u) ELSE disk[u]
    BY <1>1, <1>2, <1>3, WriteBackSealed
<1>6. held \in Seq({RecordOf(d) : d \in NotInPlace})
    BY <1>2 DEF HeldRight
<1>7. /\ held' \in Seq({RecordOf(d) : d \in NotInPlace})
      /\ \A i \in DOMAIN held : held[i] = Head(held) \/ (i - 1 \in DOMAIN held' /\ held'[i - 1] = held[i])
    BY <1>1, <1>6
<1>8. ASSUME NEW d \in NotInPlace
      PROVE  \/ \A u \in HomeOf(d) : disk'[u] = Ntfs(u)
             \/ \E i \in DOMAIN held' : held'[i] = RecordOf(d)
    <2>1. HomeOf(d) \subseteq NtfsUnits
        BY <1>2 DEF Sealed, Copied, HomeOf
    <2>2. CASE \A u \in HomeOf(d) : disk[u] = Ntfs(u)
        BY <1>5, <2>1, <2>2
    <2>3. ASSUME NEW i \in DOMAIN held, held[i] = RecordOf(d)
          PROVE  \/ \A u \in HomeOf(d) : disk'[u] = Ntfs(u)
                 \/ \E j \in DOMAIN held' : held'[j] = RecordOf(d)
        <3>1. CASE held[i] = Head(held)
            <4>1. RecordOf(d) = RecordOf(e)
                BY <1>3, <2>3, <3>1
            <4>2. d.pos = e.pos
                BY <4>1 DEF RecordOf
            <4>3. d.length = e.length
                BY <1>2, <1>3 DEF Sealed, Copied
            <4>4. HomeOf(d) = HomeOf(e)
                BY <4>2, <4>3 DEF HomeOf
            <4> QED BY <1>5, <2>1, <4>4
        <3>2. CASE held[i] # Head(held)
            BY <1>7, <2>3, <3>2
        <3> QED BY <3>1, <3>2
    <2> QED BY <1>2, <2>2, <2>3 DEF HeldRight
<1>9. HeldRight'
    BY <1>5, <1>7, <1>8 DEF HeldRight, RecordOf, HomeOf
<1>10. DOMAIN disk' = 0 .. OrigSize - 1
    BY <1>1, <1>2 DEF Store
<1>11. IsFiniteSet(DOMAIN after')
    BY <1>1 DEF RollbackInv
<1>12. RollbackInv'
    BY <1>1, <1>2, <1>4, <1>5, <1>9, <1>10, <1>11 DEF RollbackInv
<1> QED BY <1>5, <1>12

\* All has been written back.
LEMMA FinishRollback ==
    ASSUME RollbackInv, Finish
    PROVE  RollbackInv'
<1>1. /\ mode = "writing" /\ held = <<>> /\ mode' = "restored"
      /\ UNCHANGED <<in_use, step, disk, img_extents, after>>
    BY DEF Finish, vars, cvars, memory
<1>2. /\ step \in {"supers", "done"} /\ Sealed /\ HeldRight /\ DOMAIN disk = 0 .. OrigSize - 1
      /\ IsFiniteSet(DOMAIN after)
    BY <1>1 DEF RollbackInv
<1>3. ASSUME NEW u \in NtfsUnits PROVE disk[u] = Ntfs(u)
    <2>1. PICK e \in img_extents :
             u \in Extent(e.pos, e.length) /\ (e.addr = e.pos => disk[u] = Ntfs(u))
        BY <1>2 DEF Sealed
    <2>2. CASE e.addr # e.pos
        <3>1. e \in NotInPlace
            BY <2>2 DEF NotInPlace
        <3>2. DOMAIN held = {}
            BY <1>1
        <3>3. \A v \in HomeOf(e) : disk[v] = Ntfs(v)
            BY <1>2, <3>1, <3>2 DEF HeldRight
        <3> QED BY <2>1, <3>3 DEF HomeOf
    <2> QED BY <2>1, <2>2
<1>4. NtfsWhole'
    BY <1>1, <1>3 DEF NtfsWhole, NtfsUnits, ClusterSpace
<1>5. Sealed'
    BY <1>1, <1>2 DEF Sealed, Copied, NotInPlace, NtfsUnits, ClusterSpace
<1> QED BY <1>1, <1>2, <1>4, <1>5 DEF RollbackInv

\* The volume stays as it is.
LEMMA QuietRollback ==
    ASSUME RollbackInv, mode # "convert",
           UNCHANGED <<in_use, step, disk, img_extents, after>>,
           \/ UNCHANGED <<mode, held>>
           \/ mode \in OpenModes /\ mode' = "refused" /\ UNCHANGED held
           \/ mode = "writing" /\ mode' = "interrupted"
    PROVE  RollbackInv'
<1>1. Sealed' = Sealed /\ NtfsWhole' = NtfsWhole
    BY DEF Sealed, Copied, NotInPlace, NtfsUnits, ClusterSpace, NtfsWhole
<1>2. UNCHANGED held => HeldRight' = HeldRight
    BY DEF HeldRight, NotInPlace, HomeOf, RecordOf
<1> QED BY <1>1, <1>2 DEF RollbackInv, OpenModes

LEMMA RollbackStep ==
    ASSUME SuperblockReserved, RollbackInv, mode # "convert", [RollbackNext]_<<vars, cvars, rvars>>
    PROVE  /\ RollbackInv' /\ mode' # "convert"
           /\ mode = "writing" => \A u \in NtfsUnits : disk[u] = Ntfs(u) => disk'[u] = Ntfs(u)
<1>1. CASE UseVolume
    BY <1>1, UseRollback DEF UseVolume
<1>2. CASE ReadImage
    BY <1>2, ReadRollback DEF ReadImage, Openable
<1>3. CASE WriteBack
    BY <1>3, WriteBackRollback DEF WriteBack
<1>4. CASE Finish
    BY <1>4, FinishRollback DEF Finish, cvars
<1>5. CASE Refuse \/ Interrupt \/ UNCHANGED <<vars, cvars, rvars>>
    <2>1. /\ UNCHANGED <<in_use, step, disk, img_extents, after>>
          /\ \/ UNCHANGED <<mode, held>>
             \/ mode \in OpenModes /\ mode' = "refused" /\ UNCHANGED held
             \/ mode = "writing" /\ mode' = "interrupted"
        BY <1>5 DEF Refuse, Interrupt, Openable, OpenModes, vars, cvars, rvars, memory
    <2> QED BY <2>1, QuietRollback DEF OpenModes
<1> QED BY <1>1, <1>2, <1>3, <1>4, <1>5 DEF RollbackNext, Convert, Stop

-----------------------------------------------------------------------------
(* The chunks of what the image refers to. *)

\* A segment with a cluster in use has become a chunk.
UseTaken == \A s \in SegmentsDone : LocatedIn(s) \cap space_list = {}

ChunksInv == AccountInv /\ UseTaken

LEMMA InitChunks == Init => ChunksInv
<1>1. ASSUME Init PROVE SegmentsDone = {}
    <2>1. seg = 0
        BY <1>1 DEF Init
    <2> QED BY <2>1 DEF SegmentsDone
<1> QED BY <1>1, InitAccount DEF ChunksInv, UseTaken

LEMMA ScanSegmentTakes ==
    ASSUME WholeStripes, IInv, UseTaken, ScanSegment
    PROVE  UseTaken'
<1>1. /\ seg \in Nat /\ seg' = seg + 1 /\ Base(seg) < DeviceSize /\ Base(seg) \in Nat
      /\ SegLength(seg) \in Nat /\ ChunkLength(seg) = SegLength(seg) /\ in_use' = in_use
    BY ScanSegmentShape, WholeSegments
<1>2. /\ space_list' \subseteq space_list
      /\ UsedClusters(seg) # {} =>
            space_list' = space_list \ Extent(Base(seg), SegLength(seg))
    BY <1>1, ScanSegmentShape
<1>3. ASSUME NEW s \in 0 .. DeviceSize, s < seg', Base(s) < DeviceSize, NEW c \in LocatedIn(s)
      PROVE  c \notin space_list'
    <2>1. CASE s < seg
        <3>1. s \in SegmentsDone
            BY <1>3, <2>1 DEF SegmentsDone
        <3> QED BY <1>2, <1>3, <3>1 DEF UseTaken
    <2>2. CASE s = seg
        <3>1. /\ \E k \in UsedClusters(s) : c = ClusterAddr(s, k)
              /\ c \in Nat /\ Base(s) <= c /\ c + ClusterSize <= Base(s) + SegLength(s)
            BY <1>1, <1>3, <2>2, LocatedIsUsed
        <3>2. UsedClusters(seg) # {}
            BY <2>2, <3>1
        <3>3. c \in Extent(Base(seg), SegLength(seg))
            BY <1>1, <2>2, <3>1 DEF Extent
        <3> QED BY <1>2, <3>2, <3>3
    <2> QED BY <1>1, <1>3, <2>1, <2>2
<1>4. \A s : LocatedIn(s)' = LocatedIn(s)
    BY <1>1 DEF LocatedIn
<1> QED BY <1>3, <1>4 DEF UseTaken, SegmentsDone

LEMMA CallTakes ==
    ASSUME IInv, UseTaken, NEW type, NEW size, NEW length, NEW counted,
           AllocatorCall(type, size, length, counted)
    PROVE  UseTaken'
<1>1. in_use' = in_use /\ seg' = seg /\ space_list' \subseteq space_list
    BY DEF AllocatorCall, Allocate, FromChunk, NewChunk, NoSpace, SpaceListRemove
<1>2. \A s : LocatedIn(s)' = LocatedIn(s)
    BY <1>1 DEF LocatedIn
<1>3. SegmentsDone' = SegmentsDone
    BY <1>1 DEF SegmentsDone
<1> QED BY <1>1, <1>2, <1>3 DEF UseTaken

LEMMA ChunksStep ==
    ASSUME WholeStripes, WholeWords, ConvInv, ChunksInv, [ConvNext]_<<vars, cvars>>
    PROVE  ChunksInv'
<1>1. /\ AccountInv /\ UseTaken /\ GeometryInv /\ SpaceCovered /\ NothingLeaks
      /\ IInv /\ GrantedAbove /\ StepPhase /\ Queues
    BY DEF ChunksInv, AccountInv, ConvInv
<1>2. GeometryInv'
    BY <1>1, ConvGeometry
<1>3. CASE ScanSegment
    BY <1>1, <1>2, <1>3, ScanSegmentAccount, ScanSegmentTakes DEF ChunksInv, AccountInv
<1>4. CASE ChunksKept
    <2>1. SpaceCovered' /\ NothingLeaks'
        BY <1>1, <1>4 DEF ChunksKept, SpaceCovered, NothingLeaks, Span, Taken, Granted, ClusterSpace
    <2>2. UseTaken'
        BY <1>1, <1>4 DEF ChunksKept, UseTaken, SegmentsDone, LocatedIn
    <2> QED BY <1>2, <2>1, <2>2 DEF ChunksInv, AccountInv
<1>5. ASSUME NEW type, NEW size, NEW length, NEW counted,
             AllocatorCall(type, size, length, counted)
      PROVE  ChunksInv'
    BY <1>1, <1>2, <1>5, CallAccount, CallTakes DEF ChunksInv, AccountInv
<1> QED BY <1>1, <1>3, <1>4, <1>5, ConvCases DEF Quiet, Calls

\* Once the segments are scanned a cluster in use after the reserved area is in a chunk.
LEMMA UsedInChunk ==
    ASSUME WholeWords, ClusterBitmaps, ChunksInv, phase # "scan",
           NEW c \in in_use, Reserved <= c, c < DeviceSize
    PROVE  HasChunk(c)
<1>1. TypeOK /\ ScanProgress /\ SpaceCovered /\ UseTaken
    BY DEF ChunksInv, AccountInv, GeometryInv, IInv
<1>2. c \in Nat /\ seg \in Nat /\ Base(seg) >= DeviceSize
    BY <1>1 DEF TypeOK, ScanProgress
<1>3. PICK s \in 0 .. DeviceSize : Base(s) < DeviceSize /\ c \in LocatedIn(s)
    BY <1>1, AllLocated
<1>4. s < seg
    <2>1. CASE seg <= s
        <3>1. Base(seg) <= Base(s)
            BY <1>2, <1>3, <2>1, BaseMonotone, BaseType
        <3> QED BY <1>2, <1>3, <3>1, BaseType
    <2> QED BY <1>2, <2>1
<1>5. s \in SegmentsDone
    BY <1>3, <1>4 DEF SegmentsDone
<1>6. c \notin space_list
    BY <1>1, <1>3, <1>5 DEF UseTaken
<1>7. c \in Reserved .. DeviceSize - 1
    BY <1>2
<1> QED BY <1>1, <1>6, <1>7 DEF SpaceCovered, Span, HasChunk

LEMMA GrantedInChunk ==
    ASSUME GeometryInv, NEW u \in Granted
    PROVE  HasChunk(u)
<1>1. PICK a \in allocated : u \in Extent(a.addr, a.length)
    BY DEF Granted
<1>2. PICK i \in DOMAIN chunks :
          Extent(a.addr, a.length) \subseteq Extent(chunks[i].start, chunks[i].length)
    BY DEF GeometryInv, InsideChunk
<1> QED BY <1>1, <1>2 DEF HasChunk

\* All of the image is in chunks.
LEMMA ImageInChunks ==
    ASSUME WholeWords, ClusterBitmaps, WholeBitmap, WholeSectors, BitsInBitmap, ConvInv,
           ChunksInv, RunsInv, ImageInv, ImageDone, NEW e \in img_extents
    PROVE  HasChunk(e.addr)
<1>1. img_extents = ImageItems /\ GeometryInv /\ TypeOK /\ phase # "scan"
    BY DEF ImageInv, ImageMade, ConvInv, IInv, ChunksInv, AccountInv, StepPhase, ImageDone
<1>2. PICK r \in AllRuns : ~ r.relocated /\ ~ r.not_in_img /\ e = ImageExtent(r)
    BY <1>1 DEF ImageItems
<1>3. PICK s \in Segments : r \in Members(runs[s])
    BY DEF AllRuns, Members
<1>4. runs \in [Segments -> Seq(Entries)] /\ Covered(runs[s]) \subseteq KnownClusters
    BY <1>3 DEF RunsInv, Listed
<1>5. r \in Entries /\ r.offset \in Nat /\ r.length \in Nat /\ r.length > 0
    BY <1>3, <1>4, MemberEntries, EntryFields
<1>6. r.offset \in Extent(r.offset, r.length)
    BY <1>5 DEF Extent
<1>7. e.addr = (IF r.inode = dummy_inode THEN MovedTo(r.offset) ELSE r.offset) * ClusterSize
    BY <1>2 DEF ImageExtent, Extents
<1>8. EntryTells(r, s, ClustersInUse, Moved, step = "protect")
    BY <1>3 DEF ImageInv, EntriesKept, EntriesTell, ImageDone
<1>9. CASE r.inode = dummy_inode
    <2> DEFINE k == r.offset
               n == MovedTo(k)
    <2>1. k \in Moved /\ k \in ClustersInUse
        BY <1>2, <1>8, <1>9 DEF EntryTells, TellsOfMoves
    <2>2. n \in Nat /\ Holds(n, k)
        BY <1>5, <2>1, MovedToType DEF RunsInv, ImageInv, CopiesKept, CopyKept
    <2> HIDE DEF n, k
    <2>3. n * ClusterSize \in Extent(n * ClusterSize, ClusterSize)
        BY <2>2 DEF Extent
    <2>4. n * ClusterSize \in Granted
        BY <2>2, <2>3 DEF Holds, DataGranted, DataAllocations, Granted
    <2>5. e.addr = n * ClusterSize
        BY <1>7, <1>9 DEF n, k
    <2> QED BY <1>1, <2>4, <2>5, GrantedInChunk
<1>10. CASE r.inode # dummy_inode
    <2> DEFINE k == r.offset
    <2>1. k \in KnownClusters /\ k \in Nat /\ e.addr = k * ClusterSize
        BY <1>3, <1>4, <1>5, <1>6, <1>7, <1>10 DEF Covered
    <2>2. CASE Extent(k * ClusterSize, ClusterSize) \subseteq Granted
        <3>1. k * ClusterSize \in Extent(k * ClusterSize, ClusterSize)
            BY <2>1 DEF Extent
        <3> QED BY <1>1, <2>1, <2>2, <3>1, GrantedInChunk
    <2>3. CASE k * ClusterSize \in in_use /\ k * ClusterSize < DeviceSize
        <3>1. PICK j \in ClustersInUse : j \in Nat /\ k * ClusterSize = j * ClusterSize
            BY <1>1, <2>3, InUseCluster
        <3>2. k = j
            <4>1. k * ClusterSize \in Extent(k * ClusterSize, ClusterSize)
                BY <2>1 DEF Extent
            <4> HIDE DEF k
            <4> QED BY <2>1, <3>1, <4>1, OneCluster
        <3>3. k \notin Moved
            BY <1>6, <1>8, <1>10, <3>1, <3>2 DEF EntryTells, TellsOfUse
        <3>4. k \notin Wiped
            BY <3>1, <3>2, <3>3 DEF ImageInv, WipedMoved, ImageDone
        <3>5. k * ClusterSize \in Nat /\ Reserved <= k * ClusterSize
            BY <2>1, <3>4 DEF Wiped
        <3> HIDE DEF k
        <3> QED BY <1>1, <2>1, <2>3, <3>5, UsedInChunk
    <2> QED BY <2>1, <2>2, <2>3 DEF KnownClusters
<1> QED BY <1>9, <1>10

\* The copy of the first cluster lies after the reserved area, so the device is longer.
LEMMA DeviceGoesOn ==
    ASSUME BootInUse, WholeBitmap, WholeSectors, ClusterBitmaps, BitsInBitmap,
           SuperblockReserved, ConvInv, GeometryInv, RunsInv, ImageInv, ImageDone
    PROVE  Reserved < DeviceSize
<1>1. TypeOK /\ DOMAIN disk = 0 .. DeviceSize - 1 /\ GrantedAbove
    BY DEF ConvInv, IInv, OnlyGrantedWritten, WholeSectors
<1>2. 0 < Reserved /\ 0 < DeviceSize
    BY DEF SuperblockReserved
<1>3. 0 \in in_use
    BY <1>1 DEF TypeOK, BootInUse
<1>4. PICK k \in ClustersInUse : k \in Nat /\ 0 = k * ClusterSize
    BY <1>1, <1>2, <1>3, InUseCluster
<1>5. k \in Wiped
    BY <1>2, <1>4 DEF Wiped
<1>6. k \in Moved
    BY <1>4, <1>5 DEF ImageInv, WipedMoved, ImageDone
<1> DEFINE n == MovedTo(k)
<1>7. n \in Nat /\ Holds(n, k)
    BY <1>4, <1>6, MovedToType DEF RunsInv, ImageInv, CopiesKept, CopyKept
<1> HIDE DEF n
<1>8. n * ClusterSize \in Nat
    BY <1>7
<1>9. n * ClusterSize \in Extent(n * ClusterSize, ClusterSize)
    BY <1>8 DEF Extent
<1>10. n * ClusterSize \in Granted /\ n * ClusterSize \in DOMAIN disk
    BY <1>7, <1>9 DEF Holds, Carries, DataGranted, DataAllocations, Granted
<1> QED BY <1>1, <1>8, <1>10 DEF GrantedAbove

-----------------------------------------------------------------------------
(* What has been converted to the end is not refused. *)

AcceptInv ==
    mode # "convert" /\ step = "done" =>
        /\ \A e \in img_extents : HasChunk(e.addr)
        /\ ~ begun => disk[PrimarySuper] = Super /\ Reserved < DeviceSize /\ mode # "refused"

LEMMA StopAccepts ==
    ASSUME WholeWords, ClusterBitmaps, WholeBitmap, WholeSectors, BitsInBitmap, BootInUse,
           SuperblockReserved, SwitchInv, ChunksInv, RunsInv, ImageInv, Stop
    PROVE  AcceptInv'
<1>1. mode' = "stopped" /\ UNCHANGED <<step, disk, img_extents, chunks, begun>>
    BY DEF Stop, vars, cvars, memory
<1>2. SUFFICES ASSUME step = "done"
               PROVE  /\ \A e \in img_extents : HasChunk(e.addr)
                      /\ disk[PrimarySuper] = Super /\ Reserved < DeviceSize
    BY <1>1 DEF AcceptInv, HasChunk
<1>3. ImageDone /\ ConvInv /\ GeometryInv /\ disk[PrimarySuper] = Super
    BY <1>2 DEF ImageDone, SwitchInv, FirstSuperblock
<1> QED BY <1>3, ImageInChunks, DeviceGoesOn

\* The superblock is seen, and stays while the volume is used.
LEMMA PrimarySeen ==
    ASSUME SuperblockReserved, IsFiniteSet(DOMAIN after), DOMAIN disk = 0 .. OrigSize - 1,
           Reserved < DeviceSize
    PROVE  /\ PrimarySuper \in SuperSpace(0, DeviceSize)
           /\ disk[PrimarySuper] = Super => Seen # {}
<1> DEFINE p == PrimarySuper
<1>1. p \in SuperAddrs /\ p \in Nat /\ p < Reserved
    BY PrimaryIsReserved
<1>2. /\ Cardinality(DOMAIN after) \in Nat /\ OrigSize \in Nat /\ OrigSize >= DeviceSize
      /\ Reserved \in Nat /\ DeviceSize \in Nat
    BY FS_CardinalityType, ConversionAssumption
<1>3. PartitionSize \in Nat /\ PartitionSize >= DeviceSize
    BY <1>2 DEF PartitionSize
<1> HIDE DEF p
<1>4. p \in SuperSpace(0, DeviceSize)
    <2> DEFINE Part(x) == Extent(x, StripeLen) \cap Extent(0, DeviceSize)
    <2>1. p \in Part(p)
        BY <1>1, <1>2 DEF Extent
    <2>2. SuperSpace(0, DeviceSize) = UNION {Part(x) : x \in SuperAddrs}
        BY DEF SuperSpace
    <2> HIDE DEF Part
    <2> QED BY <1>1, <2>1, <2>2
<1>5. p + 1 < PartitionSize /\ p \in DOMAIN disk
    BY <1>1, <1>2, <1>3
<1>6. disk[p] = Super => p \in Seen
    BY <1>1, <1>5 DEF Seen
<1> QED BY <1>4, <1>6 DEF p

LEMMA AcceptStep ==
    ASSUME SuperblockReserved, RollbackInv, AcceptInv, mode # "convert",
           [RollbackNext]_<<vars, cvars, rvars>>
    PROVE  AcceptInv'
<1>1. UNCHANGED <<step, img_extents, chunks>>
    BY DEF RollbackNext, Convert, Stop, UseVolume, Refuse, ReadImage, WriteBack, Finish,
           Interrupt, vars, cvars, memory, rvars
<1>2. SUFFICES ASSUME step = "done"
               PROVE  ~ begun' => /\ disk'[PrimarySuper] = Super /\ Reserved < DeviceSize
                                  /\ mode' # "refused"
    BY <1>1 DEF AcceptInv, HasChunk
<1>3. /\ \A e \in img_extents : HasChunk(e.addr)
      /\ ~ begun => disk[PrimarySuper] = Super /\ Reserved < DeviceSize /\ mode # "refused"
      /\ IsFiniteSet(DOMAIN after) /\ DOMAIN disk = 0 .. OrigSize - 1 /\ Sealed
    BY <1>2 DEF AcceptInv, RollbackInv
<1>4. CASE UseVolume
    <2> DEFINE p == PrimarySuper
    <2>1. Reserved < DeviceSize => p \in SuperSpace(0, DeviceSize)
        BY <1>3, PrimarySeen
    <2>2. p \in Nat /\ p < Reserved
        BY PrimaryIsReserved
    <2> HIDE DEF p
    <2>3. p \in DOMAIN disk
        BY <1>3, <2>2, ConversionAssumption
    <2>4. Reserved < DeviceSize => disk'[p] = disk[p]
        BY <1>4, <2>1, <2>3 DEF UseVolume
    <2> QED BY <1>3, <1>4, <2>4 DEF UseVolume, p
<1>5. CASE Refuse
    <2>1. /\ UNCHANGED <<disk, begun>> /\ mode' = "refused"
          /\ \/ Seen = {}
             \/ \E e \in img_extents : ~ HasChunk(e.addr)
             \/ \E e \in NotInPlace : ~ Readable(e)
        BY <1>5 DEF Refuse, cvars
    <2>2. ~ (\E e \in NotInPlace : ~ Readable(e))
        BY <1>3 DEF Sealed, Copied, Readable
    <2>3. ~ begun => Seen # {}
        BY <1>3, PrimarySeen
    <2> QED BY <1>3, <2>1, <2>2, <2>3
<1>6. CASE ReadImage \/ Finish \/ Interrupt
    BY <1>3, <1>6 DEF ReadImage, Finish, Interrupt, cvars
<1>7. CASE WriteBack
    BY <1>7 DEF WriteBack
<1>8. CASE UNCHANGED <<vars, cvars, rvars>>
    BY <1>3, <1>8 DEF cvars, rvars
<1> QED BY <1>4, <1>5, <1>6, <1>7, <1>8 DEF RollbackNext, Convert, Stop

-----------------------------------------------------------------------------
(* What holds of both programs. *)

\* The conversion goes on, or stops, or has stopped.
Converting == mode = "convert"

LEMMA ConvertStep ==
    ASSUME [RollbackNext]_<<vars, cvars, rvars>>
    PROVE  \/ Converting /\ [ConvNext]_<<vars, cvars>> /\ UNCHANGED after /\ Converting'
           \/ Converting /\ Stop
           \/ ~ Converting /\ ~ Converting'
<1>1. ASSUME Converting
      PROVE  \/ [ConvNext]_<<vars, cvars>> /\ UNCHANGED after /\ Converting'
             \/ Stop
    BY <1>1
    DEF RollbackNext, Convert, UseVolume, Refuse, ReadImage, WriteBack, Finish, Interrupt,
        Openable, rvars, Converting
<1>2. ASSUME ~ Converting PROVE ~ Converting'
    BY <1>2
    DEF RollbackNext, Convert, Stop, UseVolume, Refuse, ReadImage, WriteBack, Finish,
        Interrupt, Openable, rvars, Converting
<1> QED BY <1>1, <1>2

\* The invariants of the conversion, which hold as long as it runs.
ConvertedInv ==
    ConvInv /\ GeometryInv /\ AlignedInv /\ RunsInv /\ ImageInv /\ DeviceInv

LEMMA ConvertedInvariant ==
    ASSUME WholeStripes, WholeWords, ClusterBitmaps, WholeClusters, BootInUse, WholeBitmap,
           WholeSectors, BitsInBitmap, SuperblockReserved, EndClear
    PROVE  RollbackSpec => [](Converting => ConvertedInv)
<1>1. RollbackInit => /\ ConvInv /\ GeometryInv /\ AlignedInv /\ RunsInv /\ ImageInv /\ DeviceInv
    <2>1. RollbackInit => ConvInit /\ Init
        BY DEF RollbackInit, ConvInit
    <2> QED BY <2>1, InitConv, InitGeometry, InitAligned, InitRuns, InitImage, InitDevice
<1>2. [RollbackNext]_<<vars, cvars, rvars>> =>
          (Converting /\ [ConvNext]_<<vars, cvars>>) \/ ~ Converting'
    BY ConvertStep DEF Converting, Stop
<1>3. ConvInv /\ [ConvNext]_<<vars, cvars>> => ConvInv'
    BY ConvStep
<1>4. ConvInv /\ GeometryInv /\ [ConvNext]_<<vars, cvars>> => GeometryInv'
    BY ConvGeometry DEF ConvInv
<1>5. ConvInv /\ AlignedInv /\ [ConvNext]_<<vars, cvars>> => AlignedInv'
    BY ConvAligned
<1>6. ConvInv /\ DeviceInv /\ [ConvNext]_<<vars, cvars>> => DeviceInv'
    BY DeviceStep
<1>7. ConvInv => NoOverwrite
    BY LocatedNotGranted DEF ConvInv
<1>8. AlignedInv => DataAligned
    BY DEF AlignedInv
<1>9. GeometryInv /\ DeviceInv => DataInside
    BY DataGrantedOnDevice DEF GeometryInv, DeviceInv, IInv
<1>10. /\ ConvInv /\ RunsInv /\ DataAligned' /\ NoOverwrite' /\ [ConvNext]_<<vars, cvars>>
       => RunsInv'
    BY RunsStep
<1>11. /\ ConvInv /\ GeometryInv /\ RunsInv /\ ImageInv /\ DataInside' /\ DataAligned'
       /\ NoOverwrite' /\ [ConvNext]_<<vars, cvars>>
       => ImageInv'
    BY ImageStep
<1>12. ConvertedInv <=>
           ConvInv /\ GeometryInv /\ AlignedInv /\ RunsInv /\ ImageInv /\ DeviceInv
    BY DEF ConvertedInv
<1> QED BY <1>1, <1>2, <1>3, <1>4, <1>5, <1>6, <1>7, <1>8, <1>9, <1>10, <1>11, <1>12, PTL
        DEF RollbackSpec

LEMMA RollbackInvariant ==
    ASSUME WholeStripes, WholeWords, ClusterBitmaps, WholeClusters, BootInUse, WholeBitmap,
           WholeSectors, BitsInBitmap, SuperblockReserved, EndClear
    PROVE  RollbackSpec => []RollbackInv
<1>1. RollbackInit => RollbackInv
    BY InitRollback
<1>2. [RollbackNext]_<<vars, cvars, rvars>> =>
          \/ Converting /\ Converting'
          \/ Converting /\ Stop
          \/ ~ Converting
    BY ConvertStep
<1>3. /\ Converting /\ RollbackInv /\ [RollbackNext]_<<vars, cvars, rvars>> /\ Converting'
      => RollbackInv'
    BY ConvertStep DEF Converting, RollbackInv, Stop
<1>4. ConvertedInv /\ RollbackInv /\ Stop => RollbackInv'
    BY StopRollback DEF ConvertedInv
<1>5. ~ Converting /\ RollbackInv /\ [RollbackNext]_<<vars, cvars, rvars>> => RollbackInv'
    BY RollbackStep DEF Converting
<1> QED BY <1>1, <1>2, <1>3, <1>4, <1>5, ConvertedInvariant, PTL DEF RollbackSpec

\* When rollback is over the old file system is whole, to the last unit of a cluster in
\* use: whatever was written to the volume after it was converted, and wherever rollback
\* was killed before.  It never fails half way on a volume of whole sectors.
THEOREM RollbackRestores ==
    ASSUME WholeStripes, WholeWords, ClusterBitmaps, WholeClusters, BootInUse, WholeBitmap,
           WholeSectors, BitsInBitmap, SuperblockReserved, EndClear
    PROVE  RollbackSpec => [](Restored /\ mode # "failed")
<1>1. RollbackInv => Restored /\ mode # "failed"
    BY DEF RollbackInv, Restored, OpenModes
<1> QED BY <1>1, RollbackInvariant, PTL

\* Nothing that rollback writes destroys what is in its place already: neither what an
\* earlier attempt has brought back nor a cluster that was never moved.
THEOREM RollbackNeverUndoes ==
    ASSUME WholeStripes, WholeWords, ClusterBitmaps, WholeClusters, BootInUse, WholeBitmap,
           WholeSectors, BitsInBitmap, SuperblockReserved, EndClear
    PROVE  RollbackSpec => NeverUndone
<1>1. RollbackInv /\ [RollbackNext]_<<vars, cvars, rvars>> =>
          [mode = "writing" =>
              \A u \in NtfsUnits : disk[u] = Ntfs(u) => disk'[u] = Ntfs(u)]_<<vars, cvars, rvars>>
    BY RollbackStep
<1> QED BY <1>1, RollbackInvariant, PTL DEF RollbackSpec, NeverUndone

LEMMA AcceptInvariant ==
    ASSUME WholeStripes, WholeWords, ClusterBitmaps, WholeClusters, BootInUse, WholeBitmap,
           WholeSectors, BitsInBitmap, SuperblockReserved, EndClear,
           FirstClusterShort
    PROVE  RollbackSpec => []AcceptInv
<1>1. RollbackInit => SwitchInv /\ ChunksInv /\ AcceptInv
    <2>1. RollbackInit => ConvInit /\ Init /\ mode = "convert"
        BY DEF RollbackInit, ConvInit
    <2> QED BY <2>1, InitSwitch, InitChunks DEF AcceptInv
<1>2. [RollbackNext]_<<vars, cvars, rvars>> =>
          \/ Converting /\ [ConvNext]_<<vars, cvars>> /\ Converting'
          \/ Converting /\ Stop /\ ~ Converting'
          \/ ~ Converting /\ ~ Converting'
    BY ConvertStep DEF Converting, Stop
<1>3. SwitchInv /\ [ConvNext]_<<vars, cvars>> => SwitchInv'
    BY SwitchStep
<1>4. SwitchInv /\ ChunksInv /\ [ConvNext]_<<vars, cvars>> => ChunksInv'
    BY ChunksStep DEF SwitchInv
<1>5. Converting' => AcceptInv'
    BY DEF Converting, AcceptInv
<1>6. ConvertedInv /\ SwitchInv /\ ChunksInv /\ Stop => AcceptInv'
    BY StopAccepts DEF ConvertedInv
<1>7. ~ Converting /\ RollbackInv /\ AcceptInv /\ [RollbackNext]_<<vars, cvars, rvars>>
      => AcceptInv'
    BY AcceptStep DEF Converting
<1> QED BY <1>1, <1>2, <1>3, <1>4, <1>5, <1>6, <1>7, ConvertedInvariant, RollbackInvariant, PTL
        DEF RollbackSpec

\* A volume that has been converted to the end can be rolled back as long as nothing has
\* been written back: a superblock is found, all that the image refers to is in a chunk -
\* a cluster in use that was left in its place as well as a copy - and can be read.
THEOREM RollbackAccepts ==
    ASSUME WholeStripes, WholeWords, ClusterBitmaps, WholeClusters, BootInUse, WholeBitmap,
           WholeSectors, BitsInBitmap, SuperblockReserved, EndClear,
           FirstClusterShort
    PROVE  RollbackSpec => []Accepted
<1>1. AcceptInv => Accepted
    BY DEF AcceptInv, Accepted
<1> QED BY <1>1, AcceptInvariant, PTL

=============================================================================
