-------------------------- MODULE BitmapScanProofs --------------------------
(***************************************************************************)
(* The loop over $Bitmap, for every bitmap and every size of byte, word    *)
(* and segment: the runs it collects are in order and apart, and what they *)
(* cover is what module Bitmap says the scan computes.                     *)
(***************************************************************************)
EXTENDS BitmapScan, SpaceTheorems

-----------------------------------------------------------------------------
(* Types, and the runs collected so far with the run that is open.         *)

ScanType ==
    /\ n \in Nat /\ B \in SUBSET Nat
    /\ read \in Nat /\ left \in Nat /\ pos \in Nat /\ run_start \in Nat
    /\ set \in BOOLEAN /\ done \in BOOLEAN
    /\ used \in Seq([start : Nat, length : Nat])

\* Where the next run may start at the earliest, less one.
Limit == IF set THEN run_start ELSE pos

\* A run that is open holds a cluster; every run found ends before the open
\* run, or before the cluster the scan is at.
OrderInv ==
    /\ ScanType
    /\ done => left = 0
    /\ set => run_start < pos
    /\ ~done => \A j \in 1 .. Len(used) : used[j].start + used[j].length < Limit
    /\ RunsInOrder

LEMMA ElementIn ==
    ASSUME NEW S, NEW s \in Seq(S), NEW j \in 1 .. Len(s)
    PROVE  s[j] \in S
OBVIOUS

LEMMA RunIn ==
    ASSUME NEW s \in Seq([start : Nat, length : Nat]), NEW j \in 1 .. Len(s)
    PROVE  s[j] \in [start : Nat, length : Nat] /\ s[j].start \in Nat /\ s[j].length \in Nat
<1>1. s[j] \in [start : Nat, length : Nat]
    BY ElementIn
<1> QED BY <1>1

LEMMA ValueBitsPositive == ValueBits \in Nat /\ ValueBits > 0
<1>1. WordBytes * ByteBits \in Nat /\ WordBytes * ByteBits > 0
    BY BitmapAssumption, SMT
<1> QED BY <1>1, BitmapAssumption DEF ValueBits

\* What a step of the scan does to the runs, whatever the bitmap says: the
\* steps move on by at least one cluster, or change nothing but "left".
Moves ==
    \/ /\ pos' \in Nat /\ pos' > pos /\ ~done /\ ~done'
       /\ \/ set /\ set' /\ run_start' = run_start /\ used' = used
          \/ ~set /\ ~set' /\ run_start' = run_start /\ used' = used
          \/ ~set /\ set' /\ run_start' = pos /\ used' = used
          \/ set /\ ~set' /\ run_start' = run_start /\ EmitRun
    \/ UNCHANGED <<pos, set, run_start, used, done>>
    \/ /\ UNCHANGED <<pos, set, run_start>>
       /\ ~done /\ done'
       /\ IF set THEN EmitRun ELSE used' = used

LEMMA StepMoves ==
    ASSUME ScanType, done => left = 0, Next
    PROVE  /\ Moves
           /\ read' \in Nat /\ left' \in Nat /\ done' \in BOOLEAN /\ set' \in BOOLEAN
           /\ n' = n /\ B' = B
           /\ done' => left' = 0
<1> USE DEF ScanType, NextValue
<1>1. CASE StepOver
    BY <1>1, ValueBitsPositive DEF StepOver, Moves
<1>2. CASE OpenRun
    <2>1. pos' \in Nat /\ pos' > pos /\ read' \in Nat
        BY <1>2, ValueBitsPositive DEF OpenRun
    <2> QED BY <1>2, <2>1, Zenon DEF OpenRun, Moves
<1>3. CASE CloseRun
    <2>1. pos' \in Nat /\ pos' > pos /\ read' \in Nat
        BY <1>3, ValueBitsPositive DEF CloseRun
    <2> QED BY <1>3, <2>1, Zenon DEF CloseRun, Moves
<1>4. CASE MixedValue
    BY <1>4, ValueBitsPositive DEF MixedValue, Moves
<1>5. CASE NextBit
    <2>1. pos' \in Nat /\ pos' > pos /\ read' \in Nat /\ left' \in Nat /\ left # 0
        BY <1>5 DEF NextBit
    <2>2. ~done /\ done' = done
        BY <1>5, <2>1 DEF NextBit
    <2>3. CASE read \in B
        <3>1. set' = TRUE /\ used' = used /\ read' \in Nat /\ left' \in Nat
              /\ n' = n /\ B' = B /\ run_start' = (IF set THEN run_start ELSE pos)
            BY <1>5, <2>1, <2>3 DEF NextBit
        <3>2. CASE set
            BY <3>1, <3>2, <2>1, <2>2, Zenon DEF Moves
        <3>3. CASE ~set
            BY <3>1, <3>3, <2>1, <2>2, Zenon DEF Moves
        <3> QED BY <3>2, <3>3
    <2>4. CASE read \notin B
        <3>1. set' = FALSE /\ run_start' = run_start /\ n' = n /\ B' = B
              /\ IF set THEN EmitRun ELSE used' = used
            BY <1>5, <2>1, <2>4 DEF NextBit
        <3>2. CASE set
            BY <3>1, <3>2, <2>1, <2>2, Zenon DEF Moves
        <3>3. CASE ~set
            BY <3>1, <3>3, <2>1, <2>2, Zenon DEF Moves
        <3> QED BY <3>2, <3>3
    <2> QED BY <2>3, <2>4
<1>6. CASE FinishScan
    BY <1>6, Zenon DEF FinishScan, Moves
<1> QED BY <1>1, <1>2, <1>3, <1>4, <1>5, <1>6 DEF Next

\* A run that is open is not empty, so EmitRun appends it.
LEMMA Emitted ==
    ASSUME ScanType, run_start < pos, EmitRun
    PROVE  /\ used' = Append(used, [start |-> run_start, length |-> pos - run_start])
           /\ used' \in Seq([start : Nat, length : Nat])
           /\ Len(used') = Len(used) + 1
           /\ used'[Len(used) + 1] = [start |-> run_start, length |-> pos - run_start]
           /\ \A j \in 1 .. Len(used) : used'[j] = used[j]
<1> DEFINE r == [start |-> run_start, length |-> pos - run_start]
<1>1. r \in [start : Nat, length : Nat]
    BY DEF ScanType
<1>2. used' = Append(used, r)
    BY DEF EmitRun, ScanType
<1> HIDE DEF r
<1>3. /\ used' \in Seq([start : Nat, length : Nat])
      /\ Len(used') = Len(used) + 1
      /\ used'[Len(used) + 1] = r
      /\ \A j \in 1 .. Len(used) : used'[j] = used[j]
    BY <1>1, <1>2 DEF ScanType
<1> QED BY <1>2, <1>3 DEF r

\* Appending a run keeps them apart, when the ones before it end before it.
LEMMA ApartAfterEmit ==
    ASSUME ScanType, run_start < pos, EmitRun, RunsInOrder,
           \A j \in 1 .. Len(used) : used[j].start + used[j].length < run_start
    PROVE  /\ RunsInOrder'
           /\ \A j \in 1 .. Len(used') : used'[j].start + used'[j].length <= pos
<1>1. Len(used) \in Nat
    BY DEF ScanType
<1>2. ASSUME NEW j \in 1 .. Len(used') - 1
      PROVE  used'[j].start + used'[j].length < used'[j + 1].start
    <2>1. j \in 1 .. Len(used) /\ used'[j] = used[j]
        BY <1>1, Emitted
    <2>2. CASE j = Len(used)
        BY <2>1, <2>2, Emitted
    <2>3. CASE j # Len(used)
        <3>1. j \in 1 .. Len(used) - 1 /\ j + 1 \in 1 .. Len(used)
            BY <2>1, <2>3, <1>1
        <3> QED BY <2>1, <3>1, Emitted DEF RunsInOrder
    <2> QED BY <2>2, <2>3
<1>3. RunsInOrder'
    BY <1>2 DEF RunsInOrder
<1>4. ASSUME NEW j \in 1 .. Len(used')
      PROVE  used'[j].start + used'[j].length <= pos
    <2>1. CASE j \in 1 .. Len(used)
        <3>1. used[j].start \in Nat /\ used[j].length \in Nat
            BY <2>1, RunIn DEF ScanType
        <3>2. used'[j] = used[j] /\ used[j].start + used[j].length < run_start
            BY <2>1, Emitted
        <3> QED BY <3>1, <3>2 DEF ScanType
    <2>2. CASE j = Len(used) + 1
        <3>1. used'[j].start = run_start /\ used'[j].length = pos - run_start
            BY <2>2, Emitted
        <3> QED BY <3>1 DEF ScanType
    <2>3. j \in 1 .. Len(used) \/ j = Len(used) + 1
        BY <1>1, Emitted
    <2> QED BY <2>1, <2>2, <2>3
<1> QED BY <1>3, <1>4

LEMMA OrderInductive == OrderInv /\ [Next]_vars => OrderInv'
<1> SUFFICES ASSUME OrderInv, [Next]_vars PROVE OrderInv'
    OBVIOUS
<1>1. CASE UNCHANGED vars
    BY <1>1 DEF vars, OrderInv, ScanType, Limit, RunsInOrder
<1>2. CASE Next
    <2>1. ScanType /\ (done => left = 0) /\ RunsInOrder
        BY DEF OrderInv
    <2>2. /\ Moves
          /\ read' \in Nat /\ left' \in Nat /\ done' \in BOOLEAN /\ set' \in BOOLEAN
          /\ n' = n /\ B' = B
          /\ done' => left' = 0
        BY <1>2, <2>1, StepMoves
    <2>3. Limit \in Nat /\ Len(used) \in Nat
        BY <2>1 DEF ScanType, Limit
    <2>4. \A j \in 1 .. Len(used) : used[j].start \in Nat /\ used[j].length \in Nat
        BY <2>1, RunIn DEF ScanType
    <2>5. ASSUME pos' \in Nat, pos' > pos, ~done, ~done',
                 run_start' = (IF set' /\ ~set THEN pos ELSE run_start),
                 used' = used, set => set'
          PROVE  OrderInv'
        <3>1. \A j \in 1 .. Len(used) : used[j].start + used[j].length < Limit
            BY <2>5 DEF OrderInv
        <3>2. Limit <= Limit' /\ Limit' \in Nat
            BY <2>1, <2>2, <2>5 DEF OrderInv, ScanType, Limit
        <3>3. \A j \in 1 .. Len(used') : used'[j].start + used'[j].length < Limit'
            BY <2>3, <2>4, <2>5, <3>1, <3>2
        <3>4. set' => run_start' < pos'
            BY <2>1, <2>2, <2>5 DEF OrderInv, ScanType
        <3>5. RunsInOrder'
            BY <2>1, <2>5 DEF RunsInOrder
        <3>6. ScanType'
            BY <2>1, <2>2, <2>5 DEF ScanType
        <3> QED BY <2>2, <3>3, <3>4, <3>5, <3>6 DEF OrderInv
    <2>6. ASSUME set, ~done, EmitRun, run_start' = run_start, pos' \in Nat,
                 \/ ~set' /\ pos' > pos
                 \/ done' /\ pos' = pos /\ set' = set
          PROVE  OrderInv'
        <3>1. run_start < pos
            BY <2>6 DEF OrderInv
        <3>2. \A j \in 1 .. Len(used) : used[j].start + used[j].length < run_start
            BY <2>6 DEF OrderInv, Limit
        <3>3. /\ RunsInOrder'
              /\ \A j \in 1 .. Len(used') : used'[j].start + used'[j].length <= pos
            BY <2>1, <2>6, <3>1, <3>2, ApartAfterEmit
        <3>4. used' \in Seq([start : Nat, length : Nat])
            BY <2>1, <2>6, <3>1, Emitted
        <3>5. ScanType'
            BY <2>1, <2>2, <2>6, <3>4 DEF ScanType
        <3>6. \A j \in 1 .. Len(used') : used'[j].start \in Nat /\ used'[j].length \in Nat
            BY <3>4, RunIn
        <3>7. ASSUME ~done', NEW j \in 1 .. Len(used')
              PROVE  used'[j].start + used'[j].length < Limit'
            <4>1. ~set' /\ pos' > pos
                BY <2>6, <3>7
            <4>2. Limit' = pos'
                BY <4>1 DEF Limit
            <4>3. /\ used'[j].start + used'[j].length <= pos
                  /\ used'[j].start \in Nat /\ used'[j].length \in Nat
                BY <3>3, <3>6, <3>7
            <4> QED BY <2>1, <2>6, <4>1, <4>2, <4>3 DEF ScanType
        <3>8. set' => run_start' < pos'
            BY <2>1, <2>2, <2>6, <3>1 DEF ScanType
        <3> QED BY <2>2, <3>3, <3>5, <3>7, <3>8 DEF OrderInv
    <2>7. CASE UNCHANGED <<pos, set, run_start, used, done>>
        BY <2>1, <2>2, <2>7 DEF OrderInv, ScanType, Limit, RunsInOrder
    <2>8. ASSUME UNCHANGED <<pos, set, run_start>>, ~done, done', ~set, used' = used
          PROVE  OrderInv'
        BY <2>1, <2>2, <2>8 DEF OrderInv, ScanType, RunsInOrder
    <2> QED BY <2>1, <2>2, <2>5, <2>6, <2>7, <2>8 DEF Moves, ScanType
<1> QED BY <1>1, <1>2

LEMMA OrderInitially == Init => OrderInv
<1> SUFFICES ASSUME Init PROVE OrderInv
    OBVIOUS
<1>1. B \in SUBSET Nat /\ n \in Nat
    <2>1. 0 .. ByteBits * n - 1 \subseteq Nat
        OBVIOUS
    <2> QED BY <2>1, ScanAssumption DEF Init
<1>2. used \in Seq([start : Nat, length : Nat]) /\ Len(used) = 0
    BY DEF Init
<1>3. ScanType
    BY <1>1, <1>2 DEF Init, ScanType
<1>4. RunsInOrder /\ \A j \in 1 .. Len(used) : used[j].start + used[j].length < Limit
    BY <1>2 DEF RunsInOrder
<1>5. left = 0 /\ set = FALSE
    BY DEF Init
<1> QED BY <1>3, <1>4, <1>5, Zenon DEF OrderInv

\* The runs of used clusters that the scan of $Bitmap hands to create_data_chunks
\* are in order, each with a gap before the next, whatever the bitmap holds.
THEOREM ScanInOrder == Spec => []RunsInOrder
<1>1. OrderInv => RunsInOrder
    BY DEF OrderInv
<1> QED BY <1>1, OrderInitially, OrderInductive, PTL DEF Spec

-----------------------------------------------------------------------------
(* What the runs cover, the one that is open included.                     *)

Covering == Covered \cup IF set /\ ~done THEN run_start .. pos - 1 ELSE {}

\* The clusters of a list of runs, run by run.
LEMMA CoveredBy ==
    ASSUME NEW s \in Seq([start : Nat, length : Nat])
    PROVE  \A x : x \in UNION {r.start .. r.start + r.length - 1 : r \in {s[j] : j \in DOMAIN s}}
                   <=> \E j \in 1 .. Len(s) : x \in s[j].start .. s[j].start + s[j].length - 1
<1>1. DOMAIN s = 1 .. Len(s)
    OBVIOUS
<1> DEFINE C(r) == r.start .. r.start + r.length - 1
<1>2. \A x : x \in UNION {C(r) : r \in {s[j] : j \in DOMAIN s}}
               <=> \E j \in 1 .. Len(s) : x \in C(s[j])
    <2> HIDE DEF C
    <2> QED BY <1>1, Zenon
<1> QED BY <1>2

LEMMA CoveredAfterEmit ==
    ASSUME ScanType, run_start < pos, EmitRun
    PROVE  Covered' = Covered \cup (run_start .. pos - 1)
<1> DEFINE At(s, j) == s[j].start .. s[j].start + s[j].length - 1
<1>1. \A x : x \in Covered <=> \E j \in 1 .. Len(used) : x \in At(used, j)
    BY CoveredBy DEF Covered, ScanType
<1>2. \A x : x \in Covered' <=> \E j \in 1 .. Len(used') : x \in At(used', j)
    <2>1. used' \in Seq([start : Nat, length : Nat])
        BY Emitted
    <2>2. Covered' = UNION {r.start .. r.start + r.length - 1 :
                                r \in {used'[j] : j \in DOMAIN used'}}
        BY DEF Covered
    <2> QED BY <2>1, <2>2, CoveredBy
<1>3. \A j \in 1 .. Len(used) : At(used', j) = At(used, j)
    BY Emitted
<1>4. At(used', Len(used) + 1) = run_start .. pos - 1
    <2>1. /\ used'[Len(used) + 1].start = run_start
          /\ used'[Len(used) + 1].length = pos - run_start
        BY Emitted
    <2> QED BY <2>1 DEF ScanType
<1>5. Len(used') = Len(used) + 1 /\ Len(used) \in Nat
    BY Emitted DEF ScanType
<1> HIDE DEF At
<1>6. 1 .. Len(used') = 1 .. Len(used) \cup {Len(used) + 1}
    BY <1>5
<1> QED BY <1>1, <1>2, <1>3, <1>4, <1>6

\* A step adds the clusters it passes when it is inside a run after it, and
\* none when it is not.
LEMMA StepCovers ==
    ASSUME OrderInv, Next
    PROVE  Covering' = Covering \cup IF set' THEN pos .. pos' - 1 ELSE {}
<1>1. ScanType /\ (done => left = 0)
    BY DEF OrderInv
<1>2. Moves /\ set' \in BOOLEAN /\ done' \in BOOLEAN
    BY <1>1, StepMoves
<1>3. set \in BOOLEAN /\ done \in BOOLEAN /\ pos \in Nat /\ run_start \in Nat
    BY <1>1 DEF ScanType
<1>4. used' = used => Covered' = Covered
    BY DEF Covered
<1>5. CASE /\ pos' \in Nat /\ pos' > pos /\ ~done /\ ~done'
           /\ set /\ set' /\ run_start' = run_start /\ used' = used
    <2>1. run_start < pos
        BY <1>5 DEF OrderInv
    <2>2. run_start .. pos' - 1 = (run_start .. pos - 1) \cup (pos .. pos' - 1)
        BY <1>3, <1>5, <2>1
    <2> QED BY <1>4, <1>5, <2>2 DEF Covering
<1>6. CASE /\ pos' \in Nat /\ pos' > pos /\ ~done /\ ~done'
           /\ ~set /\ ~set' /\ used' = used
    BY <1>4, <1>6 DEF Covering
<1>7. CASE /\ pos' \in Nat /\ pos' > pos /\ ~done /\ ~done'
           /\ ~set /\ set' /\ run_start' = pos /\ used' = used
    BY <1>4, <1>7 DEF Covering
<1>8. CASE /\ ~done /\ ~done' /\ set /\ ~set' /\ EmitRun
    <2>1. Covered' = Covered \cup (run_start .. pos - 1)
        BY <1>1, <1>8, CoveredAfterEmit DEF OrderInv
    <2> QED BY <1>8, <2>1 DEF Covering
<1>9. CASE UNCHANGED <<pos, set, run_start, used, done>>
    BY <1>3, <1>4, <1>9 DEF Covering
<1>10. CASE UNCHANGED <<pos, set, run_start>> /\ ~done /\ done' /\ set /\ EmitRun
    <2>1. Covered' = Covered \cup (run_start .. pos - 1)
        BY <1>1, <1>10, CoveredAfterEmit DEF OrderInv
    <2> QED BY <1>3, <1>10, <2>1 DEF Covering
<1>11. CASE UNCHANGED <<pos, set, run_start>> /\ ~done /\ done' /\ ~set /\ used' = used
    BY <1>3, <1>4, <1>11 DEF Covering
<1> QED BY <1>2, <1>3, <1>5, <1>6, <1>7, <1>8, <1>9, <1>10, <1>11 DEF Moves

-----------------------------------------------------------------------------
(* Where the scan is, and what Bitmap says it has found by then.           *)

\* The clusters of the bytes before byte i.
Before(i) == UNION {UsedInByte(B, n, j) : j \in 0 .. i - 1}

\* Between two values: the next byte is byte i.  As long as whole words are
\* left, words begin at multiples of their size.
AtByte(i) ==
    /\ left = 0 /\ read = ByteBits * i
    /\ pos = PosAt(B, n, i)
    /\ i <= WordPart(n) => Multiple(i, WordBytes)
    /\ Covering = Before(i)

\* Inside the word that begins at byte i: pos is right.
InWord(i) ==
    /\ i + WordBytes <= WordPart(n) /\ Multiple(i, WordBytes)
    /\ left \in 1 .. WordBytes * ByteBits
    /\ read = ByteBits * (i + WordBytes) - left
    /\ pos = read
    /\ Covering = {x \in B : x < read}

\* Inside byte i, one of those after the last word.
InByte(i) ==
    /\ i >= WordPart(n) /\ i < n /\ ~Skipped(B, n, i)
    /\ left \in 1 .. ByteBits
    /\ read = ByteBits * (i + 1) - left
    /\ pos = PosAt(B, n, i) + (ByteBits - left)
    /\ Covering = Before(i) \cup
           {PosAt(B, n, i) + b : b \in {c \in ByteOf(B, i) : c < ByteBits - left}}

Place == \E i \in 0 .. n : AtByte(i) \/ InWord(i) \/ InByte(i)

ScanInv ==
    /\ OrderInv
    /\ set <=> (read - 1 \in B)
    /\ Place
    /\ ComputesScannedUsed

-----------------------------------------------------------------------------
(* Arithmetic of words and bytes.                                          *)

LEMMA Larger ==
    ASSUME NEW k \in Nat, NEW a \in Int, NEW b \in Int, a <= b
    PROVE  k * a <= k * b
BY SMT

\* Different multiples are at least one unit apart.
LEMMA MultipleGap ==
    ASSUME NEW a \in Int, NEW b \in Int, NEW M \in Nat \ {0},
           Multiple(a, M), Multiple(b, M), a < b
    PROVE  a + M <= b
<1>1. PICK p \in Int : a = p * M
    BY MultipleWitness
<1>2. PICK q \in Int : b = q * M
    BY MultipleWitness
<1>3. ASSUME q <= p PROVE FALSE
    <2>1. M * q <= M * p
        BY <1>3, Larger
    <2> QED BY <1>1, <1>2, <2>1
<1>4. M * (p + 1) <= M * q
    BY <1>3, Larger
<1> QED BY <1>1, <1>2, <1>4

\* The part of m bytes that is read by words.
LEMMA Words ==
    ASSUME NEW m \in Nat
    PROVE  /\ WordPart(m) \in Nat /\ WordPart(m) <= m /\ m < WordPart(m) + WordBytes
           /\ Multiple(WordPart(m), WordBytes)
<1> DEFINE q == m \div WordBytes
<1>1. WordBytes \in Int /\ WordBytes > 0
    BY BitmapAssumption
<1>2. m = WordBytes * q + (m % WordBytes) /\ q \in Int /\ m % WordBytes \in 0 .. WordBytes - 1
    BY <1>1, Division
<1> HIDE DEF q
<1> DEFINE r == m % WordBytes
<1>3. r \in 0 .. WordBytes - 1 /\ m = WordBytes * q + r /\ WordPart(m) = m - r
    BY <1>2 DEF WordPart
<1> HIDE DEF r
<1>4. q >= 0
    <2>1. CASE q <= -1
        <3>1. WordBytes * q <= WordBytes * (-1)
            BY <1>1, <1>2, <2>1, Larger
        <3> QED BY <1>1, <1>2, <1>3, <3>1
    <2> QED BY <1>2, <2>1
<1>5. WordPart(m) = q * WordBytes /\ WordPart(m) \in Int
    BY <1>1, <1>2, <1>3
<1>6. WordPart(m) >= 0
    <2>1. WordBytes * 0 <= WordBytes * q
        BY <1>1, <1>2, <1>4, Larger
    <2> QED BY <1>1, <1>2, <1>5, <2>1
<1>7. Multiple(WordPart(m), WordBytes)
    BY <1>2, <1>5, MultipleWitness, BitmapAssumption
<1> QED BY <1>1, <1>3, <1>5, <1>6, <1>7

\* A byte is reached ByteBits clusters after the one before, or one cluster
\* when that one was stepped over.
LEMMA PosNext ==
    ASSUME NEW S, NEW m, NEW i \in Nat
    PROVE  /\ PosAt(S, m, i) \in Int
           /\ PosAt(S, m, i + 1)
                = PosAt(S, m, i) + IF Skipped(S, m, i) THEN 1 ELSE ByteBits
<1> DEFINE K(k) == {j \in 0 .. k - 1 : Skipped(S, m, j)}
<1>1. \A k \in Nat : IsFiniteSet(K(k))
    <2> TAKE k \in Nat
    <2>1. IsFiniteSet(0 .. k - 1)
        BY FS_Interval
    <2> QED BY <2>1, FS_Subset
<1>2. i \notin K(i)
    OBVIOUS
<1>3. K(i + 1) = IF Skipped(S, m, i) THEN K(i) \cup {i} ELSE K(i)
    <2>1. \A j : j \in 0 .. i + 1 - 1 <=> j \in 0 .. i - 1 \/ j = i
        OBVIOUS
    <2>2. CASE Skipped(S, m, i)
        BY <2>1, <2>2
    <2>3. CASE ~Skipped(S, m, i)
        BY <2>1, <2>3
    <2> QED BY <2>2, <2>3
<1> DEFINE c == Cardinality(K(i))
<1>4. c \in Nat
    BY <1>1, FS_CardinalityType
<1>5. Cardinality(K(i) \cup {i}) = c + 1
    BY <1>1, <1>2, FS_AddElement
<1>6. PosAt(S, m, i) = ByteBits * i - (ByteBits - 1) * c
    BY DEF PosAt
<1>7. PosAt(S, m, i + 1) = ByteBits * (i + 1) - (ByteBits - 1) * Cardinality(K(i + 1))
    BY DEF PosAt
<1> HIDE DEF c, K
<1>8. CASE Skipped(S, m, i)
    <2>1. Cardinality(K(i + 1)) = c + 1
        BY <1>3, <1>5, <1>8
    <2>2. PosAt(S, m, i + 1) = ByteBits * (i + 1) - (ByteBits - 1) * (c + 1)
        BY <1>7, <2>1
    <2> QED BY <1>4, <1>6, <2>2, <1>8, BitmapAssumption
<1>9. CASE ~Skipped(S, m, i)
    <2>1. Cardinality(K(i + 1)) = c
        BY <1>3, <1>9 DEF c
    <2>2. PosAt(S, m, i + 1) = ByteBits * (i + 1) - (ByteBits - 1) * c
        BY <1>7, <2>1
    <2> QED BY <1>4, <1>6, <2>2, <1>9, BitmapAssumption
<1> QED BY <1>8, <1>9

\* No byte of a word is stepped over as a byte, so words are in their place.
LEMMA PosInWords ==
    ASSUME NEW S, NEW m \in Nat, NEW i \in Nat, i <= WordPart(m)
    PROVE  PosAt(S, m, i) = ByteBits * i
<1>1. {j \in 0 .. i - 1 : Skipped(S, m, j)} = {}
    BY Words DEF Skipped
<1>2. Cardinality({j \in 0 .. i - 1 : Skipped(S, m, j)}) = 0
    BY <1>1, FS_EmptySet
<1> QED BY <1>2, BitmapAssumption DEF PosAt

\* Every bit is a bit of its byte, and of no other.
LEMMA BitOfByte ==
    ASSUME NEW x \in Nat
    PROVE  /\ x \div ByteBits \in Nat /\ x % ByteBits \in 0 .. ByteBits - 1
           /\ x = ByteBits * (x \div ByteBits) + (x % ByteBits)
<1>1. ByteBits \in Int /\ ByteBits > 0
    BY BitmapAssumption
<1> DEFINE q == x \div ByteBits
<1> DEFINE r == x % ByteBits
<1>2. x = ByteBits * q + r /\ q \in Int /\ r \in 0 .. ByteBits - 1
    BY <1>1, Division
<1> HIDE DEF q, r
<1>3. ASSUME q <= -1 PROVE FALSE
    <2>1. ByteBits * q <= ByteBits * (-1)
        BY <1>1, <1>2, <1>3, Larger
    <2> QED BY <1>1, <1>2, <2>1
<1>4. q \in Nat
    BY <1>2, <1>3
<1>5. x \div ByteBits \in Nat
    BY <1>4 DEF q
<1>6. x % ByteBits \in 0 .. ByteBits - 1 /\ x = ByteBits * (x \div ByteBits) + (x % ByteBits)
    BY <1>2 DEF q, r
<1> QED BY <1>5, <1>6

LEMMA ByteOrder ==
    ASSUME NEW i \in Int, NEW j \in Int, NEW b \in 0 .. ByteBits - 1,
           NEW c \in 0 .. ByteBits - 1, i < j
    PROVE  ByteBits * i + b < ByteBits * j + c
<1>1. ByteBits * (i + 1) <= ByteBits * j
    BY BitmapAssumption, Larger
<1> QED BY <1>1, BitmapAssumption

\* What the words have found by byte i is the bitmap up to there.
LEMMA BeforeInWords ==
    ASSUME NEW i \in Nat, i <= WordPart(n), n \in Nat, B \in SUBSET Nat
    PROVE  Before(i) = {x \in B : x < ByteBits * i}
<1>1. \A j \in 0 .. i - 1 :
        UsedInByte(B, n, j) = {ByteBits * j + b : b \in ByteOf(B, j)}
    <2> TAKE j \in 0 .. i - 1
    <2>1. j \in Nat /\ j < WordPart(n) /\ j <= WordPart(n)
        BY Words
    <2>2. ~Skipped(B, n, j)
        BY <2>1, Words DEF Skipped
    <2>3. PosAt(B, n, j) = ByteBits * j
        BY <2>1, PosInWords
    <2> QED BY <2>2, <2>3 DEF UsedInByte
<1>2. ASSUME NEW x \in Before(i) PROVE x \in B /\ x < ByteBits * i
    <2>1. PICK j \in 0 .. i - 1 : x \in UsedInByte(B, n, j)
        BY DEF Before
    <2>2. PICK b \in ByteOf(B, j) : x = ByteBits * j + b
        BY <1>1, <2>1
    <2>3. b \in 0 .. ByteBits - 1 /\ ByteBits * j + b \in B
        BY DEF ByteOf
    <2>4. 0 \in 0 .. ByteBits - 1
        BY BitmapAssumption
    <2>5. ByteBits * j + b < ByteBits * i + 0
        BY <2>3, <2>4, ByteOrder
    <2> QED BY <2>2, <2>3, <2>5, BitmapAssumption
<1>3. ASSUME NEW x \in B, x < ByteBits * i PROVE x \in Before(i)
    <2> DEFINE j == x \div ByteBits
    <2> DEFINE b == x % ByteBits
    <2>1. j \in Nat /\ b \in 0 .. ByteBits - 1 /\ x = ByteBits * j + b
        BY BitOfByte
    <2> HIDE DEF j, b
    <2>2. CASE i <= j
        <3>1. ByteBits * i <= ByteBits * j
            BY <2>1, <2>2, Larger, BitmapAssumption
        <3> QED BY <1>3, <2>1, <3>1, BitmapAssumption
    <2>3. CASE j < i
        <3>1. j \in 0 .. i - 1
            BY <2>1, <2>3
        <3>2. b \in ByteOf(B, j)
            BY <2>1 DEF ByteOf
        <3>3. x \in UsedInByte(B, n, j)
            BY <1>1, <2>1, <3>1, <3>2
        <3> QED BY <3>1, <3>3 DEF Before
    <2> QED BY <2>1, <2>2, <2>3
<1> QED BY <1>2, <1>3

\* One byte more.
LEMMA BeforeNext ==
    ASSUME NEW i \in Nat
    PROVE  Before(i + 1) = Before(i) \cup UsedInByte(B, n, i)
<1>1. \A j : j \in 0 .. i + 1 - 1 <=> j \in 0 .. i - 1 \/ j = i
    OBVIOUS
<1> QED BY <1>1 DEF Before

-----------------------------------------------------------------------------
(* One value.                                                              *)

LEMMA WordsLeft ==
    ASSUME n \in Nat, NEW i \in 0 .. n, AtByte(i)
    PROVE  /\ BytesLeft = n - i
           /\ WordWise => i + WordBytes <= WordPart(n) /\ Multiple(i, WordBytes)
           /\ ~WordWise => i >= WordPart(n)
<1>1. ByteBits \in Int /\ ByteBits > 0
    BY BitmapAssumption
<1>2. read = i * ByteBits
    BY <1>1 DEF AtByte
<1>3. (i * ByteBits) \div ByteBits = i
    BY <1>1, DivideProduct
<1>4. BytesLeft = n - i
    BY <1>2, <1>3 DEF BytesLeft
<1>5. /\ WordPart(n) \in Nat /\ WordPart(n) <= n /\ n < WordPart(n) + WordBytes
      /\ Multiple(WordPart(n), WordBytes)
    BY Words
<1>6. i <= WordPart(n) => Multiple(i, WordBytes)
    BY DEF AtByte
<1>7. i < WordPart(n) => i + WordBytes <= WordPart(n)
    BY <1>5, <1>6, MultipleGap, BitmapAssumption
<1>8. WordWise <=> n - i >= WordBytes
    BY <1>4 DEF WordWise
<1> QED BY <1>4, <1>5, <1>6, <1>7, <1>8, BitmapAssumption

\* A value that is taken whole is all ones or all zeroes, and "set" says which.
WholeValue == StepOver \/ OpenRun \/ CloseRun

LEMMA WholeValueTaken ==
    ASSUME ScanType, WholeValue
    PROVE  /\ NextValue /\ ~done /\ left = 0 /\ left' = 0 /\ ~done'
           /\ B' = B /\ n' = n /\ read' = read + ValueBits
           /\ set' \in BOOLEAN
           /\ Value = IF set' THEN 0 .. ValueBits - 1 ELSE {}
           /\ pos' = pos + IF (set' <=> set) /\ ~WordWise THEN 1 ELSE ValueBits
<1>0. set \in BOOLEAN
    BY DEF ScanType
<1>1. CASE StepOver
    <2>1. set' = set
        BY <1>1 DEF StepOver
    <2>2. Value = IF set' THEN 0 .. ValueBits - 1 ELSE {}
        BY <1>1, <2>1 DEF StepOver
    <2>3. ValueBits = IF WordWise THEN ValueBits ELSE ValueBits
        OBVIOUS
    <2>4. pos' = pos + IF WordWise THEN ValueBits ELSE 1
        BY <1>1 DEF StepOver
    <2>5. pos' = pos + IF (set' <=> set) /\ ~WordWise THEN 1 ELSE ValueBits
        BY <1>0, <2>1, <2>4
    <2> QED BY <1>0, <1>1, <2>1, <2>2, <2>5, Zenon DEF StepOver, NextValue
<1>2. CASE OpenRun
    <2>1. ~set /\ set' = TRUE /\ pos' = pos + ValueBits /\ Value = 0 .. ValueBits - 1
        BY <1>2 DEF OpenRun
    <2> QED BY <1>0, <1>2, <2>1, Zenon DEF OpenRun, NextValue
<1>3. CASE CloseRun
    <2>1. set /\ set' = FALSE /\ pos' = pos + ValueBits /\ Value = {}
        BY <1>3 DEF CloseRun
    <2> QED BY <1>0, <1>3, <2>1, Zenon DEF CloseRun, NextValue
<1> QED BY <1>1, <1>2, <1>3 DEF WholeValue

\* The last bit of the value is the value of "set" after it.
LEMMA SetAfterWhole ==
    ASSUME ScanType, WholeValue
    PROVE  set' <=> (read' - 1 \in B')
<1>1. /\ B' = B /\ read' = read + ValueBits /\ set' \in BOOLEAN
      /\ Value = IF set' THEN 0 .. ValueBits - 1 ELSE {}
    BY WholeValueTaken
<1>2. ValueBits - 1 \in 0 .. ValueBits - 1 /\ read + (ValueBits - 1) = read' - 1
    BY <1>1, ValueBitsPositive DEF ScanType
<1>3. ValueBits - 1 \in Value <=> read + (ValueBits - 1) \in B
    BY <1>2 DEF Value
<1> QED BY <1>1, <1>2, <1>3

\* A whole word.
LEMMA WordTaken ==
    ASSUME ScanInv, WholeValue, WordWise, NEW i \in 0 .. n, AtByte(i)
    PROVE  i + WordBytes \in 0 .. n' /\ AtByte(i + WordBytes)'
<1>0. ScanType /\ OrderInv
    BY DEF ScanInv, OrderInv
<1>1. /\ B' = B /\ n' = n /\ read' = read + ValueBits /\ left' = 0
      /\ set' \in BOOLEAN
      /\ Value = IF set' THEN 0 .. ValueBits - 1 ELSE {}
      /\ pos' = pos + ValueBits
    BY <1>0, WholeValueTaken
<1>2. i + WordBytes <= WordPart(n) /\ Multiple(i, WordBytes)
    BY <1>0, WordsLeft DEF ScanType
<1>3. ValueBits = WordBytes * ByteBits /\ ValueBits \in Nat
    BY ValueBitsPositive DEF ValueBits
<1> DEFINE k == i + WordBytes
<1>4. WordPart(n) \in Nat /\ WordPart(n) <= n
    BY <1>0, Words DEF ScanType
<1>5. k \in Nat /\ k \in 0 .. n /\ k <= WordPart(n) /\ i <= WordPart(n)
    BY <1>0, <1>2, <1>4, BitmapAssumption DEF ScanType
<1>6. read = ByteBits * i /\ pos = PosAt(B, n, i) /\ Covering = Before(i)
    BY DEF AtByte
<1>7. pos = ByteBits * i
    BY <1>0, <1>5, <1>6, PosInWords DEF ScanType
<1>8. read' = ByteBits * k /\ pos' = ByteBits * k /\ read' \in Nat
    <2>1. ByteBits * k = ByteBits * i + WordBytes * ByteBits
        BY BitmapAssumption
    <2> QED BY <1>0, <1>1, <1>3, <1>6, <1>7, <2>1 DEF ScanType
<1>9. PosAt(B, n, k) = ByteBits * k
    BY <1>0, <1>5, PosInWords DEF ScanType
<1>10. Multiple(WordBytes, WordBytes)
    <2>1. WordBytes = 1 * WordBytes
        BY BitmapAssumption
    <2> QED BY <2>1, MultipleWitness, BitmapAssumption
<1>11. Multiple(k, WordBytes)
    BY <1>2, <1>10, MultipleSum, BitmapAssumption
<1>12. Before(i) = {x \in B : x < ByteBits * i} /\ Before(k) = {x \in B : x < ByteBits * k}
    BY <1>0, <1>5, BeforeInWords DEF ScanType
<1>13. Next
    BY DEF Next, WholeValue
<1>14. Covering' = Covering \cup IF set' THEN pos .. pos' - 1 ELSE {}
    BY <1>0, <1>13, StepCovers
<1> HIDE DEF k
<1>15. Covering' = Before(k)
    <2>1. B \in SUBSET Nat /\ read \in Nat
        BY <1>0 DEF ScanType
    <2>2. pos = read /\ pos' = read + ValueBits /\ ByteBits * k = read + ValueBits
        BY <1>1, <1>6, <1>7, <1>8
    <2>5. Covering = {x \in B : x < read}
        BY <1>6, <1>12, Zenon
    <2>6. Before(k) = {x \in B : x < read + ValueBits}
        BY <1>12, <2>2, Zenon
    <2>3. CASE set'
        <3>1. \A b \in 0 .. ValueBits - 1 : read + b \in B
            BY <1>1, <2>3 DEF Value
        <3>2. ASSUME NEW x \in read .. read + ValueBits - 1 PROVE x \in B
            <4>1. x - read \in 0 .. ValueBits - 1 /\ read + (x - read) = x
                BY <1>3, <2>1
            <4> QED BY <3>1, <4>1
        <3>3. \A x \in Nat : x < read + ValueBits <=> x < read \/ x \in read .. read + ValueBits - 1
            BY <1>3, <2>1
        <3>4. Covering' = {x \in B : x < read} \cup (read .. read + ValueBits - 1)
            <4>1. Covering' = Covering \cup (pos .. pos' - 1)
                BY <1>14, <2>3
            <4>2. pos .. pos' - 1 = read .. read + ValueBits - 1
                <5>1. pos = read /\ pos' = read + ValueBits
                    BY <2>2
                <5> QED BY <5>1, <1>3, <2>1
            <4> QED BY <2>5, <4>1, <4>2, Zenon
        <3> QED BY <1>3, <2>1, <2>6, <3>2, <3>3, <3>4
    <2>4. CASE ~set'
        <3>1. \A b \in 0 .. ValueBits - 1 : read + b \notin B
            BY <1>1, <2>4 DEF Value
        <3>2. ASSUME NEW x \in B, x < read + ValueBits PROVE x < read
            <4>1. CASE x >= read
                <5>1. x - read \in 0 .. ValueBits - 1 /\ read + (x - read) = x
                    BY <1>3, <2>1, <3>2, <4>1
                <5> QED BY <3>1, <3>2, <5>1
            <4> QED BY <2>1, <3>2, <4>1
        <3>3. Covering' = {x \in B : x < read}
            BY <1>14, <2>4, <2>5
        <3>4. \A x \in B : x < read => x < read + ValueBits
            BY <1>3, <2>1
        <3> QED BY <2>6, <3>2, <3>3, <3>4
    <2> QED BY <1>1, <2>3, <2>4
<1>16. AtByte(k)'
    BY <1>1, <1>8, <1>9, <1>11, <1>15 DEF AtByte, Before
<1> QED BY <1>1, <1>5, <1>16 DEF k

\* A whole byte after the last word: stepped over, or all of it taken.
LEMMA ByteTaken ==
    ASSUME ScanInv, WholeValue, ~WordWise, NEW i \in 0 .. n, AtByte(i)
    PROVE  i + 1 \in 0 .. n' /\ AtByte(i + 1)'
<1>0. /\ ScanType /\ OrderInv /\ n \in Nat /\ B \in SUBSET Nat /\ i \in Nat
      /\ set \in BOOLEAN
    BY DEF ScanInv, OrderInv, ScanType
<1>1. /\ NextValue
      /\ B' = B /\ n' = n /\ read' = read + ValueBits /\ left' = 0
      /\ set' \in BOOLEAN
      /\ Value = IF set' THEN 0 .. ValueBits - 1 ELSE {}
      /\ pos' = pos + IF (set' <=> set) THEN 1 ELSE ValueBits
    BY <1>0, WholeValueTaken
<1>2. ValueBits = ByteBits
    BY DEF ValueBits
<1>3. i >= WordPart(n) /\ BytesLeft = n - i
    BY <1>0, WordsLeft
<1>4. i < n /\ i + 1 \in 0 .. n
    BY <1>0, <1>1, <1>3 DEF NextValue
<1>5. /\ read = ByteBits * i /\ pos = PosAt(B, n, i) /\ Covering = Before(i)
      /\ read \in Nat /\ pos \in Nat
    BY <1>0 DEF AtByte, ScanType
<1>6. Value = ByteOf(B, i)
    BY <1>2, <1>5, Zenon DEF Value, ByteOf
<1>7. set <=> SetBefore(B, i)
    <2>1. set <=> (ByteBits * i - 1 \in B)
        BY <1>5 DEF ScanInv
    <2>2. i = 0 => ByteBits * i - 1 \notin B
        BY <1>0, BitmapAssumption
    <2> QED BY <1>0, <2>1, <2>2 DEF SetBefore
<1>8. 0 \in 0 .. ByteBits - 1
    BY BitmapAssumption
<1>9. Skipped(B, n, i) <=> (set' <=> set)
    <2>1. Skipped(B, n, i) <=> ByteOf(B, i) = IF set THEN 0 .. ByteBits - 1 ELSE {}
        BY <1>3, <1>7 DEF Skipped
    <2>2. ByteOf(B, i) = IF set' THEN 0 .. ByteBits - 1 ELSE {}
        BY <1>1, <1>2, <1>6
    <2>3. 0 .. ByteBits - 1 # {}
        BY <1>8
    <2> QED BY <1>0, <1>1, <2>1, <2>2, <2>3
<1>10. /\ PosAt(B, n, i + 1) = PosAt(B, n, i) + IF Skipped(B, n, i) THEN 1 ELSE ByteBits
       /\ pos' = PosAt(B, n, i + 1)
    BY <1>0, <1>1, <1>2, <1>5, <1>9, PosNext
<1>11. read' = ByteBits * (i + 1)
    BY <1>0, <1>1, <1>2, <1>5, BitmapAssumption
<1>12. Before(i + 1) = Before(i) \cup UsedInByte(B, n, i)
    BY <1>0, BeforeNext
<1>13. Next
    BY DEF Next, WholeValue
<1>14. Covering' = Covering \cup IF set' THEN pos .. pos' - 1 ELSE {}
    BY <1>0, <1>13, StepCovers
<1>15. UsedInByte(B, n, i) = IF set' THEN pos .. pos' - 1 ELSE {}
    <2>1. CASE ~set'
        <3>1. ByteOf(B, i) = {}
            BY <1>1, <1>6, <2>1
        <3> QED BY <2>1, <3>1 DEF UsedInByte
    <2>2. CASE set' /\ set
        <3>1. ByteOf(B, i) = 0 .. ByteBits - 1 /\ Skipped(B, n, i)
            BY <1>1, <1>2, <1>6, <1>9, <2>2
        <3>2. UsedInByte(B, n, i) = {PosAt(B, n, i)}
            BY <1>8, <3>1 DEF UsedInByte
        <3>3. pos' = pos + 1
            BY <1>1, <2>2
        <3>4. pos .. pos' - 1 = {pos}
            BY <1>5, <3>3
        <3> QED BY <1>5, <2>2, <3>2, <3>4
    <2>3. CASE set' /\ ~set
        <3>1. ByteOf(B, i) = 0 .. ByteBits - 1 /\ ~Skipped(B, n, i)
            BY <1>1, <1>2, <1>6, <1>9, <2>3
        <3>2. UsedInByte(B, n, i) = {PosAt(B, n, i) + b : b \in 0 .. ByteBits - 1}
            BY <3>1 DEF UsedInByte
        <3>3. pos' = pos + ByteBits
            BY <1>1, <1>2, <2>3
        <3>4. {pos + b : b \in 0 .. ByteBits - 1} = pos .. pos' - 1
            <4>1. ASSUME NEW x \in pos .. pos' - 1
                  PROVE  x - pos \in 0 .. ByteBits - 1 /\ x = pos + (x - pos)
                BY <1>5, <3>3, BitmapAssumption
            <4>2. \A b \in 0 .. ByteBits - 1 : pos + b \in pos .. pos' - 1
                BY <1>5, <3>3, BitmapAssumption
            <4> QED BY <4>1, <4>2
        <3> QED BY <1>5, <2>3, <3>2, <3>4
    <2> QED BY <1>0, <1>1, <2>1, <2>2, <2>3
<1>16. Covering' = Before(i + 1)
    BY <1>5, <1>12, <1>14, <1>15
<1>17. WordPart(n) \in Nat
    BY <1>0, Words
<1>18. ~(i + 1 <= WordPart(n))
    BY <1>0, <1>3, <1>17
<1>19. AtByte(i + 1)'
    BY <1>1, <1>10, <1>11, <1>16, <1>18 DEF AtByte, Before
<1> QED BY <1>1, <1>4, <1>19

\* A value that is neither all ones nor all zeroes.
LEMMA MixedTaken ==
    ASSUME ScanInv, MixedValue, NEW i \in 0 .. n, AtByte(i)
    PROVE  InWord(i)' \/ InByte(i)'
<1>0. /\ ScanType /\ OrderInv /\ n \in Nat /\ B \in SUBSET Nat /\ i \in Nat
    BY DEF ScanInv, OrderInv, ScanType
<1>1. /\ NextValue /\ Value \notin {{}, 0 .. ValueBits - 1} /\ left' = ValueBits
      /\ UNCHANGED <<B, n, read, pos, set, run_start, used, done>>
    BY DEF MixedValue
<1>2. /\ read = ByteBits * i /\ pos = PosAt(B, n, i) /\ Covering = Before(i)
      /\ read \in Nat /\ pos \in Nat
    BY <1>0 DEF AtByte, ScanType
<1>3. Covering' = Covering
    BY <1>1 DEF Covering, Covered
<1>4. WordPart(n) \in Nat /\ WordPart(n) <= n
    BY <1>0, Words
<1>5. CASE WordWise
    <2>1. i + WordBytes <= WordPart(n) /\ Multiple(i, WordBytes)
        BY <1>0, <1>5, WordsLeft
    <2>2. i <= WordPart(n)
        BY <1>0, <1>4, <2>1, BitmapAssumption
    <2>3. pos = ByteBits * i /\ Before(i) = {x \in B : x < ByteBits * i}
        BY <1>0, <1>2, <2>2, PosInWords, BeforeInWords
    <2>4. left' = WordBytes * ByteBits /\ left' \in 1 .. WordBytes * ByteBits
        BY <1>1, <1>5, ValueBitsPositive DEF ValueBits
    <2>5. read' = ByteBits * (i + WordBytes) - left'
        BY <1>0, <1>1, <1>2, <2>4, BitmapAssumption
    <2>6. pos' = read' /\ Covering' = {x \in B : x < read'}
        BY <1>1, <1>2, <1>3, <2>3
    <2>7. (i + WordBytes <= WordPart(n))'
        BY <1>1, <2>1 DEF WordPart
    <2> QED BY <1>1, <2>1, <2>4, <2>5, <2>6, <2>7 DEF InWord
<1>6. CASE ~WordWise
    <2>1. i >= WordPart(n) /\ BytesLeft = n - i
        BY <1>0, <1>6, WordsLeft
    <2>2. i < n
        BY <1>0, <1>1, <2>1 DEF NextValue
    <2>3. left' = ByteBits /\ ByteBits \in 1 .. ByteBits /\ ValueBits = ByteBits
        BY <1>1, <1>6, BitmapAssumption DEF ValueBits
    <2>4. Value = ByteOf(B, i)
        BY <1>2, <2>3, Zenon DEF Value, ByteOf
    <2>5. ~Skipped(B, n, i)
        BY <1>1, <2>3, <2>4 DEF Skipped
    <2>6. read' = ByteBits * (i + 1) - left'
        BY <1>0, <1>1, <1>2, <2>3, BitmapAssumption
    <2>7. pos' = PosAt(B, n, i) + (ByteBits - left')
        BY <1>1, <1>2, <2>3, BitmapAssumption
    <2>8. {c \in ByteOf(B, i) : c < ByteBits - left'} = {}
        BY <2>3, BitmapAssumption DEF ByteOf
    <2>9. Covering' = Before(i) \cup
             {PosAt(B, n, i) + b : b \in {c \in ByteOf(B, i) : c < ByteBits - left'}}
        BY <1>2, <1>3, <2>8
    <2> QED BY <1>1, <2>1, <2>2, <2>3, <2>5, <2>6, <2>7, <2>9 DEF InByte, Before
<1> QED BY <1>5, <1>6

\* One bit of a value.
LEMMA BitTaken ==
    ASSUME ScanInv, NextBit
    PROVE  /\ ~done /\ ~done' /\ B' = B /\ n' = n
           /\ left' = left - 1 /\ read' = read + 1 /\ pos' = pos + 1
           /\ set' <=> read \in B
           /\ Covering' = Covering \cup IF read \in B THEN {pos} ELSE {}
<1>0. ScanType /\ OrderInv
    BY DEF ScanInv, OrderInv
<1>1. /\ B' = B /\ n' = n /\ done' = done /\ left > 0
      /\ left' = left - 1 /\ read' = read + 1 /\ pos' = pos + 1
    BY DEF NextBit
<1>2. set' <=> read \in B
    BY DEF NextBit
<1>3. ~done
    BY <1>0, <1>1 DEF OrderInv
<1>4. Next
    BY DEF Next
<1>5. Covering' = Covering \cup IF set' THEN pos .. pos' - 1 ELSE {}
    BY <1>0, <1>4, StepCovers
<1>6. pos .. pos' - 1 = {pos}
    BY <1>0, <1>1 DEF ScanType
<1> QED BY <1>1, <1>2, <1>3, <1>5, <1>6

LEMMA BitOfWord ==
    ASSUME ScanInv, NextBit, NEW i \in 0 .. n, InWord(i)
    PROVE  \E j \in 0 .. n' : AtByte(j)' \/ InWord(j)'
<1>0. /\ ScanType /\ n \in Nat /\ B \in SUBSET Nat /\ i \in Nat /\ read \in Nat
    BY DEF ScanInv, OrderInv, ScanType
<1>1. /\ B' = B /\ n' = n
      /\ left' = left - 1 /\ read' = read + 1 /\ pos' = pos + 1
      /\ Covering' = Covering \cup IF read \in B THEN {pos} ELSE {}
    BY BitTaken
<1> DEFINE k == i + WordBytes
<1>2. /\ k <= WordPart(n) /\ Multiple(i, WordBytes)
      /\ left \in 1 .. WordBytes * ByteBits
      /\ read = ByteBits * k - left
      /\ pos = read
      /\ Covering = {x \in B : x < read}
    BY DEF InWord
<1>3. WordPart(n) \in Nat /\ WordPart(n) <= n
    BY <1>0, Words
<1>4. k \in Nat /\ k \in 0 .. n
    BY <1>0, <1>2, <1>3, BitmapAssumption
<1>5. ByteBits * k \in Nat /\ WordBytes * ByteBits \in Nat
    BY <1>4, BitmapAssumption
<1> HIDE DEF k
<1>6. read' = ByteBits * k - left' /\ pos' = read'
    BY <1>0, <1>1, <1>2, <1>5
<1>7. Covering' = {x \in B : x < read'}
    <2>1. \A x \in Nat : x < read' <=> x < read \/ x = read
        BY <1>0, <1>1
    <2>2. CASE read \in B
        <3>1. Covering' = {x \in B : x < read} \cup {read}
            BY <1>1, <1>2, <2>2
        <3> QED BY <1>0, <2>1, <2>2, <3>1
    <2>3. CASE read \notin B
        <3>1. Covering' = {x \in B : x < read}
            BY <1>1, <1>2, <2>3
        <3> QED BY <1>0, <2>1, <2>3, <3>1
    <2> QED BY <2>2, <2>3
<1>8. CASE left' = 0
    <2>1. read' = ByteBits * k
        BY <1>5, <1>6, <1>8
    <2>2. PosAt(B, n, k) = ByteBits * k /\ Before(k) = {x \in B : x < ByteBits * k}
        BY <1>0, <1>2, <1>4, PosInWords, BeforeInWords
    <2>3. Multiple(WordBytes, WordBytes)
        <3>1. WordBytes = 1 * WordBytes
            BY BitmapAssumption
        <3> QED BY <3>1, MultipleWitness, BitmapAssumption
    <2>4. Multiple(k, WordBytes)
        BY <1>2, <2>3, MultipleSum, BitmapAssumption DEF k
    <2>5. Covering' = Before(k)
        BY <1>7, <2>1, <2>2
    <2>6. AtByte(k)'
        BY <1>1, <1>6, <1>8, <2>1, <2>2, <2>4, <2>5 DEF AtByte, Before
    <2> QED BY <1>1, <1>4, <2>6
<1>9. CASE left' # 0
    <2>1. left' \in 1 .. WordBytes * ByteBits
        BY <1>1, <1>2, <1>5, <1>9
    <2>2. (k <= WordPart(n))' /\ k' = k
        BY <1>1, <1>2 DEF WordPart, k
    <2>3. InWord(i)'
        BY <1>1, <1>2, <1>6, <1>7, <2>1, <2>2 DEF InWord, k
    <2> QED BY <1>1, <2>3
<1> QED BY <1>8, <1>9

LEMMA BitInByte ==
    ASSUME ScanInv, NextBit, NEW i \in 0 .. n, InByte(i)
    PROVE  \E j \in 0 .. n' : AtByte(j)' \/ InByte(j)'
<1>0. /\ ScanType /\ n \in Nat /\ B \in SUBSET Nat /\ i \in Nat /\ read \in Nat
    BY DEF ScanInv, OrderInv, ScanType
<1>1. /\ B' = B /\ n' = n
      /\ left' = left - 1 /\ read' = read + 1 /\ pos' = pos + 1
      /\ Covering' = Covering \cup IF read \in B THEN {pos} ELSE {}
    BY BitTaken
<1> DEFINE P == PosAt(B, n, i)
<1> DEFINE c == ByteBits - left
<1> DEFINE Found(k) == {P + b : b \in {d \in ByteOf(B, i) : d < k}}
<1>2. /\ i >= WordPart(n) /\ i < n /\ ~Skipped(B, n, i)
      /\ left \in 1 .. ByteBits
      /\ read = ByteBits * (i + 1) - left
      /\ pos = P + c
      /\ Covering = Before(i) \cup Found(c)
    BY DEF InByte
<1>3. P \in Int
    BY <1>0, PosNext
<1>4. ByteBits * i \in Nat /\ ByteBits * (i + 1) = ByteBits * i + ByteBits
    BY <1>0, BitmapAssumption
<1>5. c \in 0 .. ByteBits - 1 /\ read = ByteBits * i + c
    BY <1>2, <1>4, BitmapAssumption
<1>6. c \in ByteOf(B, i) <=> read \in B
    BY <1>5 DEF ByteOf
<1>7. ByteBits - left' = c + 1 /\ read' = ByteBits * (i + 1) - left'
    BY <1>1, <1>2, <1>4, BitmapAssumption
<1> HIDE DEF P, c
<1>8. pos' = P + (c + 1)
    BY <1>1, <1>2, <1>3, <1>5
<1>9. Covering' = Before(i) \cup Found(c + 1)
    <2>1. \A d \in ByteOf(B, i) : d < c + 1 <=> d < c \/ d = c
        BY <1>5 DEF ByteOf
    <2>2. Found(c + 1) = Found(c) \cup IF read \in B THEN {P + c} ELSE {}
        BY <1>6, <2>1
    <2> HIDE DEF Found
    <2> QED BY <1>1, <1>2, <2>2
<1>10. CASE left' = 0
    <2>1. c + 1 = ByteBits
        BY <1>7, <1>10, BitmapAssumption
    <2>2. {d \in ByteOf(B, i) : d < c + 1} = ByteOf(B, i)
        BY <2>1, BitmapAssumption DEF ByteOf
    <2>3. UsedInByte(B, n, i) = Found(c + 1)
        BY <1>2, <2>2 DEF UsedInByte, P
    <2>4. Before(i + 1) = Before(i) \cup UsedInByte(B, n, i)
        BY <1>0, BeforeNext
    <2>5. Covering' = Before(i + 1)
        BY <1>9, <2>3, <2>4
    <2>6. pos' = PosAt(B, n, i + 1)
        BY <1>0, <1>2, <1>8, <2>1, PosNext DEF P
    <2>7. read' = ByteBits * (i + 1)
        BY <1>4, <1>7, <1>10, BitmapAssumption
    <2>8. WordPart(n) \in Nat /\ ~(i + 1 <= WordPart(n))
        BY <1>0, <1>2, Words
    <2>9. AtByte(i + 1)'
        BY <1>1, <1>10, <2>5, <2>6, <2>7, <2>8 DEF AtByte, Before
    <2>10. i + 1 \in 0 .. n'
        BY <1>0, <1>1, <1>2
    <2> QED BY <2>9, <2>10
<1>11. CASE left' # 0
    <2>1. left' \in 1 .. ByteBits
        BY <1>1, <1>2, <1>11, BitmapAssumption
    <2>2. /\ pos' = PosAt(B, n, i) + (ByteBits - left')
          /\ Covering' = Before(i) \cup
                 {PosAt(B, n, i) + b : b \in {d \in ByteOf(B, i) : d < ByteBits - left'}}
        BY <1>7, <1>8, <1>9 DEF P
    <2>3. InByte(i)'
        BY <1>1, <1>2, <1>7, <2>1, <2>2 DEF InByte, Before
    <2> QED BY <1>1, <2>3
<1> QED BY <1>10, <1>11

\* The end of the bitmap: all bytes are behind, and the open run is emitted.
LEMMA ScanFinished ==
    ASSUME ScanInv, FinishScan, NEW i \in 0 .. n, AtByte(i)
    PROVE  AtByte(i)' /\ Covered' = ScannedUsed(B, n)
<1>0. ScanType /\ OrderInv /\ n \in Nat /\ pos \in Nat
    BY DEF ScanInv, OrderInv, ScanType
<1>1. /\ ~done /\ left = 0 /\ BytesLeft = 0 /\ done' = TRUE
      /\ UNCHANGED <<B, n, read, left, pos, set, run_start>>
    BY DEF FinishScan
<1>2. i = n
    BY <1>0, <1>1, WordsLeft
<1>3. Next
    BY DEF Next
<1>4. Covering' = Covering \cup IF set' THEN pos .. pos' - 1 ELSE {}
    BY <1>0, <1>3, StepCovers
<1>5. pos .. pos' - 1 = {}
    BY <1>0, <1>1
<1>6. Covering' = Before(i)
    BY <1>4, <1>5 DEF AtByte
<1>7. Covering' = Covered'
    BY <1>1 DEF Covering
<1>8. AtByte(i)'
    BY <1>1, <1>6 DEF AtByte, Before, WordPart
<1> QED BY <1>2, <1>6, <1>7, <1>8 DEF Before, ScannedUsed

LEMMA ScanStep == ScanInv /\ [Next]_vars => ScanInv'
<1> SUFFICES ASSUME ScanInv, [Next]_vars PROVE ScanInv'
    OBVIOUS
<1>0. OrderInv /\ ScanType /\ Place
    BY DEF ScanInv, OrderInv
<1>1. OrderInv'
    BY <1>0, OrderInductive
<1>2. PICK i \in 0 .. n : AtByte(i) \/ InWord(i) \/ InByte(i)
    BY <1>0 DEF Place
<1>3. AtByte(i) => left = 0
    BY DEF AtByte
<1>4. InWord(i) \/ InByte(i) => left > 0
    BY DEF InWord, InByte
<1>5. CASE WholeValue
    <2>1. ~done' /\ left = 0
        BY <1>0, <1>5, WholeValueTaken
    <2>2. AtByte(i)
        BY <1>2, <1>4, <2>1
    <2>3. set' <=> (read' - 1 \in B')
        BY <1>0, <1>5, SetAfterWhole
    <2>4. Place'
        BY <1>5, <2>2, WordTaken, ByteTaken DEF Place
    <2> QED BY <1>1, <2>1, <2>3, <2>4 DEF ScanInv, ComputesScannedUsed
<1>6. CASE MixedValue
    <2>1. /\ ~done' /\ left = 0 /\ n' = n
          /\ UNCHANGED <<set, read, B>>
        BY <1>6 DEF MixedValue, NextValue
    <2>2. AtByte(i)
        BY <1>2, <1>4, <2>1
    <2>3. Place'
        BY <1>6, <2>1, <2>2, MixedTaken DEF Place
    <2>4. set' <=> (read' - 1 \in B')
        BY <2>1 DEF ScanInv
    <2> QED BY <1>1, <2>1, <2>3, <2>4 DEF ScanInv, ComputesScannedUsed
<1>7. CASE NextBit
    <2>1. ~done' /\ B' = B /\ read' = read + 1 /\ (set' <=> read \in B)
        BY <1>7, BitTaken
    <2>2. left > 0
        BY <1>7 DEF NextBit
    <2>3. InWord(i) \/ InByte(i)
        BY <1>2, <1>3, <2>2
    <2>4. Place'
        BY <1>7, <2>3, BitOfWord, BitInByte DEF Place
    <2>5. read' - 1 = read
        BY <1>0, <2>1 DEF ScanType
    <2> QED BY <1>1, <2>1, <2>4, <2>5 DEF ScanInv, ComputesScannedUsed
<1>8. CASE FinishScan
    <2>1. left = 0 /\ UNCHANGED <<B, n, set, read>>
        BY <1>8 DEF FinishScan
    <2>2. AtByte(i)
        BY <1>2, <1>4, <2>1
    <2>3. AtByte(i)' /\ Covered' = ScannedUsed(B, n)
        BY <1>8, <2>2, ScanFinished
    <2>4. Place'
        BY <2>1, <2>3 DEF Place
    <2>5. set' <=> (read' - 1 \in B')
        BY <2>1 DEF ScanInv
    <2>6. ComputesScannedUsed'
        BY <2>1, <2>3 DEF ComputesScannedUsed, ScannedUsed
    <2> QED BY <1>1, <2>4, <2>5, <2>6 DEF ScanInv
<1>9. CASE UNCHANGED vars
    <2>1. UNCHANGED <<B, n, read, left, pos, set, run_start, used, done>>
        BY <1>9 DEF vars
    <2>2. Covering' = Covering /\ Covered' = Covered
        BY <2>1 DEF Covering, Covered
    <2>3. AtByte(i)' \/ InWord(i)' \/ InByte(i)'
        BY <1>2, <2>1, <2>2 DEF AtByte, InWord, InByte, Before, WordPart
    <2>4. Place'
        BY <2>1, <2>3 DEF Place
    <2>5. (set' <=> (read' - 1 \in B')) /\ ComputesScannedUsed'
        BY <2>1, <2>2 DEF ScanInv, ComputesScannedUsed
    <2> QED BY <1>1, <2>4, <2>5 DEF ScanInv
<1> QED BY <1>5, <1>6, <1>7, <1>8, <1>9 DEF Next, WholeValue

LEMMA ScanInitially == Init => ScanInv
<1> SUFFICES ASSUME Init PROVE ScanInv
    OBVIOUS
<1>1. OrderInv /\ ScanType
    BY OrderInitially DEF OrderInv
<1>2. /\ read = 0 /\ left = 0 /\ pos = 0 /\ set = FALSE /\ done = FALSE /\ used = <<>>
    BY DEF Init
<1>3. n \in Nat /\ B \in SUBSET Nat
    BY <1>1 DEF ScanType
<1>4. WordPart(n) \in Nat
    BY <1>3, Words
<1>5. PosAt(B, n, 0) = ByteBits * 0 /\ ByteBits * 0 = 0
    BY <1>3, <1>4, PosInWords, BitmapAssumption
<1>6. Multiple(0, WordBytes)
    <2>1. 0 = 0 * WordBytes
        BY BitmapAssumption
    <2> QED BY <2>1, MultipleWitness, BitmapAssumption
<1>7. Before(0) = {}
    BY DEF Before
<1>8. Covering = {}
    BY <1>2 DEF Covering, Covered
<1>9. AtByte(0)
    BY <1>2, <1>5, <1>6, <1>7, <1>8 DEF AtByte
<1>10. Place
    BY <1>3, <1>9 DEF Place
<1>11. read - 1 \notin B
    BY <1>2, <1>3
<1> QED BY <1>1, <1>2, <1>10, <1>11 DEF ScanInv, ComputesScannedUsed

\* The inductive invariant: the position of the scan, and what it has found,
\* are those module Bitmap defines for the byte it is at.
THEOREM ScanInvariant == Spec => []ScanInv
BY ScanInitially, ScanStep, PTL DEF Spec

\* What the runs cover at the end is ScannedUsed, which the allocators build
\* their free space from: bits in words and in mixed bytes where they belong,
\* the clusters after a byte that was stepped over too low.
THEOREM ScanComputesScannedUsed == Spec => []ComputesScannedUsed
<1>1. ScanInv => ComputesScannedUsed
    BY DEF ScanInv
<1> QED BY <1>1, ScanInvariant, PTL

=============================================================================
