-------------------------- MODULE SpaceListProofs --------------------------
(***************************************************************************)
(* The free-space list, for every size of the space: space_list_remove and *)
(* the first-fit search keep the list sorted, with no empty entry and none *)
(* that touch, and do to it what FreeSpace does to a set of units.         *)
(***************************************************************************)
EXTENDS SpaceList, SpaceTheorems

-----------------------------------------------------------------------------
(* Sorted lists.                                                           *)

\* Every entry ends before every later one begins: Canonical says so of
\* neighbours only.
Sorted(list) ==
    /\ list \in Seq(Entry)
    /\ \A j, k \in 1 .. Len(list) : j < k => End(list[j]) < list[k].offset

\* The entries the loop has passed have no unit of the range.
Apart(e, off, len) == End(e) <= off \/ off + len <= e.offset

ListInv ==
    /\ Sorted(space_list)
    /\ removing \in BOOLEAN
    /\ offset \in Nat /\ length \in Nat
    /\ it \in 1 .. Len(space_list) + 1
    /\ ~removing => it = 1
    /\ removing => length > 0
    /\ removing => \A k \in 1 .. it - 1 : Apart(space_list[k], offset, length)

LEMMA EntryIn ==
    ASSUME NEW list \in Seq(Entry), NEW i \in 1 .. Len(list)
    PROVE  /\ list[i] \in Entry
           /\ list[i].offset \in Nat /\ list[i].length \in Nat /\ list[i].length > 0
           /\ End(list[i]) \in Nat /\ End(list[i]) = list[i].offset + list[i].length
<1>1. list[i] \in Entry
    OBVIOUS
<1>2. list[i].offset \in Nat /\ list[i].length \in Nat /\ list[i].length > 0
    BY <1>1 DEF Entry
<1> QED BY <1>1, <1>2 DEF End

\* What holds of neighbours holds of all: the first later entry that begins
\* too early would have a neighbour that ends too late.
LEMMA CanonicalSorted ==
    ASSUME NEW list, NEW m \in Nat, list \in [1 .. m -> Entry], Canonical(list)
    PROVE  Sorted(list)
<1>1. list \in Seq(Entry) /\ Len(list) = m /\ DOMAIN list = 1 .. m
    OBVIOUS
<1>2. \A j \in 1 .. m - 1 : End(list[j]) < list[j + 1].offset
    BY <1>1 DEF Canonical
<1>3. ASSUME NEW j \in 1 .. m
      PROVE  \A k \in 1 .. m : j < k => End(list[j]) < list[k].offset
    <2> DEFINE Bad == {k \in 1 .. m : j < k /\ ~(End(list[j]) < list[k].offset)}
    <2>1. ASSUME Bad # {} PROVE FALSE
        <3>1. Bad \in SUBSET Nat
            OBVIOUS
        <3> DEFINE F == Bad
        <3>2. \E k \in Bad : \A b \in Bad : k <= b
            <4> HIDE DEF Bad
            <4> QED BY <2>1, <3>1, LeastNatural
        <3>3. PICK k \in Bad : \A b \in Bad : k <= b
            BY <3>2
        <3>4. k \in 1 .. m /\ j < k /\ ~(End(list[j]) < list[k].offset)
            OBVIOUS
        <3>5. CASE k = j + 1
            BY <1>2, <3>4, <3>5
        <3>6. CASE k # j + 1
            <4>1. k - 1 \in 1 .. m /\ j < k - 1 /\ k - 1 \in 1 .. m - 1
                BY <3>4, <3>6
            <4>2. k - 1 \notin Bad
                <5> HIDE DEF Bad
                <5> QED BY <3>3, <3>4
            <4>3. End(list[j]) < list[k - 1].offset
                BY <4>1, <4>2
            <4>4. End(list[k - 1]) < list[k].offset
                BY <1>2, <4>1
            <4>5. /\ list[k - 1].offset \in Nat /\ list[k - 1].length > 0
                  /\ End(list[k - 1]) = list[k - 1].offset + list[k - 1].length
                  /\ list[k - 1].length \in Nat
                  /\ End(list[j]) \in Nat /\ list[k].offset \in Nat
                BY <1>1, <3>4, <4>1, EntryIn
            <4> QED BY <3>4, <4>3, <4>4, <4>5
        <3> QED BY <3>5, <3>6
    <2> QED BY <2>1
<1> QED BY <1>1, <1>3 DEF Sorted

LEMMA SortedCanonical ==
    ASSUME NEW list, Sorted(list)
    PROVE  Canonical(list)
<1>1. list \in Seq(Entry) /\ DOMAIN list = 1 .. Len(list) /\ Len(list) \in Nat
    BY DEF Sorted
<1>2. \A i \in DOMAIN list : list[i] \in Entry
    BY <1>1, EntryIn
<1>3. \A i \in 1 .. Len(list) - 1 : End(list[i]) < list[i + 1].offset
    BY <1>1 DEF Sorted
<1> QED BY <1>2, <1>3 DEF Canonical

\* The units of a list, entry by entry.
LEMMA CoveredUnits ==
    ASSUME NEW list \in Seq(Entry)
    PROVE  \A x : x \in Covered(list) <=>
               \E k \in 1 .. Len(list) :
                   x \in Nat /\ list[k].offset <= x /\ x < End(list[k])
<1>1. DOMAIN list = 1 .. Len(list)
    OBVIOUS
<1>2. \A x : x \in Covered(list) <=>
          \E k \in 1 .. Len(list) : x \in Extent(list[k].offset, list[k].length)
    BY <1>1, Zenon DEF Covered
<1>3. ASSUME NEW k \in 1 .. Len(list), NEW x
      PROVE  x \in Extent(list[k].offset, list[k].length)
               <=> x \in Nat /\ list[k].offset <= x /\ x < End(list[k])
    BY EntryIn DEF Extent
<1> QED BY <1>2, <1>3

-----------------------------------------------------------------------------
(* The three ways a list is changed.                                       *)

LEMMA Joined ==
    ASSUME NEW s \in Seq(Entry), NEW t \in Seq(Entry)
    PROVE  /\ s \o t \in Seq(Entry) /\ Len(s \o t) = Len(s) + Len(t)
           /\ \A k \in 1 .. Len(s) : (s \o t)[k] = s[k]
           /\ \A k \in 1 .. Len(t) : (s \o t)[Len(s) + k] = t[k]
OBVIOUS

LEMMA WithoutEntry ==
    ASSUME NEW list \in Seq(Entry), NEW i \in 1 .. Len(list)
    PROVE  /\ Without(list, i) \in Seq(Entry)
           /\ Len(Without(list, i)) = Len(list) - 1
           /\ \A k \in 1 .. Len(list) - 1 :
                  Without(list, i)[k] = IF k < i THEN list[k] ELSE list[k + 1]
<1> DEFINE a == SubSeq(list, 1, i - 1)
<1> DEFINE b == SubSeq(list, i + 1, Len(list))
<1>0. Len(list) \in Nat
    OBVIOUS
<1>1. a \in Seq(Entry) /\ Len(a) = i - 1 /\ \A k \in 1 .. i - 1 : a[k] = list[k]
    OBVIOUS
<1>2. /\ b \in Seq(Entry) /\ Len(b) = Len(list) - i
      /\ \A k \in 1 .. Len(list) - i : b[k] = list[i + k]
    OBVIOUS
<1> HIDE DEF a, b
<1>3. /\ a \o b \in Seq(Entry) /\ Len(a \o b) = Len(list) - 1
      /\ \A k \in 1 .. Len(list) - 1 : (a \o b)[k] = IF k < i THEN a[k] ELSE b[k - (i - 1)]
    BY <1>0, <1>1, <1>2
<1>4. ASSUME NEW k \in 1 .. Len(list) - 1
      PROVE  (a \o b)[k] = IF k < i THEN list[k] ELSE list[k + 1]
    <2>1. CASE k < i
        BY <1>1, <1>3, <2>1
    <2>2. CASE ~(k < i)
        <3>1. k - (i - 1) \in 1 .. Len(list) - i /\ i + (k - (i - 1)) = k + 1
            BY <1>0, <2>2
        <3> QED BY <1>2, <1>3, <2>2, <3>1
    <2> QED BY <2>1, <2>2
<1> QED BY <1>3, <1>4 DEF Without, a, b

LEMMA ReplaceEntry ==
    ASSUME NEW list \in Seq(Entry), NEW i \in 1 .. Len(list),
           NEW x \in Entry, NEW y \in Entry
    PROVE  /\ Replace(list, i, <<x, y>>) \in Seq(Entry)
           /\ Len(Replace(list, i, <<x, y>>)) = Len(list) + 1
           /\ \A k \in 1 .. Len(list) + 1 :
                  Replace(list, i, <<x, y>>)[k] =
                      IF k < i THEN list[k]
                      ELSE IF k = i THEN x
                      ELSE IF k = i + 1 THEN y ELSE list[k - 1]
<1> DEFINE a == SubSeq(list, 1, i - 1)
<1> DEFINE b == SubSeq(list, i + 1, Len(list))
<1> DEFINE c == <<x, y>>
<1>0. Len(list) \in Nat
    OBVIOUS
<1>1. a \in Seq(Entry) /\ Len(a) = i - 1 /\ \A k \in 1 .. i - 1 : a[k] = list[k]
    OBVIOUS
<1>2. /\ b \in Seq(Entry) /\ Len(b) = Len(list) - i
      /\ \A k \in 1 .. Len(list) - i : b[k] = list[i + k]
    OBVIOUS
<1>3. c \in Seq(Entry) /\ Len(c) = 2 /\ c[1] = x /\ c[2] = y
    OBVIOUS
<1> HIDE DEF a, b, c
<1>4. /\ a \o c \in Seq(Entry) /\ Len(a \o c) = i - 1 + 2
      /\ \A k \in 1 .. i - 1 : (a \o c)[k] = a[k]
      /\ \A k \in 1 .. 2 : (a \o c)[i - 1 + k] = c[k]
    <2>1. /\ a \o c \in Seq(Entry) /\ Len(a \o c) = Len(a) + Len(c)
          /\ \A k \in 1 .. Len(a) : (a \o c)[k] = a[k]
          /\ \A k \in 1 .. Len(c) : (a \o c)[Len(a) + k] = c[k]
        BY <1>1, <1>3, Joined
    <2> QED BY <1>1, <1>3, <2>1, Zenon
<1> DEFINE d == a \o c
<1>5. d \in Seq(Entry) /\ Len(d) = i + 1 /\ d[i] = x /\ d[i + 1] = y
      /\ \A k \in 1 .. i - 1 : d[k] = list[k]
    <2>1. i - 1 + 1 = i /\ i - 1 + 2 = i + 1 /\ 1 \in 1 .. 2 /\ 2 \in 1 .. 2
        OBVIOUS
    <2>2. d[i] = c[1] /\ d[i + 1] = c[2]
        <3>1. d[i - 1 + 1] = c[1] /\ d[i - 1 + 2] = c[2]
            BY <1>4, <2>1
        <3> QED BY <2>1, <3>1
    <2> QED BY <1>1, <1>3, <1>4, <2>2
<1> HIDE DEF d
<1>6. /\ d \o b \in Seq(Entry) /\ Len(d \o b) = i + 1 + (Len(list) - i)
      /\ \A k \in 1 .. i + 1 : (d \o b)[k] = d[k]
      /\ \A k \in 1 .. Len(list) - i : (d \o b)[i + 1 + k] = b[k]
    <2>1. /\ d \o b \in Seq(Entry) /\ Len(d \o b) = Len(d) + Len(b)
          /\ \A k \in 1 .. Len(d) : (d \o b)[k] = d[k]
          /\ \A k \in 1 .. Len(b) : (d \o b)[Len(d) + k] = b[k]
        BY <1>2, <1>5, Joined
    <2> QED BY <1>2, <1>5, <2>1, Zenon
<1>7. ASSUME NEW k \in 1 .. Len(list) + 1
      PROVE  (d \o b)[k] = IF k < i THEN list[k]
                           ELSE IF k = i THEN x
                           ELSE IF k = i + 1 THEN y ELSE list[k - 1]
    <2>1. CASE k <= i + 1
        <3>1. (d \o b)[k] = d[k]
            BY <1>6, <2>1
        <3> QED BY <1>5, <2>1, <3>1
    <2>2. CASE ~(k <= i + 1)
        <3> DEFINE m == k - (i + 1)
        <3>1. /\ m \in 1 .. Len(list) - i /\ i + m = k - 1 /\ i + 1 + m = k
              /\ ~(k < i) /\ k # i /\ k # i + 1
            BY <1>0, <2>2
        <3> HIDE DEF m
        <3>2. (d \o b)[i + 1 + m] = b[m] /\ b[m] = list[i + m]
            BY <1>2, <1>6, <3>1
        <3> QED BY <3>1, <3>2
    <2> QED BY <2>1, <2>2
<1>8. i + 1 + (Len(list) - i) = Len(list) + 1
    BY <1>0
<1>9. Replace(list, i, <<x, y>>) = d \o b
    BY DEF Replace, a, b, c, d
<1> QED BY <1>6, <1>7, <1>8, <1>9

\* An entry gone: the rest keep their order, and their units.
LEMMA SortedWithout ==
    ASSUME NEW list, Sorted(list), NEW i \in 1 .. Len(list)
    PROVE  /\ Sorted(Without(list, i))
           /\ Covered(Without(list, i)) = Covered(list) \ Extent(list[i].offset, list[i].length)
<1> DEFINE new == Without(list, i)
<1>1. list \in Seq(Entry) /\ Len(list) \in Nat
    BY DEF Sorted
<1>2. /\ new \in Seq(Entry) /\ Len(new) = Len(list) - 1
      /\ \A k \in 1 .. Len(list) - 1 : new[k] = IF k < i THEN list[k] ELSE list[k + 1]
    BY <1>1, WithoutEntry
<1> HIDE DEF new
<1> DEFINE At(k) == IF k < i THEN k ELSE k + 1
<1>3. \A k \in 1 .. Len(new) : At(k) \in 1 .. Len(list) /\ At(k) # i /\ new[k] = list[At(k)]
    <2> TAKE k \in 1 .. Len(new)
    <2>1. k \in 1 .. Len(list) - 1
        BY <1>2
    <2>2. CASE k < i
        BY <1>1, <1>2, <2>1, <2>2
    <2>3. CASE ~(k < i)
        BY <1>1, <1>2, <2>1, <2>3
    <2> QED BY <2>2, <2>3
<1>4. \A j, k \in 1 .. Len(new) : j < k => At(j) < At(k)
    BY <1>2
<1>5. \A m \in 1 .. Len(list) : m # i => \E k \in 1 .. Len(new) : At(k) = m
    <2> TAKE m \in 1 .. Len(list)
    <2>1. CASE m < i
        <3>1. m \in 1 .. Len(new) /\ At(m) = m
            BY <1>1, <1>2, <2>1
        <3> QED BY <3>1
    <2>2. CASE m > i
        <3>1. m - 1 \in 1 .. Len(new) /\ At(m - 1) = m
            BY <1>1, <1>2, <2>2
        <3> QED BY <3>1
    <2> QED BY <2>1, <2>2
<1> HIDE DEF At
<1>6. Sorted(new)
    <2>1. ASSUME NEW j \in 1 .. Len(new), NEW k \in 1 .. Len(new), j < k
          PROVE  End(new[j]) < new[k].offset
        BY <1>3, <1>4, <2>1 DEF Sorted
    <2> QED BY <1>2, <2>1 DEF Sorted
<1>7. \A x : x \in Extent(list[i].offset, list[i].length)
               <=> x \in Nat /\ list[i].offset <= x /\ x < End(list[i])
    BY <1>1, EntryIn DEF Extent
<1>8. \A x : x \in Covered(list) <=>
          \E k \in 1 .. Len(list) : x \in Nat /\ list[k].offset <= x /\ x < End(list[k])
    BY <1>1, CoveredUnits
<1>9. \A x : x \in Covered(new) <=>
          \E k \in 1 .. Len(new) : x \in Nat /\ new[k].offset <= x /\ x < End(new[k])
    BY <1>2, CoveredUnits
<1>10. ASSUME NEW m \in 1 .. Len(list), m # i, NEW x \in Nat,
              list[m].offset <= x, x < End(list[m])
       PROVE  ~(list[i].offset <= x /\ x < End(list[i]))
    <2>1. m < i \/ i < m
        BY <1>1, <1>10
    <2>2. End(list[m]) < list[i].offset \/ End(list[i]) < list[m].offset
        BY <2>1 DEF Sorted
    <2>3. /\ End(list[m]) \in Nat /\ list[i].offset \in Nat
          /\ End(list[i]) \in Nat /\ list[m].offset \in Nat
        BY <1>1, EntryIn
    <2> QED BY <1>10, <2>2, <2>3
<1>11. ASSUME NEW x \in Covered(new)
       PROVE  x \in Covered(list) /\ x \notin Extent(list[i].offset, list[i].length)
    <2>1. PICK k \in 1 .. Len(new) : x \in Nat /\ new[k].offset <= x /\ x < End(new[k])
        BY <1>9
    <2>2. /\ At(k) \in 1 .. Len(list) /\ At(k) # i
          /\ list[At(k)].offset <= x /\ x < End(list[At(k)])
        BY <1>3, <2>1
    <2> QED BY <1>7, <1>8, <1>10, <2>1, <2>2
<1>12. ASSUME NEW x \in Covered(list), x \notin Extent(list[i].offset, list[i].length)
       PROVE  x \in Covered(new)
    <2>1. PICK m \in 1 .. Len(list) : x \in Nat /\ list[m].offset <= x /\ x < End(list[m])
        BY <1>8
    <2>2. m # i
        BY <1>7, <1>12, <2>1
    <2>3. PICK k \in 1 .. Len(new) : At(k) = m
        BY <1>5, <2>2
    <2> QED BY <1>3, <1>9, <2>1, <2>3
<1>13. Covered(new) = Covered(list) \ Extent(list[i].offset, list[i].length)
    BY <1>11, <1>12
<1> QED BY <1>6, <1>13 DEF new

\* A unit of one entry is in no other.
LEMMA OneEntry ==
    ASSUME NEW list, Sorted(list), NEW i \in 1 .. Len(list), NEW m \in 1 .. Len(list),
           NEW x \in Nat, list[m].offset <= x, x < End(list[m]),
           list[i].offset <= x, x < End(list[i])
    PROVE  m = i
<1>1. list \in Seq(Entry) /\ Len(list) \in Nat
    BY DEF Sorted
<1>2. m < i \/ i < m \/ m = i
    BY <1>1
<1>3. m < i => End(list[m]) < list[i].offset
    BY DEF Sorted
<1>4. i < m => End(list[i]) < list[m].offset
    BY DEF Sorted
<1>5. /\ End(list[m]) \in Nat /\ list[i].offset \in Nat
      /\ End(list[i]) \in Nat /\ list[m].offset \in Nat
    BY <1>1, EntryIn
<1> QED BY <1>2, <1>3, <1>4, <1>5

LEMMA ExtentUnits ==
    ASSUME NEW e \in Entry
    PROVE  /\ e.offset \in Nat /\ e.length \in Nat /\ e.length > 0 /\ End(e) \in Nat
           /\ End(e) = e.offset + e.length
           /\ \A x : x \in Extent(e.offset, e.length)
                       <=> x \in Nat /\ e.offset <= x /\ x < End(e)
<1>1. e.offset \in Nat /\ e.length \in Nat /\ e.length > 0
    BY DEF Entry
<1> QED BY <1>1 DEF End, Extent

LEMMA EntrySet ==
    ASSUME NEW list \in Seq(Entry), NEW i \in 1 .. Len(list), NEW e \in Entry
    PROVE  /\ [list EXCEPT ![i] = e] \in Seq(Entry)
           /\ Len([list EXCEPT ![i] = e]) = Len(list)
           /\ \A k \in 1 .. Len(list) :
                  [list EXCEPT ![i] = e][k] = IF k = i THEN e ELSE list[k]
OBVIOUS

\* An entry trimmed: the list stays sorted, and covers what the entry does now.
LEMMA SortedTrimmed ==
    ASSUME NEW list, Sorted(list), NEW i \in 1 .. Len(list), NEW e \in Entry,
           list[i].offset <= e.offset, End(e) <= End(list[i]),
           NEW new \in Seq(Entry), Len(new) = Len(list),
           \A k \in 1 .. Len(list) : new[k] = IF k = i THEN e ELSE list[k]
    PROVE  /\ Sorted(new)
           /\ Covered(new) = (Covered(list) \ Extent(list[i].offset, list[i].length))
                                 \cup Extent(e.offset, e.length)
<1>1. list \in Seq(Entry) /\ Len(list) \in Nat
    BY DEF Sorted
<1>2. /\ new \in Seq(Entry) /\ Len(new) = Len(list)
      /\ \A k \in 1 .. Len(list) : new[k] = IF k = i THEN e ELSE list[k]
    BY <1>1
<1>3. \A k \in 1 .. Len(list) :
          /\ list[k].offset \in Nat /\ End(list[k]) \in Nat
          /\ new[k].offset \in Nat /\ End(new[k]) \in Nat
          /\ list[k].offset <= new[k].offset /\ End(new[k]) <= End(list[k])
          /\ k # i => new[k] = list[k]
    <2> TAKE k \in 1 .. Len(list)
    <2>1. list[k].offset \in Nat /\ End(list[k]) \in Nat
        BY <1>1, EntryIn
    <2>2. e.offset \in Nat /\ End(e) \in Nat
        BY ExtentUnits
    <2>3. CASE k = i
        BY <1>2, <2>1, <2>2, <2>3
    <2>4. CASE k # i
        BY <1>2, <2>1, <2>4
    <2> QED BY <2>3, <2>4
<1>4. Sorted(new)
    <2>1. ASSUME NEW j \in 1 .. Len(new), NEW k \in 1 .. Len(new), j < k
          PROVE  End(new[j]) < new[k].offset
        <3>1. j \in 1 .. Len(list) /\ k \in 1 .. Len(list)
            BY <1>2
        <3>2. End(list[j]) < list[k].offset
            BY <2>1, <3>1 DEF Sorted
        <3>3. End(new[j]) <= End(list[j]) /\ End(new[j]) \in Nat /\ End(list[j]) \in Nat
            BY <1>3, <3>1
        <3>4. /\ list[k].offset <= new[k].offset
              /\ list[k].offset \in Nat /\ new[k].offset \in Nat
            BY <1>3, <3>1
        <3> QED BY <3>2, <3>3, <3>4
    <2> QED BY <1>2, <2>1 DEF Sorted
<1>5. \A x : x \in Extent(list[i].offset, list[i].length)
               <=> x \in Nat /\ list[i].offset <= x /\ x < End(list[i])
    BY <1>1, EntryIn, ExtentUnits
<1>6. \A x : x \in Extent(e.offset, e.length) <=> x \in Nat /\ e.offset <= x /\ x < End(e)
    BY ExtentUnits
<1>7. \A x : x \in Covered(list) <=>
          \E k \in 1 .. Len(list) : x \in Nat /\ list[k].offset <= x /\ x < End(list[k])
    BY <1>1, CoveredUnits
<1>8. \A x : x \in Covered(new) <=>
          \E k \in 1 .. Len(list) : x \in Nat /\ new[k].offset <= x /\ x < End(new[k])
    BY <1>2, CoveredUnits
<1>9. new[i] = e
    BY <1>2
<1>10. ASSUME NEW x \in Covered(new)
       PROVE  \/ x \in Covered(list) /\ x \notin Extent(list[i].offset, list[i].length)
              \/ x \in Extent(e.offset, e.length)
    <2>1. PICK k \in 1 .. Len(list) : x \in Nat /\ new[k].offset <= x /\ x < End(new[k])
        BY <1>8
    <2>2. CASE k = i
        BY <1>6, <1>9, <2>1, <2>2
    <2>3. CASE k # i
        <3>1. list[k].offset <= x /\ x < End(list[k])
            BY <1>3, <2>1, <2>3
        <3> QED BY <1>5, <1>7, <2>1, <2>3, <3>1, OneEntry
    <2> QED BY <2>2, <2>3
<1>11. ASSUME NEW x \in Covered(list), x \notin Extent(list[i].offset, list[i].length)
       PROVE  x \in Covered(new)
    <2>1. PICK k \in 1 .. Len(list) : x \in Nat /\ list[k].offset <= x /\ x < End(list[k])
        BY <1>7
    <2>2. k # i
        BY <1>5, <1>11, <2>1
    <2>3. new[k] = list[k]
        BY <1>3, <2>2
    <2> QED BY <1>8, <2>1, <2>3
<1>12. ASSUME NEW x \in Extent(e.offset, e.length) PROVE x \in Covered(new)
    BY <1>6, <1>8, <1>9
<1>13. Covered(new) = (Covered(list) \ Extent(list[i].offset, list[i].length))
                          \cup Extent(e.offset, e.length)
    BY <1>10, <1>11, <1>12
<1> QED BY <1>2, <1>4, <1>13

\* An entry cut in two.
LEMMA SortedSplit ==
    ASSUME NEW list, Sorted(list), NEW i \in 1 .. Len(list), NEW d \in Entry, NEW e \in Entry,
           list[i].offset <= d.offset, End(d) < e.offset, End(e) <= End(list[i])
    PROVE  /\ Sorted(Replace(list, i, <<d, e>>))
           /\ Covered(Replace(list, i, <<d, e>>))
                = (Covered(list) \ Extent(list[i].offset, list[i].length))
                      \cup Extent(d.offset, d.length) \cup Extent(e.offset, e.length)
<1> DEFINE new == Replace(list, i, <<d, e>>)
<1>1. list \in Seq(Entry) /\ Len(list) \in Nat
    BY DEF Sorted
<1>2. /\ new \in Seq(Entry) /\ Len(new) = Len(list) + 1
      /\ \A k \in 1 .. Len(list) + 1 :
            new[k] = IF k < i THEN list[k]
                     ELSE IF k = i THEN d
                     ELSE IF k = i + 1 THEN e ELSE list[k - 1]
    BY <1>1, ReplaceEntry
<1> HIDE DEF new
<1> DEFINE At(k) == IF k <= i THEN k ELSE k - 1
<1>3. /\ d.offset \in Nat /\ End(d) \in Nat /\ d.offset < End(d)
      /\ e.offset \in Nat /\ End(e) \in Nat /\ e.offset < End(e)
    BY ExtentUnits
<1>4. list[i].offset \in Nat /\ End(list[i]) \in Nat
    BY <1>1, EntryIn
<1>5. ASSUME NEW k \in 1 .. Len(new)
      PROVE  /\ At(k) \in 1 .. Len(list)
             /\ list[At(k)].offset <= new[k].offset /\ End(new[k]) <= End(list[At(k)])
             /\ new[k].offset \in Nat /\ End(new[k]) \in Nat
             /\ list[At(k)].offset \in Nat /\ End(list[At(k)]) \in Nat
             /\ At(k) # i => new[k] = list[At(k)]
             /\ At(k) = i => new[k] = d \/ new[k] = e
    <2>1. CASE k < i
        <3>1. At(k) = k /\ k \in 1 .. Len(list) /\ k # i /\ new[k] = list[k]
            BY <1>1, <1>2, <2>1
        <3>2. list[k].offset \in Nat /\ End(list[k]) \in Nat
            BY <1>1, <3>1, EntryIn
        <3> HIDE DEF At
        <3> QED BY <3>1, <3>2
    <2>2. CASE k = i
        <3>1. At(k) = i /\ new[k] = d
            BY <1>1, <1>2, <2>2
        <3> HIDE DEF At
        <3> QED BY <1>3, <1>4, <3>1
    <2>3. CASE k = i + 1
        <3>1. At(k) = i /\ new[k] = e
            BY <1>1, <1>2, <2>3
        <3> HIDE DEF At
        <3> QED BY <1>3, <1>4, <3>1
    <2>4. CASE k > i + 1
        <3>1. At(k) = k - 1 /\ k - 1 \in 1 .. Len(list) /\ k - 1 # i /\ new[k] = list[k - 1]
            BY <1>1, <1>2, <2>4
        <3>2. list[k - 1].offset \in Nat /\ End(list[k - 1]) \in Nat
            BY <1>1, <3>1, EntryIn
        <3> HIDE DEF At
        <3> QED BY <3>1, <3>2
    <2> QED BY <1>2, <2>1, <2>2, <2>3, <2>4
<1>6. \A j, k \in 1 .. Len(new) : j < k => At(j) < At(k) \/ (j = i /\ k = i + 1)
    BY <1>1, <1>2
<1>7. \A m \in 1 .. Len(list) : m # i => \E k \in 1 .. Len(new) : At(k) = m
    <2> TAKE m \in 1 .. Len(list)
    <2>1. CASE m < i
        <3>1. m \in 1 .. Len(new) /\ At(m) = m
            BY <1>1, <1>2, <2>1
        <3> QED BY <3>1
    <2>2. CASE m > i
        <3>1. m + 1 \in 1 .. Len(new) /\ At(m + 1) = m
            BY <1>1, <1>2, <2>2
        <3> QED BY <3>1
    <2> QED BY <2>1, <2>2
<1>8. i \in 1 .. Len(new) /\ i + 1 \in 1 .. Len(new) /\ new[i] = d /\ new[i + 1] = e
    BY <1>1, <1>2
<1> HIDE DEF At
<1>9. Sorted(new)
    <2>1. ASSUME NEW j \in 1 .. Len(new), NEW k \in 1 .. Len(new), j < k
          PROVE  End(new[j]) < new[k].offset
        <3>1. CASE At(j) < At(k)
            <4>1. End(list[At(j)]) < list[At(k)].offset
                BY <1>5, <3>1 DEF Sorted
            <4>2. /\ End(new[j]) <= End(list[At(j)])
                  /\ End(new[j]) \in Nat /\ End(list[At(j)]) \in Nat
                BY <1>5
            <4>3. /\ list[At(k)].offset <= new[k].offset
                  /\ list[At(k)].offset \in Nat /\ new[k].offset \in Nat
                BY <1>5
            <4> QED BY <4>1, <4>2, <4>3
        <3>2. CASE j = i /\ k = i + 1
            BY <1>8, <3>2
        <3> QED BY <1>6, <2>1, <3>1, <3>2
    <2> QED BY <1>2, <2>1 DEF Sorted
<1>10. \A x : x \in Extent(list[i].offset, list[i].length)
               <=> x \in Nat /\ list[i].offset <= x /\ x < End(list[i])
    BY <1>1, EntryIn, ExtentUnits
<1>11. /\ \A x : x \in Extent(d.offset, d.length) <=> x \in Nat /\ d.offset <= x /\ x < End(d)
       /\ \A x : x \in Extent(e.offset, e.length) <=> x \in Nat /\ e.offset <= x /\ x < End(e)
    BY ExtentUnits
<1>12. \A x : x \in Covered(list) <=>
          \E k \in 1 .. Len(list) : x \in Nat /\ list[k].offset <= x /\ x < End(list[k])
    BY <1>1, CoveredUnits
<1>13. \A x : x \in Covered(new) <=>
          \E k \in 1 .. Len(new) : x \in Nat /\ new[k].offset <= x /\ x < End(new[k])
    BY <1>2, CoveredUnits
<1>14. ASSUME NEW x \in Covered(new)
       PROVE  \/ x \in Covered(list) /\ x \notin Extent(list[i].offset, list[i].length)
              \/ x \in Extent(d.offset, d.length) \/ x \in Extent(e.offset, e.length)
    <2>1. PICK k \in 1 .. Len(new) : x \in Nat /\ new[k].offset <= x /\ x < End(new[k])
        BY <1>13
    <2>2. CASE At(k) = i
        BY <1>5, <1>11, <2>1, <2>2
    <2>3. CASE At(k) # i
        <3>1. At(k) \in 1 .. Len(list) /\ list[At(k)].offset <= x /\ x < End(list[At(k)])
            BY <1>5, <2>1, <2>3
        <3> QED BY <1>10, <1>12, <2>1, <2>3, <3>1, OneEntry
    <2> QED BY <2>2, <2>3
<1>15. ASSUME NEW x \in Covered(list), x \notin Extent(list[i].offset, list[i].length)
       PROVE  x \in Covered(new)
    <2>1. PICK m \in 1 .. Len(list) : x \in Nat /\ list[m].offset <= x /\ x < End(list[m])
        BY <1>12
    <2>2. m # i
        BY <1>10, <1>15, <2>1
    <2>3. PICK k \in 1 .. Len(new) : At(k) = m
        BY <1>7, <2>2
    <2> QED BY <1>5, <1>13, <2>1, <2>2, <2>3
<1>16. ASSUME NEW x, x \in Extent(d.offset, d.length) \/ x \in Extent(e.offset, e.length)
       PROVE  x \in Covered(new)
    BY <1>8, <1>11, <1>13, <1>16
<1>17. Covered(new) = (Covered(list) \ Extent(list[i].offset, list[i].length))
                          \cup Extent(d.offset, d.length) \cup Extent(e.offset, e.length)
    BY <1>14, <1>15, <1>16
<1> QED BY <1>9, <1>17 DEF new

-----------------------------------------------------------------------------
(* space_list_remove: the steps of its loop change nothing of what is free *)
(* besides the range, which counts as gone from the call on.               *)

Taken == Extent(offset, length)

\* A step of the loop, seen from outside.
Unseen == ListInv' /\ Free' = Free /\ result' = result

LEMMA RangeUnits ==
    ASSUME ListInv
    PROVE  \A x : x \in Taken <=> x \in Nat /\ offset <= x /\ x < offset + length
BY DEF ListInv, Taken, Extent

\* The entry the iterator points to.
LEMMA AtCurrent ==
    ASSUME ListInv, AtEntry
    PROVE  /\ removing /\ Sorted(space_list) /\ space_list \in Seq(Entry)
           /\ it \in 1 .. Len(space_list) /\ Len(space_list) \in Nat
           /\ Current \in Entry /\ Current = space_list[it]
           /\ Current.offset \in Nat /\ Current.length \in Nat /\ Current.length > 0
           /\ End(Current) = Current.offset + Current.length
           /\ offset \in Nat /\ length \in Nat /\ length > 0
           /\ Current.offset <= offset + length
<1>1. Sorted(space_list) /\ space_list \in Seq(Entry) /\ Len(space_list) \in Nat
    BY DEF ListInv, Sorted
<1>2. removing /\ it <= Len(space_list) /\ ~(Current.offset > offset + length)
    BY DEF AtEntry, Past
<1>3. it \in 1 .. Len(space_list)
    BY <1>1, <1>2 DEF ListInv
<1>4. Current \in Entry /\ Current = space_list[it]
    BY <1>1, <1>3, EntryIn DEF Current
<1>5. /\ Current.offset \in Nat /\ Current.length \in Nat /\ Current.length > 0
      /\ End(Current) = Current.offset + Current.length
    BY <1>4, ExtentUnits
<1>6. offset \in Nat /\ length \in Nat /\ length > 0
    BY <1>2 DEF ListInv
<1> QED BY <1>1, <1>2, <1>3, <1>4, <1>5, <1>6

LEMMA FreeWhile ==
    ASSUME removing = removing', offset' = offset, length' = length, removing,
           Covered(space_list') \ Taken = Covered(space_list) \ Taken
    PROVE  Free' = Free
BY DEF Free, Taken

LEMMA RemoveEntryUnseen ==
    ASSUME ListInv, RemoveEntry
    PROVE  Unseen
<1>1. /\ removing /\ Sorted(space_list) /\ space_list \in Seq(Entry)
      /\ it \in 1 .. Len(space_list) /\ Len(space_list) \in Nat
      /\ Current \in Entry /\ Current = space_list[it]
      /\ Current.offset \in Nat /\ Current.length \in Nat
      /\ End(Current) = Current.offset + Current.length
      /\ offset \in Nat /\ length \in Nat
    BY AtCurrent DEF RemoveEntry
<1>2. /\ space_list' = Without(space_list, it)
      /\ UNCHANGED <<removing, offset, length, it, result>>
      /\ Current.offset >= offset /\ End(Current) <= offset + length
    BY DEF RemoveEntry, Inside
<1>3. /\ Sorted(space_list')
      /\ Covered(space_list') = Covered(space_list) \ Extent(Current.offset, Current.length)
    BY <1>1, <1>2, SortedWithout
<1>4. /\ Len(space_list') = Len(space_list) - 1
      /\ \A k \in 1 .. Len(space_list) - 1 :
            space_list'[k] = IF k < it THEN space_list[k] ELSE space_list[k + 1]
    BY <1>1, <1>2, WithoutEntry
<1>5. Extent(Current.offset, Current.length) \subseteq Taken
    BY <1>1, <1>2 DEF Extent, Taken
<1>6. Covered(space_list') \ Taken = Covered(space_list) \ Taken
    BY <1>3, <1>5
<1>7. Free' = Free
    BY <1>1, <1>2, <1>6, FreeWhile
<1>8. \A k \in 1 .. it - 1 : space_list'[k] = space_list[k]
    <2> TAKE k \in 1 .. it - 1
    <2>1. k \in 1 .. Len(space_list) - 1 /\ k < it
        BY <1>1
    <2> QED BY <1>4, <2>1
<1>9. \A k \in 1 .. it - 1 : Apart(space_list'[k], offset, length)
    BY <1>1, <1>8 DEF ListInv
<1>10. ListInv'
    BY <1>1, <1>2, <1>3, <1>4, <1>9 DEF ListInv, Apart
<1> QED BY <1>2, <1>7, <1>10 DEF Unseen

\* The entry at the iterator is trimmed to one that is clear of the range.
LEMMA TrimUnseen ==
    ASSUME ListInv, AtEntry, NEW e \in Entry,
           space_list' \in Seq(Entry), Len(space_list') = Len(space_list),
           \A k \in 1 .. Len(space_list) :
               space_list'[k] = IF k = it THEN e ELSE space_list[k],
           it' = it + 1,
           UNCHANGED <<removing, offset, length, result>>,
           Current.offset <= e.offset, End(e) <= End(Current),
           Apart(e, offset, length),
           Extent(Current.offset, Current.length) \ Taken = Extent(e.offset, e.length) \ Taken
    PROVE  Unseen
<1>1. /\ removing /\ Sorted(space_list)
      /\ it \in 1 .. Len(space_list) /\ Len(space_list) \in Nat
      /\ Current = space_list[it]
    BY AtCurrent
<1>2. /\ Sorted(space_list') /\ Len(space_list') = Len(space_list)
      /\ \A k \in 1 .. Len(space_list) : space_list'[k] = IF k = it THEN e ELSE space_list[k]
      /\ Covered(space_list') = (Covered(space_list) \ Extent(Current.offset, Current.length))
                                     \cup Extent(e.offset, e.length)
    <2>1. space_list[it].offset <= e.offset /\ End(e) <= End(space_list[it])
        BY <1>1
    <2>2. /\ Sorted(space_list')
          /\ Covered(space_list') = (Covered(space_list)
                                         \ Extent(space_list[it].offset, space_list[it].length))
                                     \cup Extent(e.offset, e.length)
        BY <1>1, <2>1, SortedTrimmed
    <2> QED BY <1>1, <2>2, Zenon
<1>3. Extent(Current.offset, Current.length) \subseteq Covered(space_list)
    <2>1. space_list \in Seq(Entry)
        BY <1>1 DEF Sorted
    <2>2. \A x : x \in Extent(Current.offset, Current.length)
                   <=> x \in Nat /\ Current.offset <= x /\ x < End(Current)
        BY <1>1, <2>1, EntryIn, ExtentUnits
    <2> QED BY <1>1, <2>1, <2>2, CoveredUnits
<1>4. Covered(space_list') \ Taken = Covered(space_list) \ Taken
    BY <1>2, <1>3
<1>5. Free' = Free
    BY <1>1, <1>4, FreeWhile
<1>6. \A k \in 1 .. it' - 1 : Apart(space_list'[k], offset, length)
    <2> TAKE k \in 1 .. it' - 1
    <2>1. k \in 1 .. Len(space_list)
        BY <1>1
    <2>2. CASE k = it
        BY <1>2, <2>1, <2>2
    <2>3. CASE k # it
        <3>1. k \in 1 .. it - 1 /\ space_list'[k] = space_list[k]
            BY <1>1, <1>2, <2>1, <2>3
        <3> QED BY <1>1, <3>1 DEF ListInv
    <2> QED BY <2>2, <2>3
<1>7. ListInv'
    BY <1>1, <1>2, <1>6 DEF ListInv, Apart
<1> QED BY <1>5, <1>7 DEF Unseen

LEMMA TrimStartUnseen ==
    ASSUME ListInv, TrimStart
    PROVE  Unseen
<1> DEFINE e == [offset |-> offset + length,
                 length |-> Current.length - (offset + length - Current.offset)]
<1>0. AtEntry
    BY DEF TrimStart
<1>1. /\ Current.offset \in Nat /\ Current.length \in Nat
      /\ End(Current) = Current.offset + Current.length
      /\ offset \in Nat /\ length \in Nat /\ length > 0
    BY <1>0, AtCurrent
<1>2. /\ space_list' = [space_list EXCEPT ![it] = e]
      /\ it' = it + 1
      /\ UNCHANGED <<removing, offset, length, result>>
      /\ offset + length > Current.offset /\ offset + length < End(Current)
      /\ offset <= Current.offset
    BY DEF TrimStart, CutsStart
<1>3. e \in Entry /\ e.offset = offset + length /\ End(e) = End(Current)
    BY <1>1, <1>2 DEF Entry, End
<1> HIDE DEF e
<1>4. /\ \A x : x \in Extent(e.offset, e.length) <=> x \in Nat /\ e.offset <= x /\ x < End(e)
      /\ \A x : x \in Taken <=> x \in Nat /\ offset <= x /\ x < offset + length
      /\ \A x : x \in Extent(Current.offset, Current.length)
                  <=> x \in Nat /\ Current.offset <= x /\ x < End(Current)
    BY <1>0, <1>3, AtCurrent, ExtentUnits, RangeUnits
<1>5. Extent(Current.offset, Current.length) \ Taken = Extent(e.offset, e.length) \ Taken
    BY <1>1, <1>2, <1>3, <1>4
<1>6. Apart(e, offset, length)
    BY <1>1, <1>3 DEF Apart
<1>7. Current.offset <= e.offset /\ End(e) <= End(Current)
    BY <1>1, <1>2, <1>3
<1>8. /\ space_list' \in Seq(Entry) /\ Len(space_list') = Len(space_list)
      /\ \A k \in 1 .. Len(space_list) :
            space_list'[k] = IF k = it THEN e ELSE space_list[k]
    BY <1>0, <1>2, <1>3, AtCurrent, EntrySet
<1>9. it' = it + 1 /\ UNCHANGED <<removing, offset, length, result>>
    BY <1>2
<1> QED BY <1>0, <1>3, <1>5, <1>6, <1>7, <1>8, <1>9, TrimUnseen

LEMMA TrimEndUnseen ==
    ASSUME ListInv, TrimEnd
    PROVE  Unseen
<1> DEFINE e == [offset |-> Current.offset, length |-> offset - Current.offset]
<1>0. AtEntry
    BY DEF TrimEnd
<1>1. /\ Current.offset \in Nat /\ Current.length \in Nat
      /\ End(Current) = Current.offset + Current.length
      /\ offset \in Nat /\ length \in Nat /\ length > 0
      /\ Current \in Entry /\ Current = space_list[it]
      /\ space_list \in Seq(Entry) /\ it \in 1 .. Len(space_list)
    BY <1>0, AtCurrent
<1>2. /\ space_list' = [space_list EXCEPT ![it].length = offset - Current.offset]
      /\ it' = it + 1
      /\ UNCHANGED <<removing, offset, length, result>>
      /\ ~(offset + length > Current.offset /\ offset + length < End(Current))
      /\ offset > Current.offset /\ offset < End(Current)
    BY DEF TrimEnd, CutsStart, CutsEnd
<1>3. e \in Entry /\ e.offset = Current.offset /\ End(e) = offset
    BY <1>1, <1>2 DEF Entry, End
<1>4. [space_list[it] EXCEPT !.length = offset - Current.offset] = e
    BY <1>1 DEF Entry
<1>5. space_list' = [space_list EXCEPT ![it] = e]
    <2>1. space_list' = [space_list EXCEPT ![it] =
              [space_list[it] EXCEPT !.length = offset - Current.offset]]
        BY <1>2
    <2> QED BY <1>4, <2>1
<1> HIDE DEF e
<1>6. /\ \A x : x \in Extent(e.offset, e.length) <=> x \in Nat /\ e.offset <= x /\ x < End(e)
      /\ \A x : x \in Taken <=> x \in Nat /\ offset <= x /\ x < offset + length
      /\ \A x : x \in Extent(Current.offset, Current.length)
                  <=> x \in Nat /\ Current.offset <= x /\ x < End(Current)
    BY <1>1, <1>3, ExtentUnits, RangeUnits
<1>7. Extent(Current.offset, Current.length) \ Taken = Extent(e.offset, e.length) \ Taken
    <2>1. offset + length >= End(Current)
        BY <1>1, <1>2
    <2>2. ASSUME NEW x \in Nat
          PROVE  (Current.offset <= x /\ x < End(Current) /\ ~(offset <= x /\ x < offset + length))
                   <=> (Current.offset <= x /\ x < offset)
        BY <1>1, <1>2, <2>1
    <2> QED BY <1>1, <1>3, <1>6, <2>2
<1>8. Apart(e, offset, length)
    BY <1>1, <1>3 DEF Apart
<1>9. Current.offset <= e.offset /\ End(e) <= End(Current)
    BY <1>1, <1>2, <1>3
<1>10. /\ space_list' \in Seq(Entry) /\ Len(space_list') = Len(space_list)
       /\ \A k \in 1 .. Len(space_list) :
             space_list'[k] = IF k = it THEN e ELSE space_list[k]
    BY <1>1, <1>3, <1>5, EntrySet
<1>11. it' = it + 1 /\ UNCHANGED <<removing, offset, length, result>>
    BY <1>2
<1> QED BY <1>0, <1>3, <1>7, <1>8, <1>9, <1>10, <1>11, TrimUnseen

LEMMA LeaveEntryUnseen ==
    ASSUME ListInv, LeaveEntry
    PROVE  Unseen
<1>0. AtEntry
    BY DEF LeaveEntry
<1>1. /\ removing /\ it \in 1 .. Len(space_list) /\ Len(space_list) \in Nat
      /\ Current.offset \in Nat /\ Current.length \in Nat /\ Current = space_list[it]
      /\ End(Current) = Current.offset + Current.length
      /\ offset \in Nat /\ length \in Nat /\ length > 0
      /\ Current.offset <= offset + length
    BY <1>0, AtCurrent
<1>2. /\ it' = it + 1
      /\ UNCHANGED <<space_list, removing, offset, length, result>>
      /\ ~(Current.offset >= offset /\ End(Current) <= offset + length)
      /\ ~(offset + length > Current.offset /\ offset + length < End(Current))
      /\ ~(offset > Current.offset /\ offset < End(Current))
    BY DEF LeaveEntry, Inside, CutsStart, CutsEnd
<1>3. Apart(Current, offset, length)
    BY <1>1, <1>2 DEF Apart
<1>4. \A k \in 1 .. it' - 1 : Apart(space_list[k], offset, length)
    <2> TAKE k \in 1 .. it' - 1
    <2>1. CASE k = it
        BY <1>1, <1>3, <2>1
    <2>2. CASE k # it
        <3>1. k \in 1 .. it - 1
            BY <1>1, <1>2, <2>2
        <3> QED BY <1>1, <3>1 DEF ListInv
    <2> QED BY <2>1, <2>2
<1>5. ListInv'
    BY <1>1, <1>2, <1>4 DEF ListInv, Sorted, Apart
<1>6. Free' = Free
    BY <1>2 DEF Free, Covered
<1> QED BY <1>2, <1>5, <1>6 DEF Unseen

\* After the call returns the arguments are gone, and the range with them.
LEMMA LeftUnseen ==
    ASSUME ListInv, removing, Leave, result' = result, Sorted(space_list'),
           Covered(space_list') = Covered(space_list) \ Taken
    PROVE  Unseen
<1>1. Free' = Free
    BY DEF Free, Leave, Taken
<1>2. Len(space_list') \in Nat
    BY DEF Sorted
<1>3. ListInv'
    <2>1. removing' = FALSE /\ offset' = 0 /\ length' = 0 /\ it' = 1
        BY DEF Leave
    <2>2. it' \in 1 .. Len(space_list') + 1
        <3>1. it' = 1
            BY <2>1, Zenon
        <3> QED BY <1>2, <3>1
    <2>4. removing' \in BOOLEAN
        BY <2>1, Zenon
    <2>3. offset' \in Nat /\ length' \in Nat
        BY <2>1
    <2> QED BY <2>1, <2>2, <2>3, <2>4, Zenon DEF ListInv
<1> QED BY <1>1, <1>3 DEF Unseen

LEMMA CutHoleUnseen ==
    ASSUME ListInv, CutHole
    PROVE  Unseen
<1> DEFINE d == [offset |-> Current.offset, length |-> offset - Current.offset]
<1> DEFINE e == [offset |-> offset + length,
                 length |-> Current.offset + Current.length - offset - length]
<1>0. AtEntry
    BY DEF CutHole
<1>1. /\ Sorted(space_list) /\ it \in 1 .. Len(space_list)
      /\ Current = space_list[it] /\ Current \in Entry /\ removing
      /\ Current.offset \in Nat /\ Current.length \in Nat
      /\ End(Current) = Current.offset + Current.length
      /\ offset \in Nat /\ length \in Nat /\ length > 0
    BY <1>0, AtCurrent
<1>2. /\ space_list' = Replace(space_list, it, <<d, e>>)
      /\ Leave /\ result' = result
      /\ offset + length > Current.offset /\ offset + length < End(Current)
      /\ offset > Current.offset
    BY DEF CutHole, CutsStart
<1>3. /\ d \in Entry /\ d.offset = Current.offset /\ End(d) = offset
      /\ e \in Entry /\ e.offset = offset + length /\ End(e) = End(Current)
    <2>1. /\ offset - Current.offset \in Nat \ {0}
          /\ Current.offset + Current.length - offset - length \in Nat \ {0}
        <3>1. /\ offset \in Nat /\ length \in Nat
              /\ Current.offset \in Nat /\ Current.length \in Nat
            BY <1>1
        <3>2. offset > Current.offset
            BY <1>2
        <3>3. offset + length < Current.offset + Current.length
            <4>1. End(Current) = Current.offset + Current.length
                BY <1>1
            <4> QED BY <1>2, <4>1
        <3> QED BY <3>1, <3>2, <3>3
    <2>2. /\ d.offset = Current.offset /\ d.length = offset - Current.offset
          /\ e.offset = offset + length
          /\ e.length = Current.offset + Current.length - offset - length
        OBVIOUS
    <2>3. d \in Entry /\ e \in Entry
        <3>1. offset + length \in Nat
            BY <1>1
        <3> QED BY <1>1, <2>1, <3>1, Zenon DEF Entry
    <2> HIDE DEF d, e
    <2>4. End(d) = offset /\ End(e) = End(Current)
        BY <1>1, <2>2 DEF End
    <2> QED BY <2>2, <2>3, <2>4
<1> HIDE DEF d, e
<1>4. /\ Sorted(space_list')
      /\ Covered(space_list') = (Covered(space_list) \ Extent(Current.offset, Current.length))
                \cup Extent(d.offset, d.length) \cup Extent(e.offset, e.length)
    <2>1. /\ space_list[it].offset <= d.offset /\ End(d) < e.offset
          /\ End(e) <= End(space_list[it])
        BY <1>1, <1>2, <1>3
    <2>2. /\ Sorted(Replace(space_list, it, <<d, e>>))
          /\ Covered(Replace(space_list, it, <<d, e>>))
                = (Covered(space_list) \ Extent(space_list[it].offset, space_list[it].length))
                      \cup Extent(d.offset, d.length) \cup Extent(e.offset, e.length)
        BY <1>1, <1>3, <2>1, SortedSplit
    <2> QED BY <1>1, <1>2, <2>2, Zenon
<1>5. /\ \A x : x \in Extent(d.offset, d.length) <=> x \in Nat /\ d.offset <= x /\ x < End(d)
      /\ \A x : x \in Extent(e.offset, e.length) <=> x \in Nat /\ e.offset <= x /\ x < End(e)
      /\ \A x : x \in Taken <=> x \in Nat /\ offset <= x /\ x < offset + length
      /\ \A x : x \in Extent(Current.offset, Current.length)
                  <=> x \in Nat /\ Current.offset <= x /\ x < End(Current)
    BY <1>1, <1>3, ExtentUnits, RangeUnits
<1>6. Extent(Current.offset, Current.length) \subseteq Covered(space_list)
    <2>1. space_list \in Seq(Entry)
        BY <1>1 DEF Sorted
    <2> QED BY <1>1, <1>5, <2>1, CoveredUnits
<1>7. Taken \subseteq Extent(Current.offset, Current.length)
    BY <1>1, <1>2, <1>5
<1>8. Extent(d.offset, d.length) \cup Extent(e.offset, e.length)
        = Extent(Current.offset, Current.length) \ Taken
    <2>1. ASSUME NEW x \in Nat
          PROVE  (Current.offset <= x /\ x < End(Current) /\ ~(offset <= x /\ x < offset + length))
                   <=> \/ Current.offset <= x /\ x < offset
                       \/ offset + length <= x /\ x < End(Current)
        BY <1>1, <1>2
    <2> QED BY <1>3, <1>5, <2>1
<1>9. Covered(space_list') = Covered(space_list) \ Taken
    BY <1>4, <1>6, <1>7, <1>8
<1> QED BY <1>1, <1>2, <1>4, <1>9, LeftUnseen

LEMMA ReturnUnseen ==
    ASSUME ListInv, Return
    PROVE  Unseen
<1>1. /\ removing /\ Past /\ Leave /\ UNCHANGED <<space_list, result>>
    BY DEF Return
<1>2. /\ Sorted(space_list) /\ space_list \in Seq(Entry) /\ Len(space_list) \in Nat
      /\ offset \in Nat /\ length \in Nat /\ it \in 1 .. Len(space_list) + 1
    BY DEF ListInv, Sorted
<1>3. ASSUME NEW k \in 1 .. Len(space_list)
      PROVE  Apart(space_list[k], offset, length)
    <2>1. CASE k < it
        <3>1. k \in 1 .. it - 1
            BY <1>2, <2>1
        <3> QED BY <1>1, <3>1 DEF ListInv
    <2>2. CASE k >= it
        <3>1. it \in 1 .. Len(space_list) /\ it <= Len(space_list)
            BY <1>2, <2>2
        <3>2. space_list[it].offset > offset + length
            BY <1>1, <3>1 DEF Past, Current
        <3>3. k # it => End(space_list[it]) < space_list[k].offset
            BY <1>2, <2>2, <3>1 DEF Sorted
        <3>4. /\ space_list[it].offset \in Nat /\ space_list[it].length \in Nat
              /\ End(space_list[it]) = space_list[it].offset + space_list[it].length
              /\ space_list[k].offset \in Nat
            BY <1>2, <3>1, EntryIn
        <3>5. offset + length <= space_list[k].offset
            BY <1>2, <3>2, <3>3, <3>4
        <3> QED BY <3>5 DEF Apart
    <2> QED BY <1>2, <2>1, <2>2
<1>4. ASSUME NEW x \in Covered(space_list) PROVE x \notin Taken
    <2>1. PICK k \in 1 .. Len(space_list) :
              x \in Nat /\ space_list[k].offset <= x /\ x < End(space_list[k])
        BY <1>2, CoveredUnits
    <2>2. space_list[k].offset \in Nat /\ End(space_list[k]) \in Nat
        BY <1>2, EntryIn
    <2>3. End(space_list[k]) <= offset \/ offset + length <= space_list[k].offset
        BY <1>3 DEF Apart
    <2>4. x \in Taken => offset <= x /\ x < offset + length
        BY RangeUnits
    <2> QED BY <1>2, <2>1, <2>2, <2>3, <2>4
<1>5. Covered(space_list') = Covered(space_list) \ Taken
    BY <1>1, <1>4
<1>6. Sorted(space_list')
    BY <1>1, <1>2
<1> QED BY <1>1, <1>5, <1>6, LeftUnseen

\* The call: from here on the range counts as gone.
LEMMA CallRemoves ==
    ASSUME ListInv, NEW off \in 0 .. Units - 1, NEW len \in 1 .. Units, CallRemove(off, len)
    PROVE  ListInv' /\ Free' = Free \ Extent(off, len) /\ result' = result
<1>1. /\ ~removing /\ removing' = TRUE /\ offset' = off /\ length' = len /\ it' = 1
      /\ UNCHANGED <<space_list, result>>
    BY DEF CallRemove
<1>2. Sorted(space_list) /\ Len(space_list) \in Nat
    BY DEF ListInv, Sorted
<1>3. off \in Nat /\ len \in Nat /\ len > 0
    BY SpaceListAssumption
<1>4. ListInv'
    BY <1>1, <1>2, <1>3 DEF ListInv, Sorted
<1>5. Free' = Covered(space_list') \ Extent(offset', length') /\ Free = Covered(space_list)
    BY <1>1 DEF Free
<1> QED BY <1>1, <1>4, <1>5

-----------------------------------------------------------------------------
(* The search: first fit on the list is first fit on the set.              *)

\* Units that follow one another are all in one entry: the unit an entry ends
\* before is in none.
LEMMA OneEntryHolds ==
    ASSUME NEW list, Sorted(list), NEW a, NEW len \in Nat \ {0},
           a \in Fits(Covered(list), len)
    PROVE  /\ a \in Nat
           /\ \E k \in 1 .. Len(list) :
                  list[k].offset <= a /\ a + len <= End(list[k])
<1>1. list \in Seq(Entry) /\ Len(list) \in Nat
    BY DEF Sorted
<1>2. \A x : x \in Covered(list) <=>
          \E k \in 1 .. Len(list) : x \in Nat /\ list[k].offset <= x /\ x < End(list[k])
    BY <1>1, CoveredUnits
<1>3. a \in Covered(list) /\ Extent(a, len) \subseteq Covered(list)
    BY DEF Fits
<1>4. PICK k \in 1 .. Len(list) : a \in Nat /\ list[k].offset <= a /\ a < End(list[k])
    BY <1>2, <1>3
<1>5. \A m \in 1 .. Len(list) : /\ list[m].offset \in Nat /\ End(list[m]) \in Nat
                                /\ list[m].offset < End(list[m])
    <2> TAKE m \in 1 .. Len(list)
    <2> QED BY <1>1, EntryIn
<1>6. ASSUME End(list[k]) < a + len PROVE FALSE
    <2>1. End(list[k]) \in Extent(a, len)
        BY <1>4, <1>5, <1>6 DEF Extent
    <2>2. PICK m \in 1 .. Len(list) :
              list[m].offset <= End(list[k]) /\ End(list[k]) < End(list[m])
        BY <1>2, <1>3, <2>1
    <2>3. m < k \/ k < m \/ m = k
        BY <1>1
    <2>4. m < k => End(list[m]) < list[k].offset
        BY DEF Sorted
    <2>5. k < m => End(list[k]) < list[m].offset
        BY DEF Sorted
    <2> QED BY <1>5, <2>2, <2>3, <2>4, <2>5
<1>7. a + len <= End(list[k])
    BY <1>4, <1>5, <1>6
<1> QED BY <1>4, <1>7

LEMMA NoRoomIn ==
    ASSUME ListInv, NEW len \in Nat \ {0}, LongEnough(len) = {}
    PROVE  Fits(Covered(space_list), len) = {}
<1>1. Sorted(space_list) /\ space_list \in Seq(Entry)
    BY DEF ListInv, Sorted
<1>2. ASSUME NEW a \in Fits(Covered(space_list), len) PROVE FALSE
    <2>1. PICK k \in 1 .. Len(space_list) :
              a \in Nat /\ space_list[k].offset <= a /\ a + len <= End(space_list[k])
        BY <1>1, OneEntryHolds
    <2>2. /\ space_list[k].offset \in Nat /\ space_list[k].length \in Nat
          /\ End(space_list[k]) = space_list[k].offset + space_list[k].length
        BY <1>1, EntryIn
    <2>3. space_list[k].length >= len
        BY <2>1, <2>2
    <2>4. k \in DOMAIN space_list
        BY <1>1
    <2> QED BY <2>3, <2>4 DEF LongEnough
<1> QED BY <1>2

\* The first entry that is long enough.
LEMMA FirstEntry ==
    ASSUME ListInv, NEW len \in Nat \ {0}, LongEnough(len) # {}
    PROVE  LET i == CHOOSE i \in LongEnough(len) : \A j \in LongEnough(len) : i <= j
           IN  /\ i \in 1 .. Len(space_list) /\ space_list[i].length >= len
               /\ \A k \in 1 .. Len(space_list) : space_list[k].length >= len => i <= k
<1>1. space_list \in Seq(Entry) /\ DOMAIN space_list = 1 .. Len(space_list)
    BY DEF ListInv, Sorted
<1>2. LongEnough(len) \in SUBSET Nat
    BY <1>1 DEF LongEnough
<1>3. \E i \in LongEnough(len) : \A j \in LongEnough(len) : i <= j
    BY <1>2, LeastNatural
<1> DEFINE i == CHOOSE i \in LongEnough(len) : \A j \in LongEnough(len) : i <= j
<1>4. i \in LongEnough(len) /\ \A j \in LongEnough(len) : i <= j
    BY <1>3
<1> HIDE DEF i
<1>5. /\ i \in 1 .. Len(space_list) /\ space_list[i].length >= len
      /\ \A k \in 1 .. Len(space_list) : space_list[k].length >= len => i <= k
    BY <1>1, <1>4 DEF LongEnough
<1> QED BY <1>5 DEF i

LEMMA FirstFitFound ==
    ASSUME Sorted(space_list), NEW len \in Nat \ {0}, NEW i \in 1 .. Len(space_list),
           space_list[i].length >= len,
           \A k \in 1 .. Len(space_list) : space_list[k].length >= len => i <= k
    PROVE  /\ space_list[i].offset \in Fits(Covered(space_list), len)
           /\ FirstFit(Covered(space_list), len) = space_list[i].offset
<1> DEFINE F == Fits(Covered(space_list), len)
<1> DEFINE o == space_list[i].offset
<1>1. space_list \in Seq(Entry) /\ Len(space_list) \in Nat
    BY DEF Sorted
<1>2. \A x : x \in Covered(space_list) <=>
          \E k \in 1 .. Len(space_list) :
              x \in Nat /\ space_list[k].offset <= x /\ x < End(space_list[k])
    BY <1>1, CoveredUnits
<1>3. /\ o \in Nat /\ space_list[i].length \in Nat
      /\ End(space_list[i]) = o + space_list[i].length
    BY <1>1, EntryIn
<1>4. o \in F
    <2>1. ASSUME NEW x \in Extent(o, len) PROVE x \in Covered(space_list)
        <3>1. x \in Nat /\ o <= x /\ x < End(space_list[i])
            BY <1>3 DEF Extent
        <3> QED BY <1>2, <3>1
    <2>2. o \in Extent(o, len)
        BY <1>3 DEF Extent
    <2> QED BY <2>1, <2>2 DEF Fits
<1>5. ASSUME NEW a \in F PROVE a \in Nat /\ o <= a
    <2>1. PICK k \in 1 .. Len(space_list) :
              a \in Nat /\ space_list[k].offset <= a /\ a + len <= End(space_list[k])
        BY OneEntryHolds
    <2>2. /\ space_list[k].offset \in Nat /\ space_list[k].length \in Nat
          /\ End(space_list[k]) = space_list[k].offset + space_list[k].length
        BY <1>1, EntryIn
    <2>3. space_list[k].length >= len
        BY <2>1, <2>2
    <2>4. i = k \/ i < k
        BY <1>1, <2>3
    <2>5. i < k => End(space_list[i]) < space_list[k].offset
        BY DEF Sorted
    <2> QED BY <1>3, <2>1, <2>2, <2>4, <2>5
<1> DEFINE f == FirstFit(Covered(space_list), len)
<1>6. f \in F /\ \A b \in F : f <= b
    <2>1. \A b \in F : o <= b
        BY <1>5
    <2>2. f = CHOOSE a \in F : \A b \in F : a <= b
        BY DEF FirstFit
    <2> HIDE DEF F, f, o
    <2> QED BY <1>4, <2>1, <2>2
<1>7. f \in Nat /\ o <= f /\ f <= o
    BY <1>4, <1>5, <1>6
<1> HIDE DEF f
<1>8. f = o
    BY <1>3, <1>7
<1> QED BY <1>4, <1>8 DEF f

\* What is found is taken out of the list, and of the set.
LEMMA TakenFirst ==
    ASSUME ListInv, NEW len \in Nat \ {0}, TakeFirst(len)
    PROVE  /\ ListInv' /\ ~removing /\ ~removing'
           /\ Fits(Covered(space_list), len) # {}
           /\ result' = FirstFit(Covered(space_list), len)
           /\ Covered(space_list') = Covered(space_list) \ Extent(result', len)
<1> DEFINE i == CHOOSE i \in LongEnough(len) : \A j \in LongEnough(len) : i <= j
<1>1. /\ ~removing /\ LongEnough(len) # {}
      /\ result' = space_list[i].offset
      /\ space_list' =
            IF space_list[i].length = len
            THEN Without(space_list, i)
            ELSE [space_list EXCEPT ![i] =
                     [offset |-> space_list[i].offset + len,
                      length |-> space_list[i].length - len]]
      /\ UNCHANGED <<removing, offset, length, it>>
    BY DEF TakeFirst
<1>2. /\ i \in 1 .. Len(space_list) /\ space_list[i].length >= len
      /\ \A k \in 1 .. Len(space_list) : space_list[k].length >= len => i <= k
    BY <1>1, FirstEntry
<1> HIDE DEF i
<1>3. Sorted(space_list) /\ space_list \in Seq(Entry) /\ Len(space_list) \in Nat
    BY DEF ListInv, Sorted
<1> DEFINE c == space_list[i]
<1>4. /\ c.offset \in Fits(Covered(space_list), len)
      /\ FirstFit(Covered(space_list), len) = c.offset
    BY <1>2, <1>3, FirstFitFound
<1>5. /\ c \in Entry /\ c.offset \in Nat /\ c.length \in Nat
      /\ End(c) = c.offset + c.length
    BY <1>2, <1>3, EntryIn
<1>6. c.length >= len
    BY <1>2
<1>7. /\ Sorted(space_list')
      /\ Covered(space_list') = Covered(space_list) \ Extent(c.offset, len)
    <2>1. CASE c.length = len
        <3>1. space_list' = Without(space_list, i)
            BY <1>1, <2>1
        <3>2. /\ Sorted(Without(space_list, i))
              /\ Covered(Without(space_list, i))
                    = Covered(space_list) \ Extent(space_list[i].offset, space_list[i].length)
            BY <1>2, <1>3, SortedWithout
        <3> QED BY <2>1, <3>1, <3>2
    <2>2. CASE c.length # len
        <3> DEFINE e == [offset |-> c.offset + len, length |-> c.length - len]
        <3>1. space_list' = [space_list EXCEPT ![i] = e]
            BY <1>1, <2>2
        <3>2. e \in Entry /\ e.offset = c.offset + len /\ End(e) = End(c)
            BY <1>5, <1>6, <2>2 DEF Entry, End
        <3> HIDE DEF e
        <3>3. /\ space_list' \in Seq(Entry) /\ Len(space_list') = Len(space_list)
              /\ \A k \in 1 .. Len(space_list) :
                    space_list'[k] = IF k = i THEN e ELSE space_list[k]
            BY <1>2, <1>3, <3>1, <3>2, EntrySet
        <3>4. space_list[i].offset <= e.offset /\ End(e) <= End(space_list[i])
            BY <1>5, <3>2
        <3>5. /\ Sorted(space_list')
              /\ Covered(space_list') = (Covered(space_list)
                                             \ Extent(space_list[i].offset, space_list[i].length))
                                         \cup Extent(e.offset, e.length)
            BY <1>2, <1>3, <3>2, <3>3, <3>4, SortedTrimmed
        <3>6. /\ \A x : x \in Extent(e.offset, e.length)
                          <=> x \in Nat /\ e.offset <= x /\ x < End(e)
              /\ \A x : x \in Extent(c.offset, c.length)
                          <=> x \in Nat /\ c.offset <= x /\ x < End(c)
              /\ \A x : x \in Extent(c.offset, len)
                          <=> x \in Nat /\ c.offset <= x /\ x < c.offset + len
            <4>1. \A x : x \in Extent(c.offset, len)
                          <=> x \in Nat /\ c.offset <= x /\ x < c.offset + len
                BY <1>5 DEF Extent
            <4> QED BY <1>5, <3>2, <4>1, ExtentUnits
        <3>7. Extent(c.offset, c.length) \subseteq Covered(space_list)
            BY <1>2, <1>3, <3>6, CoveredUnits
        <3>8. \A x : x \in Extent(e.offset, e.length) <=>
                       x \in Extent(c.offset, c.length) /\ x \notin Extent(c.offset, len)
            <4>1. ASSUME NEW x \in Nat
                  PROVE  (c.offset + len <= x /\ x < End(c)) <=>
                           (c.offset <= x /\ x < End(c) /\ ~(c.offset <= x /\ x < c.offset + len))
                BY <1>5, <1>6
            <4> QED BY <3>2, <3>6, <4>1
        <3>9. Extent(c.offset, len) \subseteq Extent(c.offset, c.length)
            <4>1. ASSUME NEW x \in Nat, x < c.offset + len PROVE x < End(c)
                BY <1>5, <1>6, <4>1
            <4> QED BY <3>6, <4>1
        <3>10. Covered(space_list') = (Covered(space_list) \ Extent(c.offset, c.length))
                                         \cup Extent(e.offset, e.length)
            BY <3>5
        <3> HIDE DEF c
        <3> QED BY <3>5, <3>7, <3>8, <3>9, <3>10
    <2> QED BY <2>1, <2>2
<1>8. ListInv'
    <2>1. /\ removing' = removing /\ it' = it /\ offset' = offset /\ length' = length
          /\ it = 1
        BY <1>1 DEF ListInv
    <2>2. Len(space_list') \in Nat
        BY <1>7 DEF Sorted
    <2>3. it' \in 1 .. Len(space_list') + 1
        BY <2>1, <2>2
    <2>4. removing' \in BOOLEAN /\ offset' \in Nat /\ length' \in Nat /\ ~removing'
        BY <1>1, <2>1 DEF ListInv
    <2> QED BY <1>7, <2>1, <2>3, <2>4, Zenon DEF ListInv
<1>9. Covered(space_list') = Covered(space_list) \ Extent(result', len)
    BY <1>1, <1>7
<1>10. Fits(Covered(space_list), len) # {} /\ result' = FirstFit(Covered(space_list), len)
    BY <1>1, <1>4
<1>11. ~removing /\ ~removing'
    BY <1>1
<1> QED BY <1>8, <1>9, <1>10, <1>11

-----------------------------------------------------------------------------
(* Together: the list stays canonical and does what FreeSpace does.        *)

LEMMA ListInitially == Init => ListInv /\ Abstract!Init
<1> SUFFICES ASSUME Init PROVE ListInv /\ Abstract!Init
    OBVIOUS
<1>1. /\ space_list \in Lists /\ Canonical(space_list)
      /\ removing = FALSE /\ offset = 0 /\ length = 0 /\ it = 1 /\ result = -1
    BY DEF Init
<1>2. PICK m \in 0 .. (Units + 1) \div 2 : space_list \in [1 .. m -> Entries]
    BY <1>1 DEF Lists
<1>3. m \in Nat
    BY <1>2, SpaceListAssumption
<1>4. Entries \subseteq Entry
    BY SpaceListAssumption DEF Entries, Entry
<1>5. space_list \in [1 .. m -> Entry]
    BY <1>2, <1>4
<1>6. Sorted(space_list)
    BY <1>1, <1>3, <1>5, CanonicalSorted
<1>7. space_list \in Seq(Entry) /\ Len(space_list) = m
    BY <1>3, <1>5
<1>8. ListInv
    <2>1. it \in 1 .. Len(space_list) + 1 /\ offset \in Nat /\ length \in Nat
        BY <1>1, <1>3, <1>7
    <2> QED BY <1>1, <1>6, <2>1, Zenon DEF ListInv
<1>9. Free \in SUBSET (0 .. Units - 1)
    <2>1. Free = Covered(space_list)
        BY <1>1, Zenon DEF Free
    <2>2. ASSUME NEW x \in Covered(space_list) PROVE x \in 0 .. Units - 1
        <3>1. PICK k \in 1 .. Len(space_list) :
                  x \in Nat /\ space_list[k].offset <= x /\ x < End(space_list[k])
            BY <1>7, CoveredUnits
        <3>2. End(space_list[k]) <= Units
            BY <1>2, <1>7 DEF Entries
        <3>3. End(space_list[k]) \in Nat
            BY <1>7, EntryIn
        <3> QED BY <3>1, <3>2, <3>3, SpaceListAssumption
    <2> QED BY <2>1, <2>2
<1>10. Abstract!Init
    BY <1>1, <1>9 DEF Abstract!Init
<1> QED BY <1>8, <1>10

\* Every step is a step of FreeSpace or changes nothing it can see.
LEMMA ListStep ==
    ASSUME ListInv, [Next]_vars
    PROVE  ListInv' /\ [Abstract!Next]_(Abstract!vars)
<1>1. CASE Loop
    <2>1. Unseen
        BY <1>1, ReturnUnseen, RemoveEntryUnseen, CutHoleUnseen, TrimStartUnseen,
           TrimEndUnseen, LeaveEntryUnseen DEF Loop
    <2> QED BY <2>1 DEF Unseen, Abstract!vars
<1>2. ASSUME NEW off \in 0 .. Units - 1, NEW len \in 1 .. Units, CallRemove(off, len)
      PROVE  ListInv' /\ Abstract!Next
    <2>1. ListInv' /\ Free' = Free \ Extent(off, len) /\ result' = result
        BY <1>2, CallRemoves
    <2>2. Abstract!Remove(off, len)
        BY <2>1 DEF Abstract!Remove, Abstract!SpaceListRemove, Abstract!Extent, Extent
    <2> QED BY <2>1, <2>2 DEF Abstract!Next
<1>3. ASSUME NEW len \in Lengths, TakeFirst(len)
      PROVE  ListInv' /\ Abstract!Next
    <2>1. len \in Nat \ {0}
        BY SpaceListAssumption
    <2>2. /\ ListInv' /\ ~removing /\ ~removing'
          /\ Fits(Covered(space_list), len) # {}
          /\ result' = FirstFit(Covered(space_list), len)
          /\ Covered(space_list') = Covered(space_list) \ Extent(result', len)
        BY <1>3, <2>1, TakenFirst
    <2>3. Free = Covered(space_list) /\ Free' = Covered(space_list')
        BY <2>2 DEF Free
    <2>4. Fits(Free, len) # {} /\ result' = FirstFit(Free, len) /\ Free' = Free \ Extent(result', len)
        BY <2>2, <2>3
    <2>5. Abstract!Allocate(len)
        BY <2>4 DEF Abstract!Allocate, Abstract!Fits, Abstract!FirstFit,
                    Abstract!SpaceListRemove, Abstract!Extent, Fits, FirstFit, Extent
    <2> QED BY <2>2, <2>5 DEF Abstract!Next
<1>4. ASSUME NEW len \in Lengths, NoRoom(len)
      PROVE  ListInv' /\ Abstract!Next
    <2>1. len \in Nat \ {0}
        BY SpaceListAssumption
    <2>2. /\ ~removing /\ LongEnough(len) = {} /\ result' = -1
          /\ UNCHANGED <<space_list, removing, offset, length, it>>
        BY <1>4 DEF NoRoom
    <2>3. Fits(Covered(space_list), len) = {}
        BY <2>1, <2>2, NoRoomIn
    <2>4. Free = Covered(space_list) /\ Free' = Free
        BY <2>2 DEF Free
    <2>5. Fits(Free, len) = {}
        BY <2>3, <2>4
    <2>6. Abstract!Allocate(len)
        BY <2>2, <2>4, <2>5 DEF Abstract!Allocate, Abstract!Fits, Abstract!Extent, Fits, Extent
    <2>7. ListInv'
        BY <2>2 DEF ListInv, Sorted, Apart
    <2> QED BY <2>6, <2>7 DEF Abstract!Next
<1>5. CASE UNCHANGED vars
    <2>1. UNCHANGED <<space_list, removing, offset, length, it, result>>
        BY <1>5 DEF vars
    <2>2. Free' = Free
        BY <2>1 DEF Free
    <2>3. ListInv'
        BY <2>1 DEF ListInv, Sorted, Apart
    <2> QED BY <2>1, <2>2, <2>3 DEF Abstract!vars
<1> QED BY <1>1, <1>2, <1>3, <1>4, <1>5 DEF Next

\* The inductive invariant: the list is sorted, and the entries the loop of
\* space_list_remove has passed are clear of its range.
THEOREM ListInvariant == Spec => []ListInv
<1>1. Init => ListInv
    BY ListInitially
<1>2. ListInv /\ [Next]_vars => ListInv'
    BY ListStep
<1> QED BY <1>1, <1>2, PTL DEF Spec

\* Both operations keep the list sorted, without empty or touching entries.
THEOREM ListStaysCanonical == Spec => []ListCanonical
<1>1. ListInv => ListCanonical
    BY SortedCanonical DEF ListInv, ListCanonical
<1> QED BY <1>1, ListInvariant, PTL

\* space_list_remove takes out its range and nothing else, and the first fit in
\* the list is the first fit in the set: the allocators may keep the set.
THEOREM ListImplementsFreeSpace == Spec => ImplementsFreeSpace
<1>1. Init => Abstract!Init
    BY ListInitially
<1>2. ListInv /\ [Next]_vars => [Abstract!Next]_(Abstract!vars)
    BY ListStep
<1> QED BY <1>1, <1>2, ListInvariant, PTL DEF Spec, ImplementsFreeSpace, Abstract!Spec

=============================================================================
