------------------------------ MODULE NtfsFile ------------------------------
(***************************************************************************)
(* Reading NTFS: the attributes of a file that is spread over several MFT  *)
(* records, the clusters and the bytes of a non-resident attribute, and    *)
(* the two walks through an index.                                         *)
(*                                                                         *)
(* A record of the MFT has the fields base (0, or the record it extends),  *)
(* dir, atts (its attributes in order), list (the entries of its           *)
(* $ATTRIBUTE_LIST, which is empty if it has none) and index (the nodes of *)
(* $I30 by their number, the root being node 1).  An attribute has a type, *)
(* a name, an instance number, and resident with its value, or the fields  *)
(* lowest, runs, size, vdl, unit (0 unless it is compressed) and encrypted *)
(* of a non-resident one.  A run has a length, and either is a hole or     *)
(* starts step clusters after the one before it.                           *)
(***************************************************************************)
EXTENDS Integers, Sequences, FiniteSets

LOCAL INSTANCE SequencesExt
LOCAL INSTANCE FiniteSetsExt

CONSTANTS
    ClusterSize     \* the bytes of an NTFS cluster

Up(n, size) == (n + size - 1) \div size
Least(a, b) == IF a < b THEN a ELSE b

-----------------------------------------------------------------------------
(* loop_through_atts *)

\* The attributes that a list entry may mean; the first of them is taken.
Matching(atts, e) ==
    SelectSeq(atts, LAMBDA a : a.type = e.type /\ a.name = e.name /\ a.instance = e.instance)

\* Those of one record that the list names, in the order of the list.
Listed(mft, list, n) ==
    FoldLeft(LAMBDA found, e :
                IF e.record # n \/ Matching(mft[n].atts, e) = <<>> THEN found
                ELSE Append(found, Matching(mft[n].atts, e)[1]),
             <<>>, list)

\* The records the list names, in the order of their first mention.
Extensions(list, n) ==
    FoldLeft(LAMBDA found, e :
                IF e.record \in Range(found) \cup {n} THEN found ELSE Append(found, e.record),
             <<>>, list)

\* Variant: the records after the first are not looked at.
VisitedOwn(mft, n) ==
    IF mft[n].list = <<>> THEN mft[n].atts ELSE Listed(mft, mft[n].list, n)

\* The attributes of a file in the order they are handed out: record by record.
Visited(mft, n) ==
    IF mft[n].list = <<>> THEN mft[n].atts
    ELSE FoldLeft(LAMBDA found, m : found \o Listed(mft, mft[n].list, m),
                  <<>>, <<n>> \o Extensions(mft[n].list, n))

-----------------------------------------------------------------------------
(* read_nonresident_mappings and read_nonresident_attribute *)

Hole == 0       \* the lcn of a mapping that is not on the volume

VcnOf(a, i) == a.lowest + MapThenSumSet(LAMBDA j : a.runs[j].length, 1 .. i - 1)
LcnOf(a, i) ==
    MapThenSumSet(LAMBDA j : a.runs[j].step, {j \in 1 .. i : ~a.runs[j].hole})

\* The runs as mappings, up to the cluster where the valid data ends.  (An attribute
\* that starts after it would get a length that wraps around, and is not considered.)
ReadMappings(a, vdl) ==
    LET max == Up(vdl, ClusterSize)
        wanted == {i \in DOMAIN a.runs : max > 0 /\ (i = 1 \/ VcnOf(a, i) < max)}
    IN  [i \in 1 .. Cardinality(wanted) |->
            [lcn |-> IF a.runs[i].hole THEN Hole ELSE LcnOf(a, i),
             vcn |-> VcnOf(a, i),
             length |-> Least(VcnOf(a, i + 1), max) - VcnOf(a, i)]]

End(ms) == IF ms = <<>> THEN 0 ELSE ms[Len(ms)].vcn + ms[Len(ms)].length

\* The mappings of a file and those of a further attribute of it.  What no attribute
\* tells of is a hole.
AddMappings(ms, a, vdl) ==
    ms \o (IF End(ms) < a.lowest
           THEN <<[lcn |-> Hole, vcn |-> End(ms), length |-> a.lowest - End(ms)]>>
           ELSE <<>>)
       \o ReadMappings(a, vdl)

Zeroes(n) == [i \in 1 .. n |-> <<"zero">>]

\* length bytes from offset on, mapping by mapping.  A mapping that ends before the
\* bytes that are wanted do is read on beyond its end, and the next one overwrites this.
ReadAttribute(disk, a, offset, length) ==
    LET size == IF offset + length > a.size \/ length = 0 THEN a.size - offset ELSE length
        Overwrite(buf, m) ==
            LET start == m.vcn * ClusterSize
                end == (m.vcn + m.length) * ClusterSize
                buf_start == IF offset < start THEN start - offset ELSE 0
                buf_end == IF offset + size > end THEN Least(end, size) ELSE size
                from == m.lcn * ClusterSize + (IF offset > start THEN offset - start ELSE 0)
            IN  IF offset + size >= start /\ offset < end
                THEN [i \in DOMAIN buf |->
                        IF i - 1 \in buf_start .. buf_end - 1
                        THEN disk[from + i - 1 - buf_start] ELSE buf[i]]
                ELSE buf
    IN  IF offset >= a.size THEN <<>>
        ELSE FoldLeft(Overwrite, Zeroes(size), ReadMappings(a, a.vdl))

\* A whole attribute, as add_inode reads those it keeps in memory.  Nothing is zeroed
\* after the valid data.
Contents(disk, a) ==
    LET ms == ReadMappings(a, a.vdl)
        Holding(i) == {m \in Range(ms) : /\ m.lcn # Hole
                                         /\ (i - 1) \div ClusterSize
                                               \in m.vcn .. m.vcn + m.length - 1}
    IN  IF a.resident THEN a.value
        ELSE [i \in 1 .. a.size |->
                IF Holding(i) = {} THEN <<"zero">>
                ELSE LET m == CHOOSE m \in Holding(i) : TRUE
                     IN  disk[(m.lcn - m.vcn) * ClusterSize + i - 1]]

-----------------------------------------------------------------------------
(* Indexes.  A node is a sequence of entries with the fields key, sub (the *)
(* node that holds what comes before it, 0 if there is none) and last (an  *)
(* entry without key that ends the node).                                  *)

\* Variant: the search goes down at the entry that is the key.
SearchBelow(index, key) ==
    LET find[n \in DOMAIN index] ==
          LET node == index[n]
              i == CHOOSE i \in DOMAIN node :
                     /\ node[i].last \/ node[i].key >= key
                     /\ \A j \in 1 .. i - 1 : ~node[j].last /\ node[j].key < key
          IN  IF node[i].sub # 0 THEN find[node[i].sub]
              ELSE IF ~node[i].last /\ node[i].key = key THEN <<node[i]>>
              ELSE <<>>
    IN  find[1]

\* btree_search: the entry with the key, in a sequence that is empty if there is none.
Search(index, key) ==
    LET find[n \in DOMAIN index] ==
          LET node == index[n]
              i == CHOOSE i \in DOMAIN node :
                     /\ node[i].last \/ node[i].key >= key
                     /\ \A j \in 1 .. i - 1 : ~node[j].last /\ node[j].key < key
          IN  IF ~node[i].last /\ node[i].key = key THEN <<node[i]>>
              ELSE IF node[i].sub # 0 THEN find[node[i].sub]
              ELSE <<>>
    IN  find[1]

\* walk_btree: the entries that are reported.  One that has a node below it is not.
Walked(index) ==
    {e \in UNION {Range(index[n]) : n \in DOMAIN index} : e.sub = 0 /\ ~e.last}

Subdirectories(mft, n) ==
    {e.file : e \in {d \in Walked(mft[n].index) : d.dir /\ mft[d.file].dir}}

\* Variant: directories inside a directory are not skipped.
SkippedWithItself(mft, n) == IF mft[n].dir THEN {n} ELSE {}

\* What a set of directories and a way down from each lead to.
Below(mft, dirs, Down(_)) ==
    FoldLeft(LAMBDA found, n : found \cup UNION {Down(d) : d \in found},
             dirs, [i \in 1 .. Cardinality(DOMAIN mft) |-> i])

\* populate_skip_list: the directory with everything below it.
SkippedWith(mft, n) ==
    IF mft[n].dir THEN Below(mft, {n}, LAMBDA d : Subdirectories(mft, d)) ELSE {}

=============================================================================
