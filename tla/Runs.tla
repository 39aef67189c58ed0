-------------------------------- MODULE Runs --------------------------------
(***************************************************************************)
(* The lists of data_alloc entries: which file, if any, the clusters in    *)
(* use belong to.  runs_t has one list for each segment of the volume,     *)
(* sorted by offset; offsets and lengths count clusters.                   *)
(***************************************************************************)
EXTENDS Integers, Sequences, FiniteSets

\* The inode of clusters whose data has been moved elsewhere.  Entries of no
\* file have inode 0.
dummy_inode == -1

DataAlloc(offset, length, inode, file_offset, relocated, not_in_img) ==
    [offset |-> offset, length |-> length, inode |-> inode,
     file_offset |-> file_offset, relocated |-> relocated, not_in_img |-> not_in_img]

\* The numbers of a set in ascending order.
Ascending(S) ==
    [i \in 1 .. Cardinality(S) |-> CHOOSE x \in S : Cardinality({y \in S : y < x}) = i - 1]

\* Entries for the maximal runs of a set of clusters, in order.
RunList(clusters) ==
    LET starts == Ascending({k \in clusters : k - 1 \notin clusters})
        Length(k) == CHOOSE n \in 1 .. Cardinality(clusters) :
                        k .. k + n - 1 \subseteq clusters /\ k + n \notin clusters
    IN  [i \in DOMAIN starts |-> DataAlloc(starts[i], Length(starts[i]), 0, 0, FALSE, FALSE)]

-----------------------------------------------------------------------------
(* split_runs, for clusters of one segment. *)

Overlaps(r, offset, length) ==
    offset + length > r.offset /\ offset < r.offset + r.length

\* The entry that the search through a list stops at.  It gives up at the first
\* entry that starts after the clusters.
Met(list, offset, length) ==
    {i \in DOMAIN list :
        /\ Overlaps(list[i], offset, length)
        /\ \A j \in 1 .. i - 1 : ~Overlaps(list[j], offset, length)
        /\ \A j \in 1 .. i : list[j].offset <= offset + length}

\* "Error assigning space to file.": an entry holds some of the clusters, not all.
Torn(list, offset, length) ==
    \E i \in Met(list, offset, length) :
        \/ offset < list[i].offset
        \/ offset + length > list[i].offset + list[i].length

\* The entry r with the clusters cut out of it: what is before them is nobody's,
\* what is after them stays what it was.
Before(r, offset) ==
    IF offset > r.offset
    THEN <<DataAlloc(r.offset, offset - r.offset, 0, 0, FALSE, FALSE)>>
    ELSE <<>>

After(r, end) ==
    IF end < r.offset + r.length
    THEN <<[r EXCEPT !.offset = end, !.length = r.offset + @ - end]>>
    ELSE <<>>

\* Variant: that the clusters are relocated ones is forgotten.
PieceForgetting(r, offset, length, inode, file_offset) ==
    DataAlloc(offset, length, inode, file_offset, FALSE, FALSE)

\* The entry for the clusters themselves, a part of a file.
Piece(r, offset, length, inode, file_offset) ==
    DataAlloc(offset, length, inode, file_offset, r.relocated, FALSE)

\* The list with the clusters in an entry of their own, if it holds them.
Cut(list, offset, length, inode, file_offset) ==
    IF Met(list, offset, length) = {} THEN list
    ELSE LET i == CHOOSE i \in Met(list, offset, length) : TRUE
             r == list[i]
         IN  SubSeq(list, 1, i - 1)
               \o Before(r, offset)
               \o <<Piece(r, offset, length, inode, file_offset)>>
               \o After(r, offset + length)
               \o SubSeq(list, i + 1, Len(list))

\* Variant: the entry always goes to the end.
InsertLast(list, r) == Append(list, r)

\* The entry goes before the first one that starts where it ends or later.
Insert(list, r) ==
    LET Later == {i \in DOMAIN list : list[i].offset >= r.offset + r.length}
        at == CHOOSE i \in Later : \A j \in Later : i <= j
    IN  IF Later = {} THEN Append(list, r)
        ELSE SubSeq(list, 1, at - 1) \o <<r>> \o SubSeq(list, at, Len(list))

=============================================================================
