---------------------------- MODULE MCConversion ----------------------------
(***************************************************************************)
(* Volumes for Conversion.  A file lies in clusters that the bitmap says   *)
(* are in use; those in use by no file belong to system files, which are   *)
(* not converted.                                                          *)
(***************************************************************************)
EXTENDS Conversion

Mapping(vcn, lcn, length) == [vcn |-> vcn, lcn |-> lcn, length |-> length]

\* Six segments of 12 clusters, the last one short of one.  There is a file across
\* a superblock, one across the end of a segment with a fragment in a superblock
\* and a hole, one at the end of the device, one that is rewritten in two extents,
\* the second longer than any gap, and one that the bitmap says only half of.
AcrossMirror == Mapped(1, {Mapping(0, 5, 5)})
AcrossSegments == Mapped(2, {Mapping(0, 18, 1), Mapping(1, 0, 2), Mapping(3, 10, 4)})
AtTheEnd == Mapped(3, {Mapping(0, 69, 2)})
Short == Rewritten(4, 0, 3)
Long == Rewritten(4, 3, 10)
HalfMarked == Mapped(5, {Mapping(0, 13, 2)})

MCLayouts == {
    <<AcrossMirror, AcrossSegments>>,
    <<AcrossSegments, Short>>,
    <<AtTheEnd, Short, AcrossSegments>>,
    <<AcrossMirror, AtTheEnd, Short, Long>>,
    <<AtTheEnd, HalfMarked>>}

MCBitmaps ==
    {({0} \cup 5 .. 13 \cup {18, 69, 70} \cup 72 .. 79) \cup others :
        others \in SUBSET {3, 16, 21, 40, 50, 71}}
=============================================================================
