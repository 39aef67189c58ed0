----------------------------- MODULE MCRollback -----------------------------
(***************************************************************************)
(* Volumes for Rollback: six segments of 6 clusters of 2 units, with half  *)
(* a cluster at the end of the device.                                     *)
(***************************************************************************)
EXTENDS Rollback

Mapping(vcn, lcn, length) == [vcn |-> vcn, lcn |-> lcn, length |-> length]

\* A file across two superblocks, and one rewritten in two extents.
TwoMirrors == Mapped(1, {Mapping(0, 8, 2), Mapping(2, 2, 4)})
Even == Rewritten(2, 0, 4)
MCRollbackLayouts == {<<TwoMirrors>>, <<TwoMirrors, Even, Rewritten(2, 4, 2)>>}
MCRollbackBitmaps == {({0, 4, 6, 8, 10, 16, 18} \cup others) : others \in SUBSET {28, 68, 70}}

\* The last cluster is in use, which is only partly in the volume.
MCBootLayouts == {<<TwoMirrors>>}
MCBootBitmaps == {b \in MCRollbackBitmaps : 70 \in b}
=============================================================================
