---------------------------- MODULE MCChunkSpace ----------------------------
(***************************************************************************)
(* Volumes for ChunkSpace.  The boot cluster is always in use; the others  *)
(* named are the ones around the reserved area, the superblock mirrors and *)
(* the ends of the segments, and each may be in use or not.                *)
(***************************************************************************)
EXTENDS ChunkSpace

WithBoot(addrs) == {used \cup {0} : used \in SUBSET addrs}

\* Three whole segments of 12 clusters.
MCWholeBitmaps == WithBoot({3, 7, 11, 18, 35})

\* Two segments of 16 clusters and one of 15: a word of 8 clusters, three bytes
\* of 2, and one cluster whose bit is not read.
MCRaggedBitmaps == WithBoot({15, 36, 41, 42, 45})
=============================================================================
