---------------------------- MODULE MCTreeBuild ----------------------------
(***************************************************************************)
(* Volumes for TreeBuild: the clusters in use, and the sizes of the items  *)
(* of the trees of files.                                                  *)
(***************************************************************************)
EXTENDS TreeBuild

\* With the last of them the chunk tree needs a third system chunk.
MCBitmaps == {{0}, {0, 38}, {0, 14, 38, 50}, {0, 14, 26, 38, 50, 62},
              {0} \cup {12 * s + 2 : s \in 1 .. 15}}

Ones(n) == [i \in 1 .. n |-> 1]
\* With the second of these a block of the extent tree comes down from a node to a leaf
\* while the loop stands at its item; the last has an item that no leaf can hold.
MCContents == {<<Ones(10), <<>>, <<2, 3, 1>>>>, <<Ones(38)>>, <<Ones(3), <<7>>>>}
=============================================================================
