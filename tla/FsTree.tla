------------------------------- MODULE FsTree -------------------------------
(***************************************************************************)
(* The items of a tree of files: inodes, the entries of their directories, *)
(* the references back, and extended attributes.  A tree is a record t of  *)
(* functions, each from what the key of such an item tells apart:          *)
(*                                                                         *)
(*   inode_items   of the inode                                            *)
(*   extents       of the inode, giving the set of its EXTENT_DATA         *)
(*   dir_items     of the directory and the hash of the name               *)
(*   dir_index     of the directory and the index                          *)
(*   inode_refs    of the inode and the directory                          *)
(*   xattrs        of the inode and the hash of the name                   *)
(*                                                                         *)
(* with dir_seqs and dir_size, which count what is put into a directory.   *)
(* A name is a sequence of characters, of Width(c) bytes each.             *)
(***************************************************************************)
EXTENDS Integers, Sequences, FiniteSets, TLC

LOCAL INSTANCE SequencesExt
LOCAL INSTANCE FiniteSetsExt

CONSTANTS
    Crc(_),     \* the hash of a name
    Width(_)    \* the bytes of a character

Bytes(name) == MapThenSumSet(LAMBDA i : Width(name[i]), DOMAIN name)

At(f, key, default) == IF key \in DOMAIN f THEN f[key] ELSE default
With(f, key, value) == (key :> value) @@ f
Appended(f, key, value) == With(f, key, Append(At(f, key, <<>>), value))

FirstFree == 256        \* BTRFS_FIRST_FREE_OBJECTID, the root of a tree of files
Image == <<"i", "m", "a", "g", "e">>
ImageSubvol == 0        \* where the entry "image" leads; no inode has this number

Entry(name, inode, type) == [name |-> name, inode |-> inode, type |-> type]

\* Variant: a second name in the same directory replaces the first.
ReplacingInodeRef(t, inode, dir, index, name) ==
    [t EXCEPT !.inode_refs = With(@, <<inode, dir>>, <<[index |-> index, name |-> name]>>)]

\* The references of an inode to one directory are in one item.
AddInodeRef(t, inode, dir, index, name) ==
    [t EXCEPT !.inode_refs = Appended(@, <<inode, dir>>, [index |-> index, name |-> name])]

\* Names of one hash are in one DIR_ITEM; every name has a DIR_INDEX of its own.
LinkInode(t, inode, dir, name, type) ==
    LET seq == At(t.dir_seqs, dir, 2)
        linked == [t EXCEPT
            !.dir_items = Appended(@, <<dir, Crc(name)>>, Entry(name, inode, type)),
            !.dir_index = With(@, <<dir, seq>>, Entry(name, inode, type)),
            !.dir_seqs = With(@, dir, seq + 1),
            !.dir_size = With(@, dir, At(@, dir, 0) + 2 * Bytes(name))]
    IN  AddInodeRef(linked, inode, dir, seq, name)

\* Attributes of one hash would need one item, which is not made.
XattrClash(xattrs) ==
    \E x, y \in DOMAIN xattrs : x # y /\ Crc(x) = Crc(y)

SetXattrs(t, inode, xattrs) ==
    [t EXCEPT !.xattrs =
        [key \in {<<inode, Crc(x)>> : x \in DOMAIN xattrs} |->
            LET name == CHOOSE x \in DOMAIN xattrs : Crc(x) = key[2]
            IN  [name |-> name, value |-> xattrs[name]]] @@ @]

Dir == [type |-> "dir", nlink |-> 1, size |-> 0, flags |-> {}]

\* populate_fstree, add_image_subvol and the first line of create_inodes: the tree
\* before the first inode.  The subvolume has an entry, and takes index 2.
EmptyTree ==
    LET entry == Entry(Image, ImageSubvol, "dir")
        root == [inode_items |-> FirstFree :> Dir,
                 extents |-> <<>>, inode_refs |-> <<>>, xattrs |-> <<>>,
                 dir_items |-> <<FirstFree, Crc(Image)>> :> <<entry>>,
                 dir_index |-> <<FirstFree, 2>> :> entry,
                 dir_seqs |-> FirstFree :> 3,
                 dir_size |-> FirstFree :> 2 * Bytes(Image)]
    IN  AddInodeRef(root, FirstFree, FirstFree, 0, <<"..">>)

UpdateDirSizes(t) ==
    [t EXCEPT !.inode_items =
        [i \in DOMAIN @ |-> [@[i] EXCEPT !.size = At(t.dir_size, i, @)]]]

-----------------------------------------------------------------------------
(* What a tree of files has to be. *)

\* The entries of all directories, as [dir, index, name, inode, type].
Entries(t) ==
    {[dir |-> k[1], index |-> k[2], name |-> t.dir_index[k].name,
      inode |-> t.dir_index[k].inode, type |-> t.dir_index[k].type] : k \in DOMAIN t.dir_index}

\* DIR_ITEMs, DIR_INDEXes and INODE_REFs say the same, and a file has as many links as
\* it says.
Consistent(t) ==
    /\ UNION {{[dir |-> k[1], name |-> e.name, inode |-> e.inode, type |-> e.type] :
                  e \in Range(t.dir_items[k])} : k \in DOMAIN t.dir_items}
         = {[dir |-> e.dir, name |-> e.name, inode |-> e.inode, type |-> e.type] :
              e \in Entries(t)}
    /\ \A k \in DOMAIN t.dir_items : \A e \in Range(t.dir_items[k]) : Crc(e.name) = k[2]
    /\ UNION {{[dir |-> k[2], index |-> r.index, name |-> r.name, inode |-> k[1]] :
                  r \in Range(t.inode_refs[k])} : k \in DOMAIN t.inode_refs}
         = {[dir |-> e.dir, index |-> e.index, name |-> e.name, inode |-> e.inode] :
              e \in {x \in Entries(t) : x.inode # ImageSubvol}}
             \cup {[dir |-> FirstFree, index |-> 0, name |-> <<"..">>, inode |-> FirstFree]}
    /\ \A i \in DOMAIN t.inode_items \ {FirstFree} :
          t.inode_items[i].nlink = Cardinality({e \in Entries(t) : e.inode = i})

\* A directory's size is that of the names in it, twice.
SizesOfNames(t) ==
    \A i \in DOMAIN t.inode_items :
        t.inode_items[i].type = "dir" =>
            t.inode_items[i].size =
                2 * MapThenSumSet(LAMBDA e : Bytes(e.name), {e \in Entries(t) : e.dir = i})

\* Everything is below the root: whatever has an entry, or is an entry's directory, is
\* there, and from every inode the way up leads to the root.
Connected(t) ==
    LET Inodes == DOMAIN t.inode_items
        Above(i) == {e.dir : e \in {x \in Entries(t) : x.inode = i}}
        up[i \in Inodes, steps \in 0 .. Cardinality(Inodes)] ==
            i = FirstFree \/ (steps > 0 /\ Above(i) # {} /\
                              \A d \in Above(i) : d \in Inodes /\ up[d, steps - 1])
    IN  /\ \A e \in Entries(t) :
              /\ e.dir \in Inodes /\ t.inode_items[e.dir].type = "dir"
              /\ e.inode \in Inodes \cup {ImageSubvol}
        /\ \A i \in Inodes : up[i, Cardinality(Inodes)]

=============================================================================
