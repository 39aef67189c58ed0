------------------------------- MODULE Space -------------------------------
(***************************************************************************)
(* Free space, as the converter's allocators see it.                       *)
(*                                                                         *)
(* The program keeps free space in std::list<space>: extents sorted by     *)
(* offset, never empty, never touching one another.  Such a list is        *)
(* determined by the set of units it covers, its entries being the maximal *)
(* runs of that set, so the modules that allocate keep the set.  Module    *)
(* SpaceList models the list itself and shows that its two operations are  *)
(* the ones below.                                                         *)
(***************************************************************************)
EXTENDS Integers

\* The units of the extent that starts at offset and has the given length.
Extent(offset, length) == offset .. (offset + length - 1)

\* space_list_remove: no unit of [offset, offset + length) stays in the list.
SpaceListRemove(free, offset, length) == free \ Extent(offset, length)

\* The addresses at which length free units follow one another.
Fits(free, length) == {a \in free : Extent(a, length) \subseteq free}

\* The first entry of the list that is long enough is the maximal run that
\* holds the least of those addresses, and its offset is that address.
FirstFit(free, length) ==
    CHOOSE a \in Fits(free, length) : \A b \in Fits(free, length) : a <= b

=============================================================================
