----------------------------- MODULE FreeSpace -----------------------------
(***************************************************************************)
(* What a free-space list promises: it is a set of units, from which       *)
(* ranges are removed and first-fit allocations are taken.                 *)
(***************************************************************************)
EXTENDS Space

CONSTANTS
    Units,      \* number of units of the space the list describes
    Lengths     \* the lengths that are asked for

VARIABLES
    free,       \* the free units
    result      \* the address of the last allocation, -1 if there was no room

vars == <<free, result>>

Init == free \in SUBSET (0 .. Units - 1) /\ result = -1

Remove(offset, length) ==
    /\ free' = SpaceListRemove(free, offset, length)
    /\ UNCHANGED result

Allocate(length) ==
    IF Fits(free, length) = {}
    THEN result' = -1 /\ UNCHANGED free
    ELSE /\ result' = FirstFit(free, length)
         /\ free' = SpaceListRemove(free, result', length)

Next ==
    \/ \E offset \in 0 .. Units - 1, length \in 1 .. Units : Remove(offset, length)
    \/ \E length \in Lengths : Allocate(length)

Spec == Init /\ [][Next]_vars

=============================================================================
