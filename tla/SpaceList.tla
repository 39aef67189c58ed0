----------------------------- MODULE SpaceList -----------------------------
(***************************************************************************)
(* The free-space list as the program keeps it, a std::list<space>:        *)
(* space_list_remove, one action per way round its loop, and the search    *)
(* that allocate_data and allocate_metadata make through such a list.      *)
(***************************************************************************)
EXTENDS Space, Sequences

CONSTANTS
    Units,      \* number of units of the space the list describes
    Lengths     \* the lengths that are allocated

ASSUME SpaceListAssumption == Units \in Nat /\ Lengths \subseteq Nat \ {0}

VARIABLES
    space_list, \* the sequence of entries
    removing,   \* inside space_list_remove
    offset, length,     \* its arguments
    it,         \* the index of the entry its iterator points to
    result      \* the address of the last allocation, -1 if there was no room

vars == <<space_list, removing, offset, length, it, result>>

-----------------------------------------------------------------------------
Entry == [offset : Nat, length : Nat \ {0}]

End(e) == e.offset + e.length
Covered(list) == UNION {Extent(list[i].offset, list[i].length) : i \in DOMAIN list}

Without(list, i) == SubSeq(list, 1, i - 1) \o SubSeq(list, i + 1, Len(list))
Replace(list, i, new) == SubSeq(list, 1, i - 1) \o new \o SubSeq(list, i + 1, Len(list))

\* Entries in order, none empty, none touching the next.
Canonical(list) ==
    /\ \A i \in DOMAIN list : list[i] \in Entry
    /\ \A i \in 1 .. Len(list) - 1 : End(list[i]) < list[i + 1].offset

\* The entries that lie in the space, and the lists of them: no two entries
\* touch, so that no list has more than one for every two units.
Entries == {e \in [offset : 0 .. Units - 1, length : 1 .. Units] : End(e) <= Units}
Lists == UNION {[1 .. k -> Entries] : k \in 0 .. (Units + 1) \div 2}

Init ==
    /\ space_list \in {list \in Lists : Canonical(list)}
    /\ removing = FALSE
    /\ offset = 0 /\ length = 0 /\ it = 1
    /\ result = -1

-----------------------------------------------------------------------------
CallRemove(off, len) ==
    /\ ~removing
    /\ removing' = TRUE
    /\ offset' = off /\ length' = len /\ it' = 1
    /\ UNCHANGED <<space_list, result>>

\* The function returns, and its arguments and its iterator are gone.
Leave == removing' = FALSE /\ offset' = 0 /\ length' = 0 /\ it' = 1

Current == space_list[it]
Past == it <= Len(space_list) => Current.offset > offset + length
\* Variant: an entry that ends where the range ends is not inside it.
InsideStrictly == Current.offset >= offset /\ End(Current) < offset + length
Inside == Current.offset >= offset /\ End(Current) <= offset + length
\* Variant: an entry that ends where the range ends is cut in two.
CutsStartLoosely == offset + length > Current.offset /\ offset + length <= End(Current)
CutsStart == offset + length > Current.offset /\ offset + length < End(Current)
CutsEnd == offset > Current.offset /\ offset < End(Current)

\* The end of the list, or an entry past the range.
Return ==
    /\ removing
    /\ Past
    /\ Leave
    /\ UNCHANGED <<space_list, result>>

AtEntry == removing /\ ~Past

RemoveEntry ==
    /\ AtEntry /\ Inside
    /\ space_list' = Without(space_list, it)
    /\ UNCHANGED <<removing, offset, length, it, result>>

\* The range is inside the entry: the part before it becomes a new entry, the
\* rest stays, and the function returns.
CutHole ==
    /\ AtEntry /\ ~Inside /\ CutsStart /\ offset > Current.offset
    /\ space_list' =
         Replace(space_list, it,
             <<[offset |-> Current.offset, length |-> offset - Current.offset],
               [offset |-> offset + length,
                length |-> Current.offset + Current.length - offset - length]>>)
    /\ Leave
    /\ UNCHANGED result

TrimStart ==
    /\ AtEntry /\ ~Inside /\ CutsStart /\ offset <= Current.offset
    /\ space_list' =
         [space_list EXCEPT ![it] =
             [offset |-> offset + length,
              length |-> Current.length - (offset + length - Current.offset)]]
    /\ it' = it + 1
    /\ UNCHANGED <<removing, offset, length, result>>

TrimEnd ==
    /\ AtEntry /\ ~Inside /\ ~CutsStart /\ CutsEnd
    /\ space_list' = [space_list EXCEPT ![it].length = offset - Current.offset]
    /\ it' = it + 1
    /\ UNCHANGED <<removing, offset, length, result>>

\* Variant: the iterator does not move.
LeaveEntryStuck ==
    /\ AtEntry /\ ~Inside /\ ~CutsStart /\ ~CutsEnd
    /\ UNCHANGED vars

LeaveEntry ==
    /\ AtEntry /\ ~Inside /\ ~CutsStart /\ ~CutsEnd
    /\ it' = it + 1
    /\ UNCHANGED <<space_list, removing, offset, length, result>>

\* The first entry that is long enough, of which the first units are taken.
LongEnough(len) == {i \in DOMAIN space_list : space_list[i].length >= len}

TakeFirst(len) ==
    /\ ~removing
    /\ LongEnough(len) # {}
    /\ LET i == CHOOSE i \in LongEnough(len) : \A j \in LongEnough(len) : i <= j
           e == space_list[i]
       IN  /\ result' = e.offset
           /\ space_list' =
                IF e.length = len
                THEN Without(space_list, i)
                ELSE [space_list EXCEPT ![i] =
                         [offset |-> e.offset + len, length |-> e.length - len]]
    /\ UNCHANGED <<removing, offset, length, it>>

NoRoom(len) ==
    /\ ~removing
    /\ LongEnough(len) = {}
    /\ result' = -1
    /\ UNCHANGED <<space_list, removing, offset, length, it>>

Loop == Return \/ RemoveEntry \/ CutHole \/ TrimStart \/ TrimEnd \/ LeaveEntry

Next ==
    \/ \E off \in 0 .. Units - 1, len \in 1 .. Units : CallRemove(off, len)
    \/ Loop
    \/ \E len \in Lengths : TakeFirst(len) \/ NoRoom(len)

\* The loop runs on once it is entered; nothing obliges anybody to call it.
Spec == Init /\ [][Next]_vars /\ WF_vars(Loop)

-----------------------------------------------------------------------------
\* Both operations leave the list sorted, with no empty entry and no two that
\* touch, so that it never says less than the set of units it covers.
ListCanonical == Canonical(space_list)

\* space_list_remove takes out the units of its range and no other, the early
\* return and the return from the middle of the list included, and first fit on
\* the list is first fit on the set.
Free == IF removing
        THEN Covered(space_list) \ Extent(offset, length)
        ELSE Covered(space_list)

Abstract == INSTANCE FreeSpace WITH free <- Free

ImplementsFreeSpace == Abstract!Spec

\* space_list_remove returns.
Returns == removing ~> ~removing

=============================================================================
