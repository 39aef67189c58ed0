------------------------------ MODULE Rollback ------------------------------
(***************************************************************************)
(* rollback: the volume of a conversion, however far that came, is opened  *)
(* as Btrfs, and what ntfs.img has of the old file system is written back  *)
(* to where it was.                                                        *)
(*                                                                         *)
(* Both programs may be killed between any two writes, and rollback may be *)
(* run again.  In between the volume may have been in use.                 *)
(***************************************************************************)
EXTENDS Conversion

CONSTANTS
    Trailing        \* how many units the partition may go on after the volume:
                    \* NTFS keeps a copy of the boot sector there

ASSUME RollbackAssumption == Trailing \subseteq Nat

VARIABLES
    mode,           \* which program runs, or what has become of it
    after,          \* what the units after the volume hold
    held,           \* relocs: what is still to be written back, in order
    begun           \* history: something has been written back

rvars == <<mode, after, held, begun>>

RollbackInit ==
    /\ ConvInit
    /\ mode = "convert"
    /\ \E n \in Trailing : after = [u \in Extent(OrigSize, n) |-> Ntfs(u)]
    /\ held = <<>>
    /\ begun = FALSE

PartitionSize == OrigSize + Cardinality(DOMAIN after)

Convert == mode = "convert" /\ ConvNext /\ UNCHANGED rvars

\* The conversion is over: done, given up or killed.
Stop ==
    /\ mode = "convert" /\ mode' = "stopped"
    /\ UNCHANGED <<vars, cvars, after, held, begun>>

\* The volume is mounted and used for long enough to write to all of its chunks that
\* the image, which is read-only, does not hold on to.
UseVolume ==
    /\ mode = "stopped" /\ disk[PrimarySuper] = Super
    /\ LET InChunks == UNION {Extent(chunks[i].start, chunks[i].length) : i \in DOMAIN chunks}
           InImage == UNION {Extent(e.addr, e.length) : e \in img_extents}
           Theirs == (InChunks \ InImage) \ SuperSpace(0, DeviceSize)
       IN  disk' = [u \in DOMAIN disk |-> IF u \in Theirs THEN <<"btrfs">> ELSE disk[u]]
    /\ mode' = "used"
    /\ UNCHANGED <<vars, step, todo, files, memory, after, held, begun>>

-----------------------------------------------------------------------------
Openable == mode \in {"stopped", "used", "interrupted"}

\* The superblocks that are looked at: any of them will do.
Seen == {sb \in SuperAddrs : sb + 1 < PartitionSize /\ sb \in DOMAIN disk /\ disk[sb] = Super}

\* Variant: the first address of a chunk is not in it.
HasChunkAfterStart(addr) ==
    \E i \in DOMAIN chunks :
        chunks[i].start < addr /\ addr < chunks[i].start + chunks[i].length

\* find_chunk
HasChunk(addr) == \E i \in DOMAIN chunks : addr \in Extent(chunks[i].start, chunks[i].length)

\* raw_read
Readable(e) == Extent(e.addr, e.length) \subseteq DOMAIN disk

\* Variant: what was moved towards the start is overlooked.
MovedUp == {e \in img_extents : e.addr > e.pos}

\* The extents of the image that are not where NTFS had them.
NotInPlace == {e \in img_extents : e.addr # e.pos}

Refuse ==
    /\ Openable
    /\ \/ Seen = {}
       \/ \E e \in img_extents : ~HasChunk(e.addr)
       \/ \E e \in NotInPlace : ~Readable(e)
    /\ mode' = "refused"
    /\ UNCHANGED <<vars, cvars, after, held, begun>>

\* Where an extent of the image is written back to.
Home(e) == e.pos

\* The extents are kept by their positions.
ExtentAt(pos) == CHOOSE e \in NotInPlace : e.pos = pos

\* What is written back for an extent.
Record(e) ==
    [off |-> Home(e), data |-> [j \in 0 .. e.length - 1 |-> disk[e.addr + j]]]

\* All that is to be written back is read before anything is written.
ReadImage ==
    /\ Openable
    /\ Seen # {}
    /\ \A e \in img_extents : HasChunk(e.addr)
    /\ \A e \in NotInPlace : Readable(e)
    /\ LET positions == Ascending({e.pos : e \in NotInPlace})
       IN  held' = [i \in DOMAIN positions |-> Record(ExtentAt(positions[i]))]
    /\ mode' = "writing"
    /\ UNCHANGED <<vars, cvars, after, begun>>

\* Variant: a cluster more is written.
StoreLonger(units, r) ==
    LET n == Cardinality(DOMAIN r.data)
    IN  [u \in DOMAIN units |->
            IF u \in Extent(r.off, n + ClusterSize) THEN r.data[(u - r.off) % n] ELSE units[u]]

\* raw_write, to the volume and to what follows it.
Store(units, r) ==
    [u \in DOMAIN units |-> IF u - r.off \in DOMAIN r.data THEN r.data[u - r.off] ELSE units[u]]

WriteBack ==
    /\ mode = "writing" /\ held # <<>>
    /\ LET r == Head(held)
       IN  /\ disk' = Store(disk, r)
           /\ after' = Store(after, r)
           /\ mode' = IF r.off + Cardinality(DOMAIN r.data) > PartitionSize
                      THEN "failed" ELSE mode
    /\ held' = Tail(held)
    /\ begun' = TRUE
    /\ UNCHANGED <<vars, step, todo, files, memory>>

Finish ==
    /\ mode = "writing" /\ held = <<>>
    /\ mode' = "restored"
    /\ UNCHANGED <<vars, cvars, after, held, begun>>

\* Rollback is killed.
Interrupt ==
    /\ mode = "writing"
    /\ mode' = "interrupted"
    /\ held' = <<>>
    /\ UNCHANGED <<vars, cvars, after, begun>>

RollbackNext ==
    \/ Convert
    \/ Stop
    \/ UseVolume
    \/ Refuse
    \/ ReadImage
    \/ WriteBack
    \/ Finish
    \/ Interrupt

RollbackSpec == RollbackInit /\ [][RollbackNext]_<<vars, cvars, rvars>>

-----------------------------------------------------------------------------
\* When rollback is over the old file system is whole, whatever has been written to
\* the volume since and however often rollback was killed on the way; also if
\* it fails, which it may at the last write only.
Restored == mode \in {"restored", "failed"} => NtfsWhole

\* Rollback refuses no volume that has been converted to the end, as long as
\* nothing has been written back: all of the image is in chunks.
Accepted == mode = "refused" /\ ~begun => step # "done"

\* While rollback writes to the places that the old file system had it never
\* overwrites what is there already: what has been brought back stays, and a cluster
\* that was never moved is not touched.
NeverUndone ==
    [][mode = "writing" =>
          \A u \in NtfsUnits : disk[u] = Ntfs(u) => disk'[u] = Ntfs(u)]_<<vars, cvars, rvars>>

\* "This restores the volume to how it was": the copy of the boot sector that follows
\* the volume included.
BackupBootKept == mode = "restored" => \A u \in DOMAIN after : after[u] = Ntfs(u)

=============================================================================
