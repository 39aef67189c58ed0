----------------------------- MODULE BitmapScan -----------------------------
(***************************************************************************)
(* The loop of create_data_chunks that reads one segment of $Bitmap and    *)
(* collects the runs of used clusters, one action per way round the loop.  *)
(***************************************************************************)
EXTENDS Bitmap, Sequences

CONSTANTS
    MaxBytes    \* bound: the number of bytes examined, csv.length()

ASSUME ScanAssumption == MaxBytes \in Nat

VARIABLES
    B,          \* the bits that are set in the segment
    n,          \* the bytes to examine
    read,       \* the bits taken from csv
    left,       \* the bits of the value v still to be looked at one by one
    pos,        \* the cluster the scan believes it is at
    set,        \* inside a run of used clusters
    run_start,
    used,       \* the list of runs found
    done

vars == <<B, n, read, left, pos, set, run_start, used, done>>

-----------------------------------------------------------------------------
Init ==
    /\ n \in 0 .. MaxBytes
    /\ B \in SUBSET (0 .. ByteBits * n - 1)
    /\ read = 0 /\ left = 0 /\ pos = 0 /\ run_start = 0
    /\ set = FALSE /\ done = FALSE
    /\ used = <<>>

\* The bytes left in csv, and the bits of the next value: a uint32_t while
\* there is one.
BytesLeft == n - read \div ByteBits
WordWise == BytesLeft >= WordBytes
ValueBits == IF WordWise THEN WordBytes * ByteBits ELSE ByteBits

Value == {b \in 0 .. ValueBits - 1 : read + b \in B}

\* Variant: the bytes left after the last word are not looked at.
NextValueWords == ~done /\ left = 0 /\ WordWise

NextValue == ~done /\ left = 0 /\ BytesLeft > 0

\* Variant: the run is counted one too long.
EmitLongRun == used' = Append(used, [start |-> run_start, length |-> pos - run_start + 1])

\* used.emplace_back(run_start, pos - run_start), unless the run is empty.
EmitRun == used' = IF pos # run_start
                   THEN Append(used, [start |-> run_start, length |-> pos - run_start])
                   ELSE used

\* A value that changes nothing is stepped over.  The word loop adds the bits
\* of a word to pos; the byte loop adds 1.
StepOver ==
    /\ NextValue
    /\ Value = IF set THEN 0 .. ValueBits - 1 ELSE {}
    /\ pos' = pos + IF WordWise THEN ValueBits ELSE 1
    /\ read' = read + ValueBits
    /\ UNCHANGED <<B, n, left, set, run_start, used, done>>

\* A value of all ones opens a run.
OpenRun ==
    /\ NextValue /\ ~set
    /\ Value = 0 .. ValueBits - 1
    /\ run_start' = pos
    /\ set' = TRUE
    /\ pos' = pos + ValueBits
    /\ read' = read + ValueBits
    /\ UNCHANGED <<B, n, left, used, done>>

\* A value of all zeroes closes the run.
CloseRun ==
    /\ NextValue /\ set
    /\ Value = {}
    /\ EmitRun
    /\ set' = FALSE
    /\ pos' = pos + ValueBits
    /\ read' = read + ValueBits
    /\ UNCHANGED <<B, n, left, run_start, done>>

\* Any other value is looked at bit by bit.
MixedValue ==
    /\ NextValue
    /\ Value \notin {{}, 0 .. ValueBits - 1}
    /\ left' = ValueBits
    /\ UNCHANGED <<B, n, read, pos, set, run_start, used, done>>

NextBit ==
    /\ left > 0
    /\ \/ /\ read \in B
          /\ run_start' = IF set THEN run_start ELSE pos
          /\ set' = TRUE
          /\ UNCHANGED used
       \/ /\ read \notin B
          /\ IF set THEN EmitRun ELSE UNCHANGED used
          /\ set' = FALSE
          /\ UNCHANGED run_start
    /\ left' = left - 1
    /\ read' = read + 1
    /\ pos' = pos + 1
    /\ UNCHANGED <<B, n, done>>

\* Variant: the run that reaches the end is forgotten.
FinishWithoutRun ==
    /\ ~done /\ left = 0 /\ BytesLeft = 0
    /\ done' = TRUE
    /\ UNCHANGED <<B, n, read, left, pos, set, run_start, used>>

\* The run that reaches the end of the bitmap.
FinishScan ==
    /\ ~done /\ left = 0 /\ BytesLeft = 0
    /\ IF set THEN EmitRun ELSE UNCHANGED used
    /\ done' = TRUE
    /\ UNCHANGED <<B, n, read, left, pos, set, run_start>>

Next ==
    \/ StepOver
    \/ OpenRun
    \/ CloseRun
    \/ MixedValue
    \/ NextBit
    \/ FinishScan

Spec == Init /\ [][Next]_vars /\ WF_vars(Next)

-----------------------------------------------------------------------------
\* The clusters that the runs cover.
Covered == UNION {r.start .. r.start + r.length - 1 : r \in {used[j] : j \in DOMAIN used}}

\* The free list is built from the gaps between the runs, which needs the runs
\* in order with at least one cluster between each and the next.
RunsInOrder ==
    \A j \in 1 .. Len(used) - 1 :
        used[j].start + used[j].length < used[j + 1].start

\* The definition the allocator modules use is what the loop computes, the
\* wrong places of the last bytes included.
ComputesScannedUsed == done => Covered = ScannedUsed(B, n)

\* The scan reaches the end of the bitmap.
Terminates == <>done

=============================================================================
