------------------------------- MODULE Bitmap -------------------------------
(***************************************************************************)
(* What create_data_chunks makes of the bytes of $Bitmap that belong to    *)
(* one segment of the volume: the clusters it takes for used.              *)
(*                                                                         *)
(* B is the set of numbers of the bits that are set, n the number of bytes *)
(* examined.  Bytes are read WordBytes at a time while that many are left, *)
(* then one at a time.  Module BitmapScan models the loop step by step and *)
(* shows that these definitions are its result.                            *)
(***************************************************************************)
EXTENDS Integers, FiniteSets

CONSTANTS
    ByteBits,   \* bits in a byte of the bitmap (8)
    WordBytes   \* bytes in a uint32_t (4)

ASSUME BitmapAssumption == ByteBits \in Nat \ {0} /\ WordBytes \in Nat \ {0}

\* The bits of byte i that are set.
ByteOf(B, i) == {b \in 0 .. ByteBits - 1 : ByteBits * i + b \in B}

\* The bytes that are read as parts of a uint32_t.
WordPart(n) == n - (n % WordBytes)

\* The bits those bytes hold: they are always put in the right place.
WordClusters(n) ==
    {ByteBits * i + b : i \in 0 .. WordPart(n) - 1, b \in 0 .. ByteBits - 1}

\* The value of "set" when byte i is reached: the bit before it.
SetBefore(B, i) == i > 0 /\ ByteBits * i - 1 \in B

\* The byte loop steps over a byte that changes nothing, one all ones when set
\* and all zeroes when not, and then adds 1 to pos, not the 8 it has passed.
Skipped(B, n, i) ==
    /\ i >= WordPart(n)
    /\ ByteOf(B, i) = IF SetBefore(B, i) THEN 0 .. ByteBits - 1 ELSE {}

\* The value of pos when byte i is reached.
PosAt(B, n, i) ==
    ByteBits * i
      - (ByteBits - 1) * Cardinality({j \in 0 .. i - 1 : Skipped(B, n, j)})

\* The clusters that byte i is taken to say are used.
UsedInByte(B, n, i) ==
    IF Skipped(B, n, i)
    THEN {PosAt(B, n, i) : b \in ByteOf(B, i)}
    ELSE {PosAt(B, n, i) + b : b \in ByteOf(B, i)}

\* The clusters of the runs in "used".
ScannedUsed(B, n) == UNION {UsedInByte(B, n, i) : i \in 0 .. n - 1}

=============================================================================
