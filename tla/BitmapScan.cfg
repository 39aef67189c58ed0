\* Up to 7 bytes of 2 bits, 3 bytes to a word: up to two words, and up to two
\* bytes left over.
SPECIFICATION Spec
CONSTANTS
    ByteBits = 2
    WordBytes = 3
    MaxBytes = 7
INVARIANTS
    RunsInOrder
    ComputesScannedUsed
PROPERTY
    Terminates
\* The scan ends.
CHECK_DEADLOCK FALSE
