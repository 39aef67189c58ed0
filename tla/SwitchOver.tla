----------------------------- MODULE SwitchOver -----------------------------
(***************************************************************************)
(* What a conversion in place promises whoever owns the volume.  At any    *)
(* moment, and so wherever the program is killed, the device holds a whole *)
(* file system: the NTFS one until a single step puts the Btrfs one in its *)
(* place, and the Btrfs one from then on.  The program gives up only       *)
(* before that step.                                                       *)
(***************************************************************************)
VARIABLES
    volume,     \* the file system that is whole
    gave_up     \* the program has ended with an error

vars == <<volume, gave_up>>

Init == volume = "ntfs" /\ gave_up = FALSE

Switch == volume = "ntfs" /\ ~gave_up /\ volume' = "btrfs" /\ UNCHANGED gave_up

GiveUp == volume = "ntfs" /\ gave_up' = TRUE /\ UNCHANGED volume

Next == Switch \/ GiveUp

Spec == Init /\ [][Next]_vars

=============================================================================
