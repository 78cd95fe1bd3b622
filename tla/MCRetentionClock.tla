--------------------------- MODULE MCRetentionClock ---------------------------
(* Durations and jumps for checking RetentionClock.                        *)
EXTENDS RetentionClock

(* Steps that pass unnoticed one by one, and jumps that do not. *)
SmallAndLarge == {-2, -1, 1, 4}

=============================================================================
