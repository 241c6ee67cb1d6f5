--------------------------- MODULE MCInputDispatch ---------------------------
(* Small instances of InputDispatch for TLC. *)
EXTENDS InputDispatch

CONSTANTS letter, shift, left

=============================================================================
