--------------------------- MODULE MCFinishOutbox ---------------------------
(* FinishOutbox for TLC: the .cfg files give the runs and the bounds. *)
EXTENDS FinishOutbox

CONSTANTS r1, r2

=============================================================================
