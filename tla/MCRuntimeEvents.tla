-------------------------- MODULE MCRuntimeEvents ---------------------------
(* Runs and events for TLC; each cfg says which ones there are. *)
EXTENDS RuntimeEvents, TLC

CONSTANTS u1, w1, w2, w3, g1, o1, p1, c1, c2, none

\* The ids a process mints are interchangeable, and so are the tasks.
Symmetry == Permutations(WakeRuns) \cup Permutations(Calls)
=============================================================================
