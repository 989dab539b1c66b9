---------------------------- MODULE MCScheduler ----------------------------
(* Scheduler for TLC: the .cfg gives the kinds and the bounds. *)
EXTENDS Scheduler

BothKinds == {"once", "repeat"}
=============================================================================
