----------------------------- MODULE MCIpcCalls -----------------------------
(* IpcCalls for TLC: the .cfg names the calls and gives the bounds. *)
EXTENDS IpcCalls
=============================================================================
