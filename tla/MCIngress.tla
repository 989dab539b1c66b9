----------------------------- MODULE MCIngress -----------------------------
(* Ingress for TLC: the .cfg gives the bounds. *)
EXTENDS Ingress
=============================================================================
