--------------------------- MODULE MCRunLifecycle ---------------------------
(* Run ids for TLC; each cfg says which arrive as what. *)
EXTENDS RunLifecycle

CONSTANTS u1, u2, b1, i1, s1, w1, none
=============================================================================
