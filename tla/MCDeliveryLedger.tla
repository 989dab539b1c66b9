-------------------------- MODULE MCDeliveryLedger --------------------------
(* Model values of DeliveryLedger for TLC. *)
EXTENDS DeliveryLedger, TLC

CONSTANTS d1, d2, d3, r1, r2, s1, s2

Symmetry == Permutations({d1, d2, d3}) \cup Permutations({r1, r2}) \cup Permutations({s1, s2})
=============================================================================
