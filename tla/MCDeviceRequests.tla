-------------------------- MODULE MCDeviceRequests --------------------------
(* The requests share nothing but the connections; one is enough for TLC. *)
EXTENDS DeviceRequests
CONSTANTS r1, d1, d2, d3, none
=============================================================================
