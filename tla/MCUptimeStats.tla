--------------------------- MODULE MCUptimeStats ---------------------------
(* Instances of UptimeStats for TLC. *)
EXTENDS UptimeStats

NoFaults    == {}
=============================================================================
