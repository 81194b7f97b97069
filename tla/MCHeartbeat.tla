---------------------------- MODULE MCHeartbeat ----------------------------
(* Heartbeat for TLC, with the default delays in units of 50 ms. *)
EXTENDS Heartbeat
=============================================================================
