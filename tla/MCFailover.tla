----------------------------- MODULE MCFailover -----------------------------
(* Failover for two threads, with the times and thresholds of the code. *)
EXTENDS Failover
=============================================================================
