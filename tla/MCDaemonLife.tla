------------------------------ MODULE MCDaemonLife ------------------------------
(* DaemonLife for TLC; bounds are those of the cfg. *)
EXTENDS DaemonLife
=============================================================================
