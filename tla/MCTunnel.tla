------------------------------- MODULE MCTunnel -------------------------------
(* Instance for TLC; the constants are in the configuration. *)
EXTENDS Tunnel
==============================================================================
