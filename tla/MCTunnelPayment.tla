--------------------------- MODULE MCTunnelPayment ---------------------------
(* Instance for TLC; the constants are in the configuration. *)
EXTENDS TunnelPayment
==============================================================================
