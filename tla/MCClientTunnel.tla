---------------------------- MODULE MCClientTunnel ----------------------------
(* Small instances of ClientTunnel for TLC. *)
EXTENDS ClientTunnel
==============================================================================
