---------------------------- MODULE MCReplayWindow ----------------------------
(* Instance for TLC; the constants are in the configuration. *)
EXTENDS ReplayWindow
==============================================================================
