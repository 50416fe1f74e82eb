--------------------------- MODULE MCDeviceSockets ---------------------------
(* Instance for TLC; the constants are in the configuration. *)
EXTENDS DeviceSockets
==============================================================================
