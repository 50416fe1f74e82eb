----------------------------- MODULE MCDeviceLoop -----------------------------
(* Instance for TLC; the constants are in the configuration. *)
EXTENDS DeviceLoop
==============================================================================
