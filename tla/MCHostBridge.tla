---------------------------- MODULE MCHostBridge ----------------------------
(* Small instances of the host bridge for TLC. *)
EXTENDS HostBridgeProperties
=============================================================================
