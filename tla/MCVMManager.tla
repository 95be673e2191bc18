---------------------------- MODULE MCVMManager ----------------------------
(* VMManager with constants for TLC. *)
EXTENDS VMManager, TLC
=============================================================================
