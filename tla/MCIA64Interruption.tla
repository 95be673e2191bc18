------------------------- MODULE MCIA64Interruption -------------------------
(* IA64Interruption with two bundles and interruptions nested three deep. *)
EXTENDS IA64Interruption
=============================================================================
