----------------------- MODULE MCIA64AddressTranslation -----------------------
(* IA64AddressTranslation with constants for TLC: page 0 is data, 1 needs no *)
(* table and 2 maps the table; a large entry holds 0 and 1.  Nothing tells   *)
(* the two contexts apart but their names.                                   *)
EXTENDS IA64AddressTranslation, TLC

CONSTANTS r1, r2, f

MCRids == {r1, r2}
MCFrames == MCRids \cup {f}
MCPages == 0 .. 2

\* Not present; present, accessed and clean.
MCContents ==
  {[present |-> FALSE, accessed |-> FALSE, dirty |-> FALSE, rights |-> {}, frame |-> f],
   [present |-> TRUE, accessed |-> TRUE, dirty |-> FALSE, rights |-> Accesses, frame |-> f]}

Symmetry == Permutations(MCRids)
=============================================================================
