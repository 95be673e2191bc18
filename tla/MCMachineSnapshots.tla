------------------------- MODULE MCMachineSnapshots -------------------------
(* MachineSnapshots with constants for TLC. *)
EXTENDS MachineSnapshots

MCPredicate == [i \in 0 .. 1 |-> IF i = 0 THEN "p16" ELSE "p17"]

\* A batch writes a predicate and ends in the middle of a bundle, or rotates
\* the predicates and ends at a boundary.
MCBatches ==
  {[writes |-> {"p16"}, rotates |-> FALSE, midway |-> TRUE],
   [writes |-> {}, rotates |-> TRUE, midway |-> FALSE]}
=============================================================================
