------------------------- MODULE MCDeviceInterrupts -------------------------
(* DeviceInterrupts with constants for TLC. *)
EXTENDS DeviceInterrupts

\* Snapshots taken of a machine whose first CPU waited while the other ran with
\* the timer on, and of one whose second CPU waited and whose queue held every
\* vector.
MCMachines ==
  {[cpuState |-> [c \in CPU |-> IF c = 0 THEN "WAITING" ELSE "RUNNING"],
    lid |-> [c \in CPU |-> c], active |-> 1,
    timer |-> [interval |-> 2, elapsed |-> 1, vector |-> 32,
               enabled |-> TRUE, periodic |-> TRUE],
    queue |-> {}],
   [cpuState |-> [c \in CPU |-> IF c = 0 THEN "RUNNING" ELSE "WAITING"],
    lid |-> [c \in CPU |-> 0], active |-> 0,
    timer |-> NewTimer, queue |-> Vectors]}
=============================================================================
