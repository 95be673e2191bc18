---------------------- MODULE MCIA64ExternalInterrupts ----------------------
(* Two device vectors of different priority classes, one also the timer's. *)
EXTENDS IA64ExternalInterrupts

MCVectors == {33, 48}
MCTimerVectors == {0, 48}
MCTaskPriorities == {0, 47}
=============================================================================
