------------------------- MODULE InterruptRequests -------------------------
(***************************************************************************)
(* What an interrupt unit promises to those who request interrupts: each   *)
(* request stays owed until a handler is told of it, once; a handler is    *)
(* told of one request, the one it was entered for or, when it asks of its *)
(* own accord, the highest; and it is entered for the highest of all that  *)
(* are owed, never for a lower one because the higher is masked.  When it  *)
(* is entered, and what masks it, is not said here, nor is it who makes    *)
(* the requests: a timer is one more device.                               *)
(***************************************************************************)
EXTENDS Naturals

CONSTANTS
  Vectors,
  Nobody    \* no vector: no handler is under way

VARIABLES
  owed,      \* how often each vector is requested and nobody told
  handling,  \* the vector of the handler under way
  told       \* the handler has been told

requestVars == <<owed, handling, told>>

Init == owed = [v \in Vectors |-> 0] /\ handling = Nobody /\ told = FALSE

Request(v) == owed' = [owed EXCEPT ![v] = @ + 1] /\ UNCHANGED <<handling, told>>

Highest(v) == owed[v] > 0 /\ \A w \in Vectors : owed[w] > 0 => v >= w

\* A handler is entered, and does not know yet for what.
Enter(v) ==
  /\ handling = Nobody /\ Highest(v)
  /\ handling' = v /\ told' = FALSE /\ UNCHANGED owed

Tell(v) == owed[v] > 0 /\ owed' = [owed EXCEPT ![v] = @ - 1] /\ told' = TRUE

\* It asks.
Answer == handling # Nobody /\ ~told /\ Tell(handling) /\ UNCHANGED handling

\* Code that is no handler asks, and becomes one.
Poll(v) == handling = Nobody /\ Highest(v) /\ Tell(v) /\ handling' = v

Finish == told /\ handling' = Nobody /\ told' = FALSE /\ UNCHANGED owed

Forget == owed' = [v \in Vectors |-> 0] /\ handling' = Nobody /\ told' = FALSE

Next ==
  \/ \E v \in Vectors : Request(v) \/ Enter(v) \/ Poll(v)
  \/ Answer \/ Finish \/ Forget

Spec == Init /\ [][Next]_requestVars
=============================================================================
