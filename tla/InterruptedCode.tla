-------------------------- MODULE InterruptedCode --------------------------
(***************************************************************************)
(* What interruptions promise to the code they interrupt: it is put aside  *)
(* as it is and taken up again as it was put aside, the last first, but    *)
(* from the beginning of its bundle.  Each code has a depth, 0 for the     *)
(* program, and works only on what is its own.  Nothing is said here of    *)
(* where a code is kept while it is put aside: control registers, frames   *)
(* and handlers are how IA64Interruption does it.                          *)
(***************************************************************************)
EXTENDS Naturals

CONSTANTS
  Bundle,       \* bundle addresses
  HandlerEntry  \* where handlers begin

VARIABLES
  depth,  \* the depth of the code that runs
  code    \* at each depth: where it is, and whose values GR32 and up hold

codeVars == <<depth, code>>

Beginning(b, gr) == [ip |-> b, slot |-> 0, gr |-> gr]

Init == depth = 0 /\ code = [d \in {0} |-> Beginning(0, 0)]

(* The code that runs goes on. *)
Runs(after) == UNCHANGED depth /\ code' = [code EXCEPT ![depth] = after]

NextSlot == code[depth].slot < 2 /\ Runs([code[depth] EXCEPT !.slot = @ + 1])

NextBundle == \E b \in Bundle : Runs(Beginning(b, code[depth].gr))

\* A handler makes GR32 and up its own.
OwnFrame == depth > 0 /\ Runs([code[depth] EXCEPT !.gr = depth])

(* A handler is entered with the registers of the code that is put aside.  *)
PutAside ==
  /\ depth' = depth + 1
  /\ code' = [d \in 0 .. depth + 1 |->
                IF d < depth THEN code[d]
                ELSE Beginning(IF d = depth THEN code[depth].ip ELSE HandlerEntry,
                               code[depth].gr)]

TakeUp ==
  /\ depth > 0 /\ depth' = depth - 1
  /\ code' = [d \in 0 .. depth - 1 |-> code[d]]

Reset == depth' = 0 /\ code' = [d \in {0} |-> Beginning(0, 0)]

Next == NextSlot \/ NextBundle \/ OwnFrame \/ PutAside \/ TakeUp \/ Reset

Spec == Init /\ [][Next]_codeVars
=============================================================================
