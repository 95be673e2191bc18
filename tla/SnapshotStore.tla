--------------------------- MODULE SnapshotStore ---------------------------
(***************************************************************************)
(* What keeping a machine's state promises, whichever way it is kept: the  *)
(* state of a moment is put away whole, and what is put back is what was   *)
(* put away or, where that was lost, nothing.  There are no differences,   *)
(* no parents and no unfinished writes here: those are the ways in which   *)
(* MachineSnapshots does it.                                               *)
(***************************************************************************)
EXTENDS Naturals

CONSTANTS
  Computed,  \* the parts of a state that execution changes, all at once
  Chosen     \* the parts that are set, one at a time

VARIABLES
  present,    \* the state of the machine
  now,        \* the moment at which anything last changed
  issued,     \* identifiers handed out
  snapshots,  \* identifier to the state put away under it
  held,       \* the parts of a state in a caller's hands
  checkpoint  \* the parts of a state that outlive the process

kept == <<held, checkpoint, issued, snapshots>>
storeVars == <<present, now, kept>>

State == Computed \cup Chosen
Fresh == [p \in State |-> 0]

Init ==
  /\ present = Fresh /\ now = 0
  /\ issued = 0 /\ snapshots = <<>>
  /\ held = <<>> /\ checkpoint = <<>>

(* Time passes, and the parts of S take the value of the new moment. *)
Change(S) ==
  /\ now' = now + 1
  /\ present' = [p \in State |-> IF p \in S THEN now + 1 ELSE present[p]]
  /\ UNCHANGED kept

(* The present is put away: under a new identifier, which may turn out to  *)
(* be worthless, into the hands of a caller, or for a later life.          *)
Take ==
  /\ issued' = issued + 1
  /\ UNCHANGED <<present, now, held, checkpoint>>
  /\ snapshots' \in {snapshots,
                     [id \in DOMAIN snapshots \cup {issued + 1} |->
                        IF id = issued + 1 THEN present ELSE snapshots[id]]}

Hold ==
  /\ \E S \in {Computed, State} : held' = [p \in S |-> present[p]]
  /\ UNCHANGED <<present, now, checkpoint, issued, snapshots>>

KeepForLater ==
  /\ checkpoint' = present
  /\ UNCHANGED <<present, now, held, issued, snapshots>>

(* Snapshots are lost, or the checkpoint is; none becomes another. *)
Lose ==
  /\ UNCHANGED <<present, now, issued, held>>
  /\ checkpoint' \in {checkpoint, <<>>}
  /\ \E S \in SUBSET DOMAIN snapshots : snapshots' = [id \in S |-> snapshots[id]]

(* What was put away is put back. *)
PutBack(parts) ==
  /\ UNCHANGED <<now, held, checkpoint, issued>>
  /\ present' = [p \in State |-> IF p \in DOMAIN parts THEN parts[p] ELSE present[p]]
  /\ UNCHANGED snapshots

(* A new process knows only the checkpoint. *)
StartAgain ==
  /\ issued' = 0 /\ present' = Fresh /\ held' = <<>> /\ snapshots' = <<>>
  /\ UNCHANGED <<now, checkpoint>>

Next ==
  \/ \E S \in {Computed, {}} \cup {{p} : p \in Chosen} : Change(S)
  \/ Take \/ Hold \/ KeepForLater \/ Lose
  \/ \E id \in DOMAIN snapshots : PutBack(snapshots[id])
  \/ PutBack(held) \/ PutBack(checkpoint)
  \/ StartAgain

Spec == Init /\ [][Next]_storeVars
=============================================================================
