---------------------------- MODULE VMLifecycle ----------------------------
(***************************************************************************)
(* What the manager promises of each machine it looks after, whatever it   *)
(* keeps to do so: the phases of a machine's life, which change may follow *)
(* which, and that a runner is let into a machine only while the machine   *)
(* is running.  A start or a stop takes time, during which a runner that   *)
(* is already inside may report that the machine failed; the start or stop *)
(* then has the last word.                                                 *)
(***************************************************************************)
EXTENDS FiniteSets

CONSTANTS
  Machines,  \* identifiers of machines; an identifier is never used again
  Runners    \* threads that run machines

VARIABLES
  phase,     \* phase of each machine
  pending,   \* the start or stop in progress: <<kind, machine>>, or <<>>
  admitted   \* the machines each runner has been let into

lifecycleVars == <<phase, pending, admitted>>

Unborn == "unborn"
Gone == "gone"
Phases == {Unborn, Gone, "stopped", "running", "paused", "terminated",
           "failed", "changing"}

Init ==
  /\ phase = [m \in Machines |-> Unborn]
  /\ pending = <<>>
  /\ admitted = [r \in Runners |-> {}]

Alive(m) == phase[m] \notin {Unborn, Gone}

Become(m, p) == phase' = [phase EXCEPT ![m] = p]

(* A change that is over at once. *)
Change(m, from, p) ==
  /\ pending = <<>>
  /\ phase[m] \in from
  /\ Become(m, p)
  /\ UNCHANGED <<pending, admitted>>

Living == Phases \ {Unborn, Gone}

Create(m) == Change(m, {Unborn}, "stopped")
(* Deletion is refused to a machine in use, and its callers answer for the *)
(* runners.                                                                *)
Delete(m) ==
  /\ \A r \in Runners : m \notin admitted[r]
  /\ Change(m, Living \ {"running", "paused"}, Gone)
Pause(m) == Change(m, {"running"}, "paused")
Resume(m) == Change(m, {"paused"}, "running")
Terminate(m) == Change(m, Living, "terminated")
(* A reset keeps a running machine running and stops every other, if it    *)
(* does not fail; a start of a terminated machine begins with one.         *)
Reset(m) == \/ Change(m, {"running"}, "running")
            \/ Change(m, Living \ {"running"}, "stopped")
            \/ Change(m, Living, "failed")
Restore(m) == Change(m, Living, "stopped") \/ Change(m, Living, "failed")

Begin(m, kind, from) ==
  /\ pending = <<>>
  /\ phase[m] \in from
  /\ Become(m, "changing")
  /\ pending' = <<kind, m>>
  /\ UNCHANGED admitted

BeginStart(m) == Begin(m, "start", {"stopped", "terminated"})
BeginStop(m) == Begin(m, "stop", {"running", "paused"})

(* A start may also be left half done, which only a reset, a restore, a    *)
(* termination or a deletion gets the machine out of.                      *)
Finish(m, kind, to) ==
  /\ pending = <<kind, m>>
  /\ phase' \in {[phase EXCEPT ![m] = p] : p \in to}
  /\ pending' = <<>>
  /\ UNCHANGED admitted

FinishStart(m) == Finish(m, "start", {"running", "failed", phase[m]})
FinishStop(m) == Finish(m, "stop", {"stopped"})

Admit(r, m) ==
  /\ phase[m] = "running"
  /\ admitted[r] = {}
  /\ admitted' = [admitted EXCEPT ![r] = {m}]
  /\ UNCHANGED <<phase, pending>>

(* A runner leaves, and says whether the machine failed. *)
Leave(r, m) ==
  /\ admitted[r] = {m}
  /\ admitted' = [admitted EXCEPT ![r] = {}]
  /\ phase' \in {phase, [phase EXCEPT ![m] = "failed"]}
  /\ UNCHANGED pending

Next ==
  \E m \in Machines :
    \/ Create(m) \/ Delete(m) \/ Pause(m) \/ Resume(m)
    \/ Terminate(m) \/ Reset(m) \/ Restore(m)
    \/ BeginStart(m) \/ FinishStart(m) \/ BeginStop(m) \/ FinishStop(m)
    \/ \E r \in Runners : Admit(r, m) \/ Leave(r, m)

Spec == Init /\ [][Next]_lifecycleVars
=============================================================================
