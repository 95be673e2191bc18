----------------------------- MODULE VMManager -----------------------------
(***************************************************************************)
(* VMManager: what it records of each machine (VMMetadata), the machine it *)
(* owns (VirtualMachine, reduced to its state and to whether it has a CPU  *)
(* that can run), the snapshots, and the threads that run machines, as the *)
(* GUI's VMManagerWrapper starts them.                                     *)
(*                                                                         *)
(* One thread controls: the wrapper's calls hold its lock.  The execution  *)
(* loops hold none, so they interleave with the control thread inside      *)
(* startVM() and stopVM(), which take long, and between the check, the run *)
(* and the bookkeeping of runVM().  The other calls are one step.          *)
(***************************************************************************)
EXTENDS Naturals, FiniteSets

CONSTANTS
  Machines,      \* identifiers generateVMId() hands out, each at most once
  Loops,         \* execution loops there can be at a time
  None,          \* no machine, no loop, no snapshot
  MaxSnapshots   \* bound on the snapshots ever taken

ASSUME ManagerAssumption ==
  /\ None \notin Machines \cup Loops \cup Nat
  /\ MaxSnapshots \in Nat

VARIABLES
  vms,              \* keys of vms_
  created,          \* identifiers handed out, vmCounter_
  metadata,         \* VMMetadata of each machine
  machine,          \* the VirtualMachine of each
  snapshots,        \* snapshots_: what was stored for each machine
  snapshotCounter,
  loop,             \* each execution loop: where it is, which machine it runs
  token,            \* _vmExecutionThreads: the loop a stop will cancel
  control           \* the start or stop the control thread is in

vars == <<vms, created, metadata, machine, snapshots, snapshotCounter, loop,
          token, control>>
machineVars == <<vms, created, metadata, machine, snapshots, snapshotCounter>>
loopVars == <<loop, token>>

-----------------------------------------------------------------------------
(* Metadata. *)

VMState == {"CREATED", "STOPPED", "STARTING", "RUNNING", "PAUSED", "STOPPING",
            "TERMINATED", "ERROR", "SNAPSHOTTING"}

Metadata == [state : VMState, snapshotCount : Nat, active : Nat \cup {None}]
NewMetadata == [state |-> "CREATED", snapshotCount |-> 0, active |-> None]

State(m) == metadata[m].state
CanStart(m) == State(m) \in {"STOPPED", "CREATED", "TERMINATED"}
CanStop(m) == State(m) \in {"RUNNING", "PAUSED"}
CanSnapshot(m) == State(m) \in {"RUNNING", "PAUSED", "STOPPED"}

SetState(m, s) == metadata' = [metadata EXCEPT ![m].state = s]

(* The machine. *)

Fresh == [state |-> "STOPPED", ready |-> TRUE]

(* halt() stops a machine only while it runs, and its running CPUs with it. *)
Halted(v) == IF v.state = "RUNNING" THEN [state |-> "STOPPED", ready |-> FALSE]
                                    ELSE v

(* reset(), which a condition on the boot states can make fail.            *)
ResetMachine(m, ok) ==
  machine' = [machine EXCEPT ![m] = IF ok THEN Fresh ELSE [Fresh EXCEPT !.state = "ERROR"]]

(* What becomes of a machine that can execute: it goes on, its CPU halts,  *)
(* or it fails.                                                            *)
Executed == {[state |-> "RUNNING", ready |-> TRUE],
                [state |-> "STOPPED", ready |-> FALSE],
                [state |-> "ERROR", ready |-> TRUE]}

-----------------------------------------------------------------------------
(* Execution loops. *)

Idle == [at |-> "idle", m |-> None, cancelled |-> FALSE, ran |-> FALSE]

(* Inside runVM(), past its check of the metadata. *)
InRun(l) == loop[l].at \in {"admitted", "inside", "after"}

Free == [op |-> "none", m |-> None]

Ready(m) == control = Free /\ m \in vms

(* The wrapper starts a task for the machine, whatever startVM() said, and *)
(* keeps its token; the token of an earlier task is lost, not cancelled.   *)
Spawn(m) ==
  \E l \in Loops :
    /\ loop[l].at = "idle"
    /\ loop' = [loop EXCEPT ![l] = [Idle EXCEPT !.at = "test", !.m = m]]
    /\ token' = [x \in Machines |-> IF x = m THEN l
                                    ELSE IF token[x] = l THEN None ELSE token[x]]

Init ==
  /\ vms = {}
  /\ created = {}
  /\ metadata = [m \in Machines |-> NewMetadata]
  /\ machine = [m \in Machines |-> Fresh]
  /\ snapshots = [m \in Machines |-> {}]
  /\ snapshotCounter = 0
  /\ loop = [l \in Loops |-> Idle]
  /\ token = [m \in Machines |-> None]
  /\ control = Free

\* Mutant: the counter that makes identifiers unique stays where it is.
CreateVMReused(m) ==
  /\ control = Free
  /\ m \notin created
  /\ vms' = vms \cup {m}
  /\ SetState(m, "STOPPED")
  /\ UNCHANGED <<created, machine, snapshots, snapshotCounter, loopVars, control>>

(* createVM(): nothing is kept of a machine that fails to initialise.      *)
CreateVM(m) ==
  /\ control = Free
  /\ m \notin created
  /\ created' = created \cup {m}
  /\ vms' = vms \cup {m}
  /\ SetState(m, "STOPPED")
  /\ UNCHANGED <<machine, snapshots, snapshotCounter, loopVars, control>>

(* deleteVM() frees the machine: its callers must see to it that no thread *)
(* is inside.                                                              *)
DeleteVM(m) ==
  /\ Ready(m)
  /\ State(m) \notin {"RUNNING", "PAUSED"}
  /\ \A l \in Loops : loop[l].m = m => ~InRun(l)
  /\ vms' = vms \ {m}
  /\ snapshots' = [snapshots EXCEPT ![m] = {}]
  /\ metadata' = [metadata EXCEPT ![m] = NewMetadata]
  /\ machine' = [machine EXCEPT ![m] = Fresh]
  /\ UNCHANGED <<created, snapshotCounter, loopVars, control>>

-----------------------------------------------------------------------------
(* startVM() and the wrapper's StartVM() around it.  A machine that was    *)
(* terminated is reset first.                                              *)

StartVM(m) ==
  /\ Ready(m)
  /\ CanStart(m)
  /\ SetState(m, "STARTING")
  /\ IF State(m) = "TERMINATED" THEN ResetMachine(m, TRUE) ELSE UNCHANGED machine
  /\ control' = [op |-> "start", m |-> m]
  /\ UNCHANGED <<vms, created, snapshots, snapshotCounter, loopVars>>

StartResetFails(m) ==
  /\ Ready(m)
  /\ State(m) = "TERMINATED"
  /\ ResetMachine(m, FALSE)
  /\ SetState(m, "ERROR")
  /\ Spawn(m)
  /\ UNCHANGED <<vms, created, snapshots, snapshotCounter, control>>

(* The kernel or the boot device is loaded and the machine runs; or the    *)
(* load fails with an error; or the boot loader's image cannot be          *)
(* allocated, which returns without a word to the metadata.                *)
StartReturns(m) ==
  /\ control = [op |-> "start", m |-> m]
  /\ \/ SetState(m, "RUNNING")
     \/ SetState(m, "ERROR")
     \/ UNCHANGED metadata
  /\ Spawn(m)
  /\ control' = Free
  /\ UNCHANGED <<vms, created, machine, snapshots, snapshotCounter>>

(* A start that is refused still gets its task.  Nobody asks for one of a  *)
(* machine he knows to run.                                                *)
StartRefused(m) ==
  /\ Ready(m)
  /\ ~CanStart(m) /\ ~CanStop(m)
  /\ Spawn(m)
  /\ UNCHANGED <<machineVars, control>>

-----------------------------------------------------------------------------
(* stopVM(); the wrapper cancels the machine's task first.                 *)

CancelTask(m) ==
  /\ token' = [token EXCEPT ![m] = None]
  /\ loop' = [l \in Loops |-> IF l = token[m] /\ loop[l].at # "idle"
                              THEN [loop[l] EXCEPT !.cancelled = TRUE] ELSE loop[l]]

StopVM(m) ==
  /\ Ready(m)
  /\ CanStop(m)
  /\ CancelTask(m)
  /\ SetState(m, "STOPPING")
  /\ machine' = [machine EXCEPT ![m] = Halted(@)]
  /\ control' = [op |-> "stop", m |-> m]
  /\ UNCHANGED <<vms, created, snapshots, snapshotCounter>>

StopReturns(m) ==
  /\ control = [op |-> "stop", m |-> m]
  /\ SetState(m, "STOPPED")
  /\ control' = Free
  /\ UNCHANGED <<vms, created, machine, snapshots, snapshotCounter, loopVars>>

(* A stop that is refused has cancelled the task all the same. *)
StopRefused(m) ==
  /\ Ready(m)
  /\ ~CanStop(m)
  /\ CancelTask(m)
  /\ UNCHANGED <<machineVars, control>>

-----------------------------------------------------------------------------
(* pauseVM() and resumeVM() tell the machine nothing. *)

\* Mutant: any machine can be paused.
PauseVMAlways(m) ==
  /\ Ready(m)
  /\ SetState(m, "PAUSED")
  /\ UNCHANGED <<vms, created, machine, snapshots, snapshotCounter, loopVars, control>>

PauseVM(m) ==
  /\ Ready(m)
  /\ State(m) = "RUNNING"
  /\ SetState(m, "PAUSED")
  /\ UNCHANGED <<vms, created, machine, snapshots, snapshotCounter, loopVars, control>>

ResumeVM(m) ==
  /\ Ready(m)
  /\ State(m) = "PAUSED"
  /\ SetState(m, "RUNNING")
  /\ UNCHANGED <<vms, created, machine, snapshots, snapshotCounter, loopVars, control>>

ResetVM(m) ==
  /\ Ready(m)
  /\ \E ok \in BOOLEAN :
       /\ ResetMachine(m, ok)
       /\ SetState(m, IF ~ok THEN "ERROR"
                      ELSE IF State(m) = "RUNNING" THEN "RUNNING" ELSE "STOPPED")
  /\ UNCHANGED <<vms, created, snapshots, snapshotCounter, loopVars, control>>

TerminateVM(m) ==
  /\ Ready(m)
  /\ SetState(m, "TERMINATED")
  /\ machine' = [machine EXCEPT ![m] = Halted(@)]
  /\ UNCHANGED <<vms, created, snapshots, snapshotCounter, loopVars, control>>

(* stepVM() runs one instruction, and looks at nothing the machine says.   *)
StepVM(m) ==
  /\ Ready(m)
  /\ State(m) = "RUNNING"
  /\ machine[m].state # "ERROR"
  /\ machine' \in {[machine EXCEPT ![m] = v] :
                     v \in IF machine[m].ready THEN Executed
                           ELSE {[machine[m] EXCEPT !.state = "STOPPED"]}}
  /\ UNCHANGED <<vms, created, metadata, snapshots, snapshotCounter, loopVars, control>>

-----------------------------------------------------------------------------
(* Snapshots: of the metadata, taken while they say SNAPSHOTTING. *)

\* Mutant: a snapshot is named after the number of those there are.
SnapshotVMCounted(m) ==
  /\ Ready(m)
  /\ CanSnapshot(m)
  /\ snapshotCounter < MaxSnapshots
  /\ LET kept == [metadata[m] EXCEPT !.state = "SNAPSHOTTING"]
         stored == snapshots[m] \cup {[id |-> Cardinality(snapshots[m]), vm |-> kept]}
     IN /\ snapshots' = [snapshots EXCEPT ![m] = stored]
        /\ metadata' = [metadata EXCEPT ![m].snapshotCount = Cardinality(stored)]
  /\ snapshotCounter' = snapshotCounter + 1
  /\ UNCHANGED <<vms, created, machine, loopVars, control>>

SnapshotVM(m) ==
  /\ Ready(m)
  /\ CanSnapshot(m)
  /\ snapshotCounter < MaxSnapshots
  /\ LET kept == [metadata[m] EXCEPT !.state = "SNAPSHOTTING"]
         stored == snapshots[m] \cup {[id |-> snapshotCounter, vm |-> kept]}
     IN /\ snapshots' = [snapshots EXCEPT ![m] = stored]
        /\ metadata' = [metadata EXCEPT ![m].snapshotCount = Cardinality(stored)]
  /\ snapshotCounter' = snapshotCounter + 1
  /\ UNCHANGED <<vms, created, machine, loopVars, control>>

\* Mutant: the state of the kept metadata is left as it comes.
RestoreSnapshotAsKept(m) ==
  /\ Ready(m)
  /\ \E s \in snapshots[m] :
       /\ ResetMachine(m, TRUE)
       /\ metadata' = [metadata EXCEPT ![m] = [s.vm EXCEPT !.active = s.id]]
  /\ UNCHANGED <<vms, created, snapshots, snapshotCounter, loopVars, control>>

(* Puts the kept metadata back; the machine is only reset. *)
RestoreSnapshot(m) ==
  /\ Ready(m)
  /\ \E s \in snapshots[m], ok \in BOOLEAN :
       /\ ResetMachine(m, ok)
       /\ metadata' = [metadata EXCEPT ![m] =
                         [s.vm EXCEPT !.active = s.id,
                                      !.state = IF ok THEN "STOPPED" ELSE "ERROR"]]
  /\ UNCHANGED <<vms, created, snapshots, snapshotCounter, loopVars, control>>

DeleteSnapshot(m) ==
  /\ Ready(m)
  /\ \E s \in snapshots[m] :
       /\ snapshots' = [snapshots EXCEPT ![m] = @ \ {s}]
       /\ metadata' = [metadata EXCEPT ![m].snapshotCount = Cardinality(snapshots[m] \ {s})]
  /\ UNCHANGED <<vms, created, machine, snapshotCounter, loopVars, control>>

-----------------------------------------------------------------------------
(* The wrapper's VMExecutionLoop() and runVM() inside it. *)

Go(l, place) == loop' = [loop EXCEPT ![l].at = place]
End(l) == loop' = [loop EXCEPT ![l] = Idle]

LoopTest(l) ==
  /\ loop[l].at = "test"
  /\ IF loop[l].cancelled THEN End(l) ELSE Go(l, "call")
  /\ UNCHANGED <<machineVars, token, control>>

\* Mutant: only a machine in error is refused.
RunChecksError(l) ==
  /\ loop[l].at = "call"
  /\ IF loop[l].m \in vms /\ State(loop[l].m) # "ERROR"
     THEN Go(l, "admitted") ELSE End(l)
  /\ UNCHANGED <<machineVars, token, control>>

(* runVM() looks the machine up and checks its metadata; a loop whose call *)
(* is refused gives up.                                                    *)
RunChecks(l) ==
  /\ loop[l].at = "call"
  /\ IF loop[l].m \in vms /\ State(loop[l].m) = "RUNNING"
     THEN Go(l, "admitted") ELSE End(l)
  /\ UNCHANGED <<machineVars, token, control>>

\* Mutant: run() begins in a machine in error as in any other.
RunEntersAlways(l) ==
  LET m == loop[l].m IN
  /\ loop[l].at = "admitted"
  /\ Go(l, "inside") /\ machine' = [machine EXCEPT ![m].state = "RUNNING"]
  /\ UNCHANGED <<vms, created, metadata, snapshots, snapshotCounter, token, control>>

(* VirtualMachine::run() begins: it refuses a machine in error, and makes  *)
(* any other RUNNING.                                                      *)
RunEnters(l) ==
  LET m == loop[l].m IN
  /\ loop[l].at = "admitted"
  /\ IF machine[m].state = "ERROR"
     THEN Go(l, "after") /\ UNCHANGED machine
     ELSE Go(l, "inside") /\ machine' = [machine EXCEPT ![m].state = "RUNNING"]
  /\ UNCHANGED <<vms, created, metadata, snapshots, snapshotCounter, token, control>>

(* One turn of its loop: leave because the machine no longer runs; because *)
(* the batch is used up; because no CPU can run; or execute.               *)
RunStops(l) ==
  LET m == loop[l].m IN
  /\ loop[l].at = "inside"
  /\ \/ machine[m].state # "RUNNING" /\ UNCHANGED machine
     \/ /\ machine[m].state = "RUNNING"
        /\ loop[l].ran \/ ~machine[m].ready
        /\ machine' = [machine EXCEPT ![m].state = "STOPPED"]
  /\ Go(l, "after")
  /\ UNCHANGED <<vms, created, metadata, snapshots, snapshotCounter, token, control>>

(* A batch of instructions up to the one that ends it; the instruction     *)
(* that halts or fails does not count as a cycle.                          *)
RunExecutes(l) ==
  LET m == loop[l].m IN
  /\ loop[l].at = "inside"
  /\ machine[m].state = "RUNNING"
  /\ machine[m].ready
  /\ ~loop[l].ran
  /\ \E v \in Executed, counted \in BOOLEAN :
       /\ v.state = "RUNNING" => counted
       /\ machine' = [machine EXCEPT ![m] = v]
       /\ loop' = [loop EXCEPT ![l].ran = counted]
  /\ UNCHANGED <<vms, created, metadata, snapshots, snapshotCounter, token, control>>

\* Mutant: the error is shown but not written down.
RunReturnsErrorOnlyShown(l) ==
  /\ loop[l].at = "after"
  /\ loop' = [loop EXCEPT ![l] = IF loop[l].ran
                                 THEN [@ EXCEPT !.at = "test", !.ran = FALSE] ELSE Idle]
  /\ UNCHANGED <<machineVars, token, control>>

(* runVM() writes an error of the machine down; the loop goes on unless no *)
(* cycle was counted.                                                      *)
RunReturns(l) ==
  LET m == loop[l].m IN
  /\ loop[l].at = "after"
  /\ IF machine[m].state = "ERROR" THEN SetState(m, "ERROR") ELSE UNCHANGED metadata
  /\ loop' = [loop EXCEPT ![l] = IF loop[l].ran
                                 THEN [@ EXCEPT !.at = "test", !.ran = FALSE] ELSE Idle]
  /\ UNCHANGED <<vms, created, machine, snapshots, snapshotCounter, token, control>>

-----------------------------------------------------------------------------
LoopStep(l) == \/ LoopTest(l) \/ RunChecks(l) \/ RunEnters(l)
               \/ RunStops(l) \/ RunExecutes(l) \/ RunReturns(l)

ControlStep(m) == StartReturns(m) \/ StopReturns(m)

Next ==
  \/ \E m \in Machines :
       \/ CreateVM(m) \/ DeleteVM(m)
       \/ StartVM(m) \/ StartResetFails(m) \/ StartRefused(m)
       \/ StopVM(m) \/ StopRefused(m)
       \/ PauseVM(m) \/ ResumeVM(m) \/ ResetVM(m) \/ TerminateVM(m) \/ StepVM(m)
       \/ SnapshotVM(m) \/ RestoreSnapshot(m) \/ DeleteSnapshot(m)
       \/ ControlStep(m)
  \/ \E l \in Loops : LoopStep(l)

(* Threads are not starved; nobody has to ask for anything. *)
Fairness ==
  /\ \A l \in Loops : WF_vars(LoopStep(l))
  /\ \A m \in Machines : WF_vars(ControlStep(m))

Spec == Init /\ [][Next]_vars /\ Fairness

-----------------------------------------------------------------------------
TypeOK ==
  /\ vms \subseteq created
  /\ created \subseteq Machines
  /\ metadata \in [Machines -> Metadata]
  /\ machine \in [Machines -> [state : {"STOPPED", "RUNNING", "ERROR"}, ready : BOOLEAN]]
  /\ snapshots \in [Machines -> SUBSET [id : Nat, vm : Metadata]]
  /\ snapshotCounter \in Nat
  /\ loop \in [Loops -> [at : {"idle", "test", "call", "admitted", "inside", "after"},
                         m : Machines \cup {None}, cancelled : BOOLEAN, ran : BOOLEAN]]
  /\ token \in [Machines -> Loops \cup {None}]
  /\ control \in [op : {"none", "start", "stop"}, m : Machines \cup {None}]

(***************************************************************************)
(* The manager implements the life cycle it promises: the phases of the    *)
(* metadata change as VMLifecycle says, and a thread is let into a machine *)
(* only while its metadata say RUNNING, though it may still be inside long *)
(* after.                                                                  *)
(***************************************************************************)
Phase(m) ==
  IF m \notin created THEN "unborn"
  ELSE IF m \notin vms THEN "gone"
  ELSE CASE State(m) = "STOPPED" -> "stopped"
         [] State(m) = "RUNNING" -> "running"
         [] State(m) = "PAUSED" -> "paused"
         [] State(m) = "TERMINATED" -> "terminated"
         [] State(m) = "ERROR" -> "failed"
         [] OTHER -> "changing"

Lifecycle == INSTANCE VMLifecycle WITH
  Runners <- Loops,
  phase <- [m \in Machines |-> Phase(m)],
  pending <- IF control = Free THEN <<>> ELSE <<control.op, control.m>>,
  admitted <- [l \in Loops |-> IF InRun(l) THEN {loop[l].m} ELSE {}]

ImplementsLifecycle == Lifecycle!Spec

(***************************************************************************)
(* Each machine the manager owns lives as a machine by itself promises     *)
(* (which VirtualMachine shows of the real one), with the threads the      *)
(* manager lets in as its callers: between the check of the metadata and   *)
(* its run a machine may be halted, reset or stepped by others.            *)
(***************************************************************************)
LifeState(m) == IF m \in created THEN machine[m].state ELSE "CREATED"
LifeReady(m) == m \in created /\ machine[m].ready
Callers(m) == [l \in Loops |-> IF loop[l].m = m /\ loop[l].at = "inside"
                               THEN "run" ELSE "outside"]

Life(m) == INSTANCE MachineLife WITH
  Threads <- Loops,
  Coarse <- TRUE,
  state <- LifeState(m),
  ready <- LifeReady(m),
  place <- Callers(m)

MachinesLive ==
  /\ \A m \in Machines : Life(m)!Init
  /\ [][\A m \in Machines : [Life(m)!Next]_(Life(m)!lifeVars)]_vars

(***************************************************************************)
(* Between calls no machine is left in the middle of one, whatever was     *)
(* restored, refused or failed meanwhile, except in STARTING: that is how  *)
(* startVM() leaves a machine whose boot loader could not be allocated.    *)
(* The metadata a snapshot keeps say SNAPSHOTTING and are put back whole,  *)
(* and a runner may write ERROR in the middle of a start or a stop.        *)
(***************************************************************************)
SettledBetweenCalls ==
  \A m \in vms : State(m) \in {"STOPPING", "SNAPSHOTTING", "CREATED"} =>
    control = [op |-> "stop", m |-> m]

(***************************************************************************)
(* A snapshot's identifier names one snapshot for ever: activeSnapshot, in *)
(* the metadata or kept in another snapshot, may name one that was deleted *)
(* since, but never comes to name a later one of any machine.              *)
(***************************************************************************)
Named(m) == {metadata[m].active} \cup {s.id : s \in snapshots[m]}
                                \cup {s.vm.active : s \in snapshots[m]}

IdentifiersNameOneSnapshot ==
  [][\A m, n \in Machines : \A s \in snapshots'[n] \ snapshots[n] :
       s.id \notin Named(m)]_vars

(***************************************************************************)
(* Stopping takes effect: if a machine stays stopped or terminated, every  *)
(* thread inside it leaves in the end, the one admitted just before the    *)
(* stop included, whose run() starts the machine again.                    *)
(***************************************************************************)
AtRest(m) == State(m) \in {"STOPPED", "TERMINATED"}

StopTakesEffect ==
  \A m \in Machines :
    <>[]AtRest(m) => <>[](\A l \in Loops : loop[l].m # m)

(***************************************************************************)
(* A machine's error reaches its metadata: while a loop serves the machine *)
(* and is not cancelled, the two do not disagree for ever, even when the   *)
(* error came in a stepVM(), which does not look, or in the middle of a    *)
(* start, which overwrites what the runner wrote.                          *)
(***************************************************************************)
Hidden(m) == machine[m].state = "ERROR" /\ State(m) = "RUNNING"
Served(m) == \E l \in Loops : loop[l].m = m /\ ~loop[l].cancelled

ErrorReachesMetadata ==
  \A m \in Machines : Hidden(m) /\ Served(m) ~> ~Hidden(m)
=============================================================================
