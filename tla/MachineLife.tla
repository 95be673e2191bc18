---------------------------- MODULE MachineLife ----------------------------
(***************************************************************************)
(* What a virtual machine promises to those who call it, whatever it keeps *)
(* to do so: the states it goes through, which calls it accepts in which,  *)
(* and what is left of a halt.  A halt writes the state, which the         *)
(* instruction in progress may overwrite, and takes the CPUs away from the *)
(* scheduler, which nothing undoes but a wake-up, a reset or a restore: the*)
(* promise that a run ends rests on `ready', not on `state'.               *)
(*                                                                         *)
(* A machine by itself is called by one thread (VirtualMachine); of the    *)
(* manager's threads several may be inside one machine (VMManager), whose  *)
(* model takes the instructions of a turn of run() in one step.            *)
(***************************************************************************)
CONSTANTS
  Threads,         \* the threads that may make execution calls
  Coarse           \* whether a batch of instructions is one step

VARIABLES
  state,           \* what getState() answers
  ready,           \* whether the scheduler would find a CPU
  place            \* of each thread: outside, in run() between two
                   \* instructions or at one, or in a stepping call

lifeVars == <<state, ready, place>>

Init == state = "CREATED" /\ ready = FALSE /\ place = [t \in Threads |-> "outside"]

Nobody == \A t \in Threads : place[t] = "outside"
Goes(t, p) == place' = [place EXCEPT ![t] = p]
Stays == UNCHANGED place

(* A machine that was never initialised or has failed accepts no execution *)
(* call and executes nothing.                                              *)
Accepts == state \notin {"CREATED", "ERROR"}

(* init() and reset(): with a debugger's rewind and a restore of what a    *)
(* caller kept, the only ways out of CREATED and of ERROR.                 *)
Revive == state' \in {"STOPPED", "ERROR"} /\ ready' = TRUE /\ Stays

Panic == Nobody /\ state' = "ERROR" /\ UNCHANGED ready /\ Stays
Rewind == Nobody /\ state' = "PAUSED" /\ ready' \in BOOLEAN /\ Stays

(* The machine becomes what it, or another, was between two calls.         *)
Restore ==
  /\ Nobody /\ state' \in {"CREATED", "STOPPED", "RUNNING", "PAUSED", "ERROR"}
  /\ ready' \in BOOLEAN /\ Stays

(* The embedder brings CPUs up and parks them, between calls.              *)
Arrange == Nobody /\ ready' \in BOOLEAN /\ UNCHANGED state /\ Stays

(* halt(), at any moment. *)
Halt == state = "RUNNING" /\ state' = "STOPPED" /\ ready' = FALSE /\ Stays

-----------------------------------------------------------------------------
(* run(). *)

EnterRun(t) ==
  /\ Accepts /\ place[t] = "outside"
  /\ state' = "RUNNING" /\ UNCHANGED ready /\ Goes(t, "run")

(* An instruction begins only in a machine that runs and has a CPU for it. *)
Dispatch(t) ==
  /\ place[t] = "run" /\ state = "RUNNING" /\ ready
  /\ UNCHANGED <<state, ready>> /\ Goes(t, "running")

(* Its end overwrites a halt's state; no CPU comes back with it.           *)
Finish(t) ==
  /\ Accepts /\ place[t] = "running"
  /\ state' = "RUNNING" /\ UNCHANGED ready /\ Goes(t, "run")

(* run() returns: the machine does not run, the budget is used up, or no   *)
(* CPU is left.  It never returns from a machine that says RUNNING.        *)
LeaveRun(t) ==
  /\ place[t] = "run"
  /\ \/ state # "RUNNING" /\ UNCHANGED state
     \/ state = "RUNNING" /\ state' = "STOPPED"
     \/ ~ready /\ state' = "STOPPED"
  /\ UNCHANGED ready /\ Goes(t, "outside")

-----------------------------------------------------------------------------
(* An instruction, in either kind of call: it may wake a CPU, pause the    *)
(* machine at a watched access, halt its CPU or fail.                      *)

Executing(t) == Accepts /\ place[t] \in {"running", "step"}

Execute(t) ==
  /\ Executing(t)
  /\ state' \in {"RUNNING", "PAUSED"} /\ (ready => ready') /\ ready' \in BOOLEAN
  /\ Stays

(* The CPU executed HALT; stepAllCPUs() goes on to the next.               *)
CPUHalts(t) ==
  /\ Executing(t)
  /\ state' = "STOPPED" /\ (ready' => ready) /\ ready' \in BOOLEAN
  /\ Goes(t, "outside") \/ (place[t] = "step" /\ Stays)

Fail(t) ==
  /\ Executing(t)
  /\ state' = "ERROR" /\ UNCHANGED ready /\ Goes(t, "outside")

Pause(t) ==
  /\ Executing(t)
  /\ state' = "PAUSED" /\ UNCHANGED ready /\ Goes(t, "outside")

EnterStep(t) ==
  /\ Accepts /\ place[t] = "outside"
  /\ state' = (IF state = "PAUSED" THEN "PAUSED" ELSE "RUNNING")
  /\ UNCHANGED ready /\ Goes(t, "step")

(* A stepping call leaves the machine running, if there was a CPU for it.  *)
LeaveStep(t) ==
  /\ Accepts /\ place[t] = "step"
  /\ state' \in {"RUNNING", "PAUSED"} \/ (~ready /\ state' = "STOPPED")
  /\ UNCHANGED ready /\ Goes(t, "outside")

-----------------------------------------------------------------------------
(* The coarse form of the same: what a ready machine has become when a     *)
(* batch of instructions is over.                                          *)
Outcome ==
  /\ Coarse /\ ready
  /\ \/ state' = "RUNNING" /\ ready' = TRUE
     \/ state' = "STOPPED" /\ ready' = FALSE
     \/ state' = "ERROR" /\ ready' = TRUE
  /\ Stays

RunBatch(t) == place[t] = "run" /\ state = "RUNNING" /\ Outcome

StepAtOnce ==
  /\ Coarse /\ Accepts
  /\ Outcome \/ (~ready /\ state' = "STOPPED" /\ UNCHANGED ready /\ Stays)

Next ==
  \/ Revive \/ Panic \/ Rewind \/ Restore \/ Arrange \/ Halt \/ StepAtOnce
  \/ \E t \in Threads :
       \/ EnterRun(t) \/ Dispatch(t) \/ Finish(t) \/ LeaveRun(t) \/ RunBatch(t)
       \/ Execute(t) \/ CPUHalts(t) \/ Fail(t) \/ Pause(t)
       \/ EnterStep(t) \/ LeaveStep(t)

Spec == Init /\ [][Next]_lifeVars
=============================================================================
