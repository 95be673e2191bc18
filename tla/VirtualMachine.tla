--------------------------- MODULE VirtualMachine ---------------------------
(***************************************************************************)
(* class VirtualMachine: the lifecycle, the run loop with its round-robin  *)
(* scheduler, the debugger (breakpoints, memory breakpoints, snapshot      *)
(* history and rewind), and the restores of what a caller kept: a debugger *)
(* snapshot, a full snapshot, a checkpoint file.                           *)
(*                                                                         *)
(* One thread calls the API; an execution call (run, step, stepCPU,        *)
(* stepAllCPUs, stepQuantum) is cut into the steps between which halt(),   *)
(* which may come from a signal handler, can run.  pc = "idle" when no     *)
(* such call is in progress.  An instruction is one step whose effect on   *)
(* the guest is chosen nondeterministically: the next bundle address,      *)
(* a watched access, a wake-up of a waiting CPU, a HALT, or a fault.       *)
(***************************************************************************)
EXTENDS Integers, Sequences, FiniteSets, BootGraph

CONSTANTS
  NumCPU,        \* CPUs of the machine
  MaxAddr,       \* bundle addresses are 0..MaxAddr
  Budgets,       \* values of run()'s maxCycles and stepQuantum()'s bundleCount
  MaxHistory,    \* maxSnapshotHistory_
  MaxCycles,     \* bound: cyclesExecuted_ saturates here
  MaxHooks,      \* bound: memory breakpoints set over a lifetime
  Debugging,     \* whether an embedder attaches a debugger
  Parkable,      \* CPUs an embedder may set WAITING through getCPUContext()
  Conditional,   \* addresses whose breakpoints carry a condition
  Snapshots,     \* snapshots callers hold, of this machine or of one like it
  Checkpoints    \* checkpoint files of a machine of one CPU

ASSUME VMAssumption ==
  /\ NumCPU \in Nat \ {0}
  /\ MaxAddr \in Nat /\ MaxHistory \in Nat \ {0}
  /\ MaxCycles \in Nat /\ MaxHooks \in Nat
  /\ Budgets \subseteq Nat \ {0}
  /\ Debugging \in BOOLEAN
  /\ Parkable \subseteq 0 .. NumCPU - 1
  /\ Conditional \subseteq 0 .. MaxAddr

CPU == 0 .. NumCPU - 1
Addr == 0 .. MaxAddr
None == -1
Unlimited == -1

VMState == {"CREATED", "STOPPED", "RUNNING", "PAUSED", "ERROR"}
CPUExecutionState == {"IDLE", "RUNNING", "HALTED", "WAITING"}
BreakReason == {"", "instruction breakpoint", "memory breakpoint", "rewind"}
Op == {"none", "run", "step", "stepCPU", "stepAllCPUs", "stepQuantum"}

\* What createSnapshot() keeps of the machine (memory contents left out).
DebuggerSnapshot ==
  [active : CPU \cup {None}, cycles : 0 .. MaxCycles,
   cpuState : [CPU -> CPUExecutionState], enabled : [CPU -> BOOLEAN],
   halted : [CPU -> BOOLEAN], ip : [CPU -> Addr]]

\* ... and what is kept with it of the machine's own state, in a snapshot and in
\* a checkpoint file.
HeldSnapshot ==
  [vmState : VMState, active : CPU \cup {None}, cycles : 0 .. MaxCycles,
   cpuState : [CPU -> CPUExecutionState], enabled : [CPU -> BOOLEAN],
   halted : [CPU -> BOOLEAN], ip : [CPU -> Addr]]

CheckpointFile ==
  [vmState : VMState, active : CPU \cup {None}, cycles : 0 .. MaxCycles,
   cpuState : [CPU -> CPUExecutionState], enabled : [CPU -> BOOLEAN],
   halted : [CPU -> BOOLEAN], ip : [CPU -> Addr],
   boot : BootState, last : CPU \cup {None}]

\* What a caller restores was taken of a machine; the restores themselves ask
\* for no more than its number of CPUs.
ASSUME HeldAssumption ==
  /\ Snapshots \subseteq HeldSnapshot /\ Checkpoints \subseteq CheckpointFile
  /\ \A s \in Snapshots \cup Checkpoints : \A c \in CPU :
       s.halted[c] => s.cpuState[c] = "HALTED"

VARIABLES
  vmState,       \* state_
  boot,          \* bootStateMachine_.currentState_
  active,        \* activeCPUIndex_
  cpuState,      \* cpus_[i].state
  enabled,       \* cpus_[i].enabled
  halted,        \* cpus_[i].cpu->halted_
  ip,            \* instruction pointer of each CPU (a bundle address)
  last,          \* SimpleCPUScheduler::lastCPUIndex_
  cycles,        \* cyclesExecuted_
  attached,      \* debuggerAttached_
  bps,           \* keys of instructionBreakpoints_
  memBps,        \* keys of memoryBreakpoints_
  nextMemId,     \* nextMemoryBreakpointId_
  hooks,         \* MMU::watchpoints_: [id, bp] with bp the VM's own id
  nextHookId,    \* MMU::nextWatchpointId_
  reason,        \* lastBreakReason_
  history,       \* snapshotHistory_
  undone,        \* ghost: a restore left KERNEL_PANIC with a machine not in ERROR
  jumped,        \* ghost: a restore went back to before an entry of the history
  pc, op, sel, left,   \* the execution call in progress
  waited,        \* ghost: other CPUs' instructions in this run since c's last
  sinceHalt      \* ghost: instructions since halt() hit this call with
                 \* no CPU waiting, or None

lifecycle == <<vmState, boot, active>>
machine == <<cpuState, enabled, halted, ip>>
clock == <<last, cycles>>
debugger == <<attached, bps, memBps, nextMemId, hooks, nextHookId>>
call == <<pc, op, sel, left>>
ghosts == <<waited, sinceHalt>>
past == <<history, undone, jumped>>
vars == <<lifecycle, machine, clock, debugger, reason, past, call, ghosts>>

NotWaiting == [c \in CPU |-> 0]

Init ==
  /\ vmState = "CREATED" /\ boot = "POWERED_OFF" /\ active = None
  /\ cpuState = [c \in CPU |-> "IDLE"] /\ enabled = [c \in CPU |-> FALSE]
  /\ halted = [c \in CPU |-> FALSE] /\ ip = [c \in CPU |-> 0]
  /\ last = None /\ cycles = 0
  /\ attached = FALSE /\ bps = {} /\ memBps = {} /\ nextMemId = 1
  /\ hooks = {} /\ nextHookId = 0 /\ reason = ""
  /\ history = <<>> /\ undone = FALSE /\ jumped = FALSE
  /\ pc = "idle" /\ op = "none" /\ sel = 0 /\ left = 0
  /\ waited = NotWaiting /\ sinceHalt = None

----------------------------------------------------------------------------
(* Lifecycle calls *)

Idle == pc = "idle"

\* init(): refused unless the boot state machine can power on.
InitVM ==
  /\ Idle /\ InGraph(boot, "POWER_ON")
  /\ vmState' = "STOPPED" /\ boot' = "FIRMWARE_INIT" /\ active' = 0
  /\ halted' = [c \in CPU |-> FALSE] /\ ip' = [c \in CPU |-> 0]
  /\ cpuState' = [cpuState EXCEPT ![0] = "RUNNING"]
  /\ enabled' = [enabled EXCEPT ![0] = TRUE]
  /\ last' = None /\ cycles' = 0
  /\ attached' = FALSE /\ bps' = {} /\ memBps' = {} /\ nextMemId' = 1
  /\ reason' = "" /\ history' = <<>> /\ undone' = FALSE /\ jumped' = FALSE
  /\ UNCHANGED <<hooks, nextHookId, call, ghosts>>

\* The MMU watchpoints left when UnregisterWatchpoint is called with the VM's
\* ids: the MMU numbers its watchpoints itself.
Unhooked(ids) == {h \in hooks : h.id \notin ids}

Reset ==
  /\ Idle
  /\ vmState' = "STOPPED" /\ boot' = "POWER_ON" /\ active' = 0
  /\ halted' = [c \in CPU |-> FALSE] /\ ip' = [c \in CPU |-> 0]
  /\ cpuState' = [c \in CPU |-> IF c = 0 THEN "RUNNING" ELSE "IDLE"]
  /\ enabled' = [enabled EXCEPT ![0] = TRUE]
  /\ last' = None /\ cycles' = 0
  /\ hooks' = Unhooked(memBps) /\ memBps' = {} /\ nextMemId' = 1
  /\ reason' = "" /\ history' = <<>> /\ undone' = FALSE /\ jumped' = FALSE
  /\ UNCHANGED <<attached, bps, nextHookId, call, ghosts>>

\* loadProgram(): FIRMWARE_INIT passes through BOOTLOADER_EXEC to KERNEL_LOAD;
\* a failed memory write then asks for BOOT_FAILED.
LoadProgram(ok) ==
  LET loaded == IF boot = "FIRMWARE_INIT" THEN "KERNEL_LOAD" ELSE boot IN
  /\ Idle
  /\ boot' = IF ok THEN loaded ELSE BootAfter(loaded, "BOOT_FAILED")
  /\ UNCHANGED <<vmState, active, machine, clock, debugger, reason, past, call, ghosts>>

SetEntryPoint(a) ==
  LET c == IF active >= 0 THEN active ELSE 0 IN
  /\ Idle
  /\ ip' = [ip EXCEPT ![c] = a]
  /\ boot' = IF boot = "KERNEL_LOAD" THEN "KERNEL_ENTRY" ELSE boot
  /\ UNCHANGED <<vmState, active, cpuState, enabled, halted, clock, debugger,
                 reason, past, call, ghosts>>

SetActiveCPU(c) ==
  /\ Idle /\ enabled[c] /\ cpuState[c] \in {"RUNNING", "IDLE"}
  /\ active' = c
  /\ UNCHANGED <<vmState, boot, machine, clock, debugger, reason, past, call, ghosts>>

TriggerKernelPanic ==
  /\ Idle
  /\ vmState' = "ERROR" /\ boot' = BootAfter(boot, "KERNEL_PANIC")
  /\ undone' = FALSE
  /\ UNCHANGED <<active, machine, clock, debugger, reason, history, jumped, call, ghosts>>

\* Moves an embedder makes on the parts the VM hands out by reference:
\* getCPUContext() to bring up or park a CPU, getBootStateMachine() to report
\* the guest's progress.
EnableCPU(c) ==
  /\ Idle /\ cpuState[c] = "IDLE" /\ ~halted[c]
  /\ enabled' = [enabled EXCEPT ![c] = TRUE]
  /\ cpuState' = [cpuState EXCEPT ![c] = "RUNNING"]
  /\ UNCHANGED <<lifecycle, halted, ip, clock, debugger, reason, past, call, ghosts>>

ParkCPU(c) ==
  /\ Idle /\ c \in Parkable /\ cpuState[c] = "RUNNING"
  /\ cpuState' = [cpuState EXCEPT ![c] = "WAITING"]
  /\ UNCHANGED <<lifecycle, enabled, halted, ip, clock, debugger, reason, past,
                 call, ghosts>>

AdvanceBoot ==
  /\ Idle
  /\ boot' \in BootSuccessors(boot) \ {"KERNEL_PANIC"}
  /\ UNCHANGED <<vmState, active, machine, clock, debugger, reason, past, call, ghosts>>

----------------------------------------------------------------------------
(* Debugger calls *)

AttachDebugger ==
  /\ Idle /\ Debugging /\ ~attached
  /\ attached' = TRUE
  /\ UNCHANGED <<lifecycle, machine, clock, bps, memBps, nextMemId, hooks,
                 nextHookId, reason, past, call, ghosts>>

DetachDebugger ==
  /\ Idle /\ attached
  /\ attached' = FALSE /\ bps' = {} /\ reason' = ""
  /\ hooks' = Unhooked(memBps) /\ memBps' = {}
  /\ UNCHANGED <<lifecycle, machine, clock, nextMemId, nextHookId, past, call, ghosts>>

SetBreakpoint(a) ==
  /\ Idle /\ attached /\ a \notin bps
  /\ bps' = bps \cup {a}
  /\ UNCHANGED <<lifecycle, machine, clock, attached, memBps, nextMemId, hooks,
                 nextHookId, reason, past, call, ghosts>>

ClearBreakpoint(a) ==
  /\ Idle /\ attached /\ a \in bps
  /\ bps' = bps \ {a}
  /\ UNCHANGED <<lifecycle, machine, clock, attached, memBps, nextMemId, hooks,
                 nextHookId, reason, past, call, ghosts>>

\* The id RegisterWatchpoint returns is discarded by setMemoryBreakpoint().
SetMemoryBreakpoint ==
  /\ Idle /\ attached /\ nextHookId < MaxHooks
  /\ memBps' = memBps \cup {nextMemId} /\ nextMemId' = nextMemId + 1
  /\ hooks' = hooks \cup {[id |-> nextHookId, bp |-> nextMemId]}
  /\ nextHookId' = nextHookId + 1
  /\ UNCHANGED <<lifecycle, machine, clock, attached, bps, reason, past, call, ghosts>>

ClearMemoryBreakpoint(b) ==
  /\ Idle /\ b \in memBps
  /\ hooks' = Unhooked({b}) /\ memBps' = memBps \ {b}
  /\ UNCHANGED <<lifecycle, machine, clock, attached, bps, nextMemId, nextHookId,
                 reason, past, call, ghosts>>

Snapshot == [active |-> active, cycles |-> cycles, cpuState |-> cpuState,
             enabled |-> enabled, halted |-> halted, ip |-> ip]

\* Mutant: the CPU's own halted flag is not put back.
RestoredButHalted(s) ==
  /\ vmState' = "PAUSED" /\ active' = s.active /\ cycles' = s.cycles
  /\ cpuState' = s.cpuState /\ enabled' = s.enabled /\ ip' = s.ip
  /\ reason' = "rewind"
  /\ UNCHANGED <<boot, last, halted>>

\* restoreSnapshot()
Restored(s) ==
  /\ vmState' = "PAUSED" /\ active' = s.active /\ cycles' = s.cycles
  /\ cpuState' = s.cpuState /\ enabled' = s.enabled
  /\ halted' = s.halted /\ ip' = s.ip
  /\ reason' = "rewind"
  /\ UNCHANGED <<boot, last>>

\* Whether the machine has left ERROR without its boot state machine leaving
\* KERNEL_PANIC, and whether s was taken before the latest entry of the history.
Undoes == boot' = "KERNEL_PANIC" /\ vmState' # "ERROR"
Precedes(s) == history # <<>> /\ s.cycles < history[Len(history)].cycles

RewindToLastSnapshot ==
  /\ Idle /\ history # <<>>
  /\ Restored(history[Len(history)])
  /\ history' = SubSeq(history, 1, Len(history) - 1)
  /\ undone' = Undoes /\ jumped' = (jumped /\ Len(history) > 1)
  /\ UNCHANGED <<debugger, call, ghosts>>

----------------------------------------------------------------------------
(* Restores of what a caller kept: whatever the machine's state, and with  *)
(* the history of snapshots left as it is.                                 *)

RestoreKept(s) ==
  /\ Idle
  /\ undone' = Undoes /\ jumped' = (jumped \/ Precedes(s))
  /\ UNCHANGED <<history, debugger, call, ghosts>>

\* restoreSnapshot() of a snapshot that createSnapshot() gave out.
RestoreSnapshot(s) == Restored(s) /\ RestoreKept(s)

\* restoreFromSnapshot() and restoreVMSnapshot(): the halted flags are in no
\* full snapshot, and what restores them has their default.
RestoreVMSnapshot(s) ==
  /\ vmState' = s.vmState /\ active' = s.active /\ cycles' = s.cycles
  /\ cpuState' = s.cpuState /\ enabled' = s.enabled
  /\ halted' = [c \in CPU |-> FALSE] /\ ip' = s.ip
  /\ UNCHANGED <<boot, last, reason>>
  /\ RestoreKept(s)

\* readDiagnosticCheckpoint(), for a machine of one CPU only.
ReadDiagnosticCheckpoint(k) ==
  /\ NumCPU = 1
  /\ vmState' = k.vmState /\ active' = k.active /\ cycles' = k.cycles
  /\ cpuState' = k.cpuState /\ enabled' = k.enabled
  /\ halted' = k.halted /\ ip' = k.ip
  /\ boot' = k.boot /\ last' = k.last
  /\ UNCHANGED reason
  /\ RestoreKept(k)

----------------------------------------------------------------------------
(* The scheduler *)

Runnable(c) == enabled[c] /\ cpuState[c] = "RUNNING"

\* findNextRunnableCPU()
FindNextRunnable(start) ==
  LET found == {c \in CPU : c >= start /\ Runnable(c)} IN
  IF found = {} THEN None ELSE CHOOSE c \in found : \A d \in found : c <= d

\* Mutants: always search from CPU 0; do not wrap around.
SelectFromZero == FindNextRunnable(0)
SelectNoWrap ==
  LET next == FindNextRunnable(last + 1) IN IF next = None THEN last + 1 ELSE next

\* selectNextCPU(): round robin from the CPU after the last one executed.
SelectNextCPU ==
  LET start == IF last = NumCPU - 1 THEN 0 ELSE last + 1
      next  == FindNextRunnable(start)
  IN  IF next = None THEN FindNextRunnable(0) ELSE next

----------------------------------------------------------------------------
(* Execution calls *)

\* Every stepping call first turns a machine that is neither running nor
\* paused into a running one.
Woken == IF vmState = "PAUSED" THEN "PAUSED" ELSE "RUNNING"

\* Mutant: an execution call is accepted in ERROR.
StartableInError == Idle /\ vmState # "CREATED"

Startable == Idle /\ vmState \notin {"CREATED", "ERROR"}

Begin(o, p, c, n) ==
  /\ op' = o /\ pc' = p /\ sel' = c /\ left' = n
  /\ UNCHANGED <<boot, active, machine, clock, debugger, reason, past, ghosts>>

StartRun(n) == Startable /\ vmState' = "RUNNING" /\ Begin("run", "loop", 0, n)
StartStep == Startable /\ vmState' = Woken /\ Begin("step", "select", 0, 0)
StartStepCPU(c) == Startable /\ vmState' = Woken /\ Begin("stepCPU", "exec", c, 0)
StartStepQuantum(c, n) ==
  Startable /\ vmState' = Woken /\ Begin("stepQuantum", "exec", c, n)
StartStepAllCPUs ==
  /\ Startable /\ vmState' = Woken
  /\ \E c \in CPU : /\ enabled[c] /\ \A d \in CPU : d < c => ~enabled[d]
                    /\ Begin("stepAllCPUs", "exec", c, 0)

EndCall ==
  /\ pc' = "idle" /\ op' = "none" /\ sel' = 0 /\ left' = 0
  /\ waited' = NotWaiting /\ sinceHalt' = None

Goto(p, c, n) == pc' = p /\ sel' = c /\ left' = n /\ UNCHANGED <<op, ghosts>>

\* Mutant: stepAllCPUs() goes on after an error.
StopsOnlyPaused(s) == s = "PAUSED"

\* stepAllCPUs() breaks off when paused; in ERROR every further stepCPU() of
\* the loop is refused.
StopsAll(s) == s \in {"PAUSED", "ERROR"}

\* What the caller of stepCPU does with its result, the machine being in
\* state s: run() loops, stepAllCPUs() goes on to the next enabled CPU,
\* stepQuantum() counts its bundles.
Returned(ok, s) ==
  \/ op = "run" /\ ok /\ Goto("loop", 0, IF left = Unlimited THEN left ELSE left - 1)
  \/ op = "run" /\ ~ok /\ EndCall
  \/ op \in {"step", "stepCPU"} /\ EndCall
  \/ /\ op = "stepAllCPUs" /\ ~StopsAll(s)
     /\ \E c \in CPU : /\ c > sel /\ enabled[c]
                       /\ \A d \in CPU : d > sel /\ d < c => ~enabled[d]
                       /\ Goto("exec", c, left)
  \/ /\ op = "stepAllCPUs"
     /\ StopsAll(s) \/ \A d \in CPU : d > sel => ~enabled[d]
     /\ EndCall
  \/ op = "stepQuantum" /\ ok /\ left > 1 /\ Goto("exec", sel, left - 1)
  \/ op = "stepQuantum" /\ ~(ok /\ left > 1) /\ EndCall

\* Mutant: the cycle limit leaves the loop without stopping the machine.
RunLoopLimitUnmarked ==
  /\ pc = "loop"
  /\ \/ (vmState # "RUNNING" \/ left = 0) /\ UNCHANGED vmState /\ EndCall
     \/ vmState = "RUNNING" /\ left # 0 /\ UNCHANGED vmState /\ Goto("select", 0, left)
  /\ UNCHANGED <<boot, active, machine, clock, debugger, reason, past>>

\* The head of run()'s loop.
RunLoop ==
  /\ pc = "loop"
  /\ \/ vmState # "RUNNING" /\ UNCHANGED vmState /\ EndCall
     \/ vmState = "RUNNING" /\ left = 0 /\ vmState' = "STOPPED" /\ EndCall
     \/ vmState = "RUNNING" /\ left # 0 /\ UNCHANGED vmState /\ Goto("select", 0, left)
  /\ UNCHANGED <<boot, active, machine, clock, debugger, reason, past>>

\* step(): ask the scheduler for a CPU.
Select ==
  /\ pc = "select"
  /\ IF SelectNextCPU = None
       THEN vmState' = "STOPPED" /\ EndCall
       ELSE vmState' = Woken /\ Goto("exec", SelectNextCPU, left)
  /\ UNCHANGED <<boot, active, machine, clock, debugger, reason, past>>

----------------------------------------------------------------------------
(* stepCPU(sel) *)

\* Mutant: a second snapshot is taken at the same point of execution.
CapturedAlways ==
  IF ~attached THEN history
  ELSE LET h == Append(history, [Snapshot EXCEPT !.active = sel])
       IN  IF Len(h) > MaxHistory THEN Tail(h) ELSE h

\* captureSnapshotIfBoundary() and trimSnapshotHistory(); active is already sel.
Captured ==
  IF ~attached \/ (history # <<>> /\ history[Len(history)].cycles = cycles)
    THEN history
    ELSE LET h == Append(history, [Snapshot EXCEPT !.active = sel])
         IN  IF Len(h) > MaxHistory THEN Tail(h) ELSE h

\* A CPU driven by an ISA plugin always reports a bundle boundary.
Bypass == vmState = "PAUSED" /\ reason = "instruction breakpoint"
AtBreakpoint == attached /\ ~Bypass /\ ip[sel] \in bps

\* A condition, on the guest's registers, may let the CPU pass.
PassesBreakpoint == AtBreakpoint => ip[sel] \in Conditional

EnterStep ==
  /\ pc = "exec"
  /\ active' = sel /\ history' = Captured
  /\ UNCHANGED <<attached, bps, memBps, nextMemId, hooks, nextHookId, jumped>>

StateBefore == IF Bypass THEN "RUNNING" ELSE Woken
ReasonAfter(hit) == IF hit THEN "memory breakpoint" ELSE IF Bypass THEN "" ELSE reason

StopAtBreakpoint ==
  /\ EnterStep /\ AtBreakpoint
  /\ vmState' = "PAUSED" /\ reason' = "instruction breakpoint"
  /\ Returned(FALSE, "PAUSED")
  /\ UNCHANGED <<boot, machine, clock, undone>>

\* The CPUs an instruction may wake: one through the processor interrupt
\* block, and the active one through the timer's interrupt.
Wakeable == {w \in SUBSET {c \in CPU : cpuState[c] = "WAITING"} :
               Cardinality(w \ {sel}) <= 1}

\* hit: the instruction touched a watched range, whose callback pauses the VM.
ExecInstruction(a, hit, woken) ==
  /\ EnterStep /\ PassesBreakpoint /\ ~halted[sel]
  /\ attached => cycles < MaxCycles
  /\ hit => hooks # {}
  /\ vmState' = IF hit THEN "PAUSED" ELSE StateBefore
  /\ reason' = ReasonAfter(hit)
  /\ ip' = [ip EXCEPT ![sel] = a]
  /\ cpuState' = [c \in CPU |-> IF c \in woken THEN "RUNNING" ELSE cpuState[c]]
  /\ last' = sel
  /\ cycles' = IF cycles < MaxCycles THEN cycles + 1 ELSE cycles
  /\ waited' = [c \in CPU |->
                 IF op # "run" \/ c = sel \/ ~Runnable(c) THEN 0
                 ELSE IF waited[c] < NumCPU THEN waited[c] + 1 ELSE waited[c]]
  /\ sinceHalt' = IF sinceHalt \in {0, 1} THEN sinceHalt + 1 ELSE sinceHalt
  /\ pc' = "post"
  /\ UNCHANGED <<boot, enabled, halted, op, sel, left, undone>>

\* The CPU halts cleanly, or had halted already.
ExecHalt ==
  /\ EnterStep /\ PassesBreakpoint
  /\ halted' = [halted EXCEPT ![sel] = TRUE]
  /\ cpuState' = [cpuState EXCEPT ![sel] = "HALTED"]
  /\ vmState' = "STOPPED" /\ reason' = ReasonAfter(FALSE)
  /\ Returned(FALSE, "STOPPED")
  /\ UNCHANGED <<boot, enabled, ip, clock, undone>>

\* The instruction fails or throws: kernel panic.
ExecFault(hit) ==
  /\ EnterStep /\ PassesBreakpoint /\ ~halted[sel]
  /\ hit => hooks # {}
  /\ vmState' = "ERROR" /\ boot' = BootAfter(boot, "KERNEL_PANIC")
  /\ reason' = ReasonAfter(hit) /\ undone' = FALSE
  /\ Returned(FALSE, "ERROR")
  /\ UNCHANGED <<machine, clock>>

\* After the timer tick: a pause requested meanwhile wins, anything else
\* (a halt() included) is overwritten with RUNNING.
FinishStep ==
  /\ pc = "post"
  /\ vmState' = Woken
  /\ Returned(vmState # "PAUSED", vmState')
  /\ UNCHANGED <<boot, active, machine, clock, debugger, reason, past>>

----------------------------------------------------------------------------
\* Mutant: halt() only writes state_ and leaves the CPUs running.
HaltStateOnly ==
  /\ vmState = "RUNNING" /\ vmState' = "STOPPED"
  /\ sinceHalt' = IF Idle \/ sinceHalt # None THEN sinceHalt ELSE 0
  /\ UNCHANGED <<boot, active, machine, clock, debugger, reason, past, call, waited>>

\* halt(), between any two steps of a call.
Halt ==
  /\ vmState = "RUNNING"
  /\ vmState' = "STOPPED"
  /\ cpuState' = [c \in CPU |-> IF cpuState[c] = "RUNNING" THEN "HALTED" ELSE cpuState[c]]
  /\ sinceHalt' = IF Idle \/ sinceHalt # None \/ \E c \in CPU : cpuState[c] = "WAITING"
                     THEN sinceHalt ELSE 0
  /\ UNCHANGED <<boot, active, enabled, halted, ip, clock, debugger, reason, past,
                 call, waited>>

LifecycleCall ==
  \/ InitVM \/ Reset \/ TriggerKernelPanic \/ AdvanceBoot
  \/ \E ok \in BOOLEAN : LoadProgram(ok)
  \/ \E a \in Addr : SetEntryPoint(a)
  \/ \E c \in CPU : SetActiveCPU(c) \/ EnableCPU(c) \/ ParkCPU(c)

DebuggerCall ==
  \/ AttachDebugger \/ DetachDebugger \/ SetMemoryBreakpoint
  \/ \E a \in Addr : SetBreakpoint(a) \/ ClearBreakpoint(a)
  \/ \E b \in memBps : ClearMemoryBreakpoint(b)
  \/ RewindToLastSnapshot

RestoreCall ==
  \/ \E s \in Snapshots : RestoreSnapshot(s) \/ RestoreVMSnapshot(s)
  \/ \E k \in Checkpoints : ReadDiagnosticCheckpoint(k)

StartCall ==
  \/ StartRun(Unlimited) \/ StartStep \/ StartStepAllCPUs
  \/ \E n \in Budgets : StartRun(n)
  \/ \E c \in CPU : StartStepCPU(c) \/ \E n \in Budgets : StartStepQuantum(c, n)

Execute ==
  \/ RunLoop \/ Select \/ StopAtBreakpoint \/ ExecHalt \/ FinishStep
  \/ \E a \in Addr, hit \in BOOLEAN, woken \in Wakeable : ExecInstruction(a, hit, woken)
  \/ \E hit \in BOOLEAN : ExecFault(hit)

Next == LifecycleCall \/ DebuggerCall \/ RestoreCall \/ StartCall \/ Execute \/ Halt

\* The calling thread finishes the call it is in; it owes nothing else.
Spec == Init /\ [][Next]_vars /\ WF_vars(Execute)

----------------------------------------------------------------------------
(* Properties *)

HookRecord == [id : 0 .. MaxHooks - 1, bp : 1 .. MaxHooks]

\* Every variable holds a value of its C++ type, within the bounds.
TypeOK ==
  /\ vmState \in VMState /\ boot \in BootState /\ active \in CPU \cup {None}
  /\ cpuState \in [CPU -> CPUExecutionState] /\ enabled \in [CPU -> BOOLEAN]
  /\ halted \in [CPU -> BOOLEAN] /\ ip \in [CPU -> Addr]
  /\ last \in CPU \cup {None} /\ cycles \in 0 .. MaxCycles
  /\ attached \in BOOLEAN /\ bps \in SUBSET Addr
  /\ memBps \in SUBSET (1 .. MaxHooks) /\ nextMemId \in 1 .. MaxHooks + 1
  /\ hooks \in SUBSET HookRecord /\ nextHookId \in 0 .. MaxHooks
  /\ reason \in BreakReason
  /\ history \in Seq(DebuggerSnapshot) /\ Len(history) <= MaxHistory
  /\ undone \in BOOLEAN /\ jumped \in BOOLEAN
  /\ pc \in {"idle", "loop", "select", "exec", "post"} /\ op \in Op
  /\ sel \in CPU /\ left \in {Unlimited, 0} \cup Nat
  /\ waited \in [CPU -> 0 .. NumCPU] /\ sinceHalt \in {None, 0, 1, 2}

\* Round robin is fair at any CPU count, with CPUs halting and being woken
\* inside the run: between two instructions of a CPU that stays runnable, a
\* run executes at most NumCPU - 1 instructions of others
\* (SimpleCPUScheduler::selectNextCPU and onCPUExecuted).
BoundedWaiting == \A c \in CPU : waited[c] <= NumCPU - 1

\* "Executes instructions in a loop until halt() is called": although
\* stepCPU() overwrites the STOPPED that halt() wrote, a run executes at most
\* one more instruction, because halt() also took the CPUs away from the
\* scheduler.  (Not so when a CPU was WAITING: that one instruction may wake it.)
HaltStopsRun == op = "run" => sinceHalt \in {None, 0, 1}

\* ... and an unlimited run then returns.
HaltEndsRun == (op = "run" /\ sinceHalt # None) ~> (pc = "idle")

\* A machine in CREATED or ERROR is not executing: an error met by one CPU of
\* stepAllCPUs() or of a quantum ends the call, and halt() never hides it.
ErrorStopsExecution == vmState \in {"CREATED", "ERROR"} => pc = "idle"

\* A guest whose boot state machine is in KERNEL_PANIC has a machine in ERROR,
\* which nothing resumes but reset(), a rewind or the restore of a snapshot.  The
\* last two leave the boot state machine in KERNEL_PANIC, but no later panic
\* goes unseen for it: `undone' ends with the next panic.
PanicIsError == boot = "KERNEL_PANIC" /\ ~undone => vmState = "ERROR"

\* run() never hands back a machine that claims to be running, whatever
\* halt() and the overwriting of state_ in stepCPU() did meanwhile: a part of
\* ImplementsMachineLife.
RunReturnsStopped == [][op = "run" /\ pc' = "idle" => vmState' # "RUNNING"]_vars

\* A CPU that executed HALT stays out of the scheduler's reach until a reset,
\* an init, or a rewind or restore to before the HALT.
HaltedAgree == \A c \in CPU : halted[c] => cpuState[c] = "HALTED"

\* The machine as its callers see it: whether the scheduler would find a CPU, and
\* where in an execution call the one thread is.
Ready == \E c \in CPU : Runnable(c)

Place ==
  IF pc = "idle" THEN "outside" ELSE IF op # "run" THEN "step"
  ELSE IF pc \in {"loop", "select"} THEN "run" ELSE "running"

Life == INSTANCE MachineLife WITH
  Threads <- {"caller"},
  Coarse <- FALSE,
  state <- vmState,
  ready <- Ready,
  place <- [t \in {"caller"} |-> Place]

\* Whatever halt() and stepCPU() overwrite of each other's state_, no run begins
\* an instruction without a running machine and a CPU for it, none returns from
\* a running machine, and ERROR is left only by init(), reset(), a rewind or a
\* restore.
ImplementsMachineLife == Life!Spec

\* The snapshots a debugger can rewind to are in strict order of execution,
\* none later than the present: rewinding goes back in time, across breakpoints,
\* pauses, trimming, detaching, earlier rewinds and restores of what callers
\* kept, but for one: after a restore to before an entry of the history, which
\* keeps that entry, until the history has been used up.
HistoryOrdered ==
  ~jumped =>
    /\ \A i, j \in 1 .. Len(history) : i < j => history[i].cycles < history[j].cycles
    /\ \A i \in 1 .. Len(history) : history[i].cycles <= cycles

\* docs/VM_RESET_IMPLEMENTATION_SUMMARY.md: reset "Unregisters all memory
\* watchpoints from MMU", "avoiding stale MMU watchpoint references": when the
\* machine knows no memory breakpoint, the MMU holds none of its hooks.
NoStaleHooks == memBps = {} => hooks = {}
=============================================================================
