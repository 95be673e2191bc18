------------------------ MODULE VirtualMachineProofs ------------------------
(***************************************************************************)
(* Proofs about VirtualMachine, for any number of CPUs, any breakpoints    *)
(* and any history length: first the types, then the safety properties.    *)
(* Each part of the invariant is inductive on top of the parts before it:  *)
(*   TypeInv     the types, and the order of the breakpoint counters       *)
(*   CallInv     the call in progress and its ghosts agree                 *)
(*   ErrorInv    nothing executes in an error state                        *)
(*   HaltInv     after halt(), no CPU is left for the scheduler            *)
(*   WaitInv     a CPU's place in the round bounds how long it waits       *)
(*   SelectInv   a run about to find a CPU belongs to a running machine    *)
(* The debugger's two, HaltedInv and HistoryOrdered, need only the types.  *)
(* Last, the machine implements MachineLife, one lemma for each kind of    *)
(* step.                                                                   *)
(***************************************************************************)
EXTENDS VirtualMachine, IntegerSetLemmas

----------------------------------------------------------------------------
(* Types *)

\* The memory breakpoint counter restarts at init() and reset(); the MMU's
\* does not.
CountersOK == nextMemId <= nextHookId + 1

TypeInv == TypeOK /\ CountersOK

\* Sets of CPU indices have a least element, which the search loop finds.
LEMMA CPUsAreFinite == \A S \in SUBSET CPU : IsFiniteSet(S) /\ S \subseteq Int
<1> TAKE S \in SUBSET CPU
<1>1. 0 \in Int /\ NumCPU - 1 \in Int
  BY VMAssumption
<1>2. IsFiniteSet(CPU)
  BY <1>1, FS_Interval DEF CPU
<1>3. CPU \subseteq Int
  BY VMAssumption DEF CPU
<1> QED
  BY <1>2, <1>3, FS_Subset

\* findNextRunnableCPU() returns the first runnable CPU from start on, if any.
LEMMA FirstRunnable ==
  ASSUME NEW start \in Int
  PROVE  \/ /\ FindNextRunnable(start) = None
            /\ \A c \in CPU : c >= start => ~Runnable(c)
         \/ /\ FindNextRunnable(start) \in CPU
            /\ FindNextRunnable(start) >= start
            /\ Runnable(FindNextRunnable(start))
            /\ \A c \in CPU : c >= start /\ Runnable(c) => FindNextRunnable(start) <= c
<1> DEFINE found == {c \in CPU : c >= start /\ Runnable(c)}
<1>1. CASE found = {}
  <2>1. FindNextRunnable(start) = None
    BY <1>1, Zenon DEF FindNextRunnable
  <2> QED
    BY <1>1, <2>1
<1>2. CASE found # {}
  <2>1. IsFiniteSet(found) /\ found \subseteq Int
    BY CPUsAreFinite
  <2>2. \E c \in found : \A d \in found : c <= d
    <3> HIDE DEF found
    <3> QED
      BY <1>2, <2>1, LeastElement
  <2>3. FindNextRunnable(start) = CHOOSE c \in found : \A d \in found : c <= d
    BY <1>2, Zenon DEF FindNextRunnable
  <2>4. /\ FindNextRunnable(start) \in found
        /\ \A d \in found : FindNextRunnable(start) <= d
    <3> HIDE DEF found
    <3> QED
      BY <2>2, <2>3
  <2> QED
    BY <2>4
<1> QED
  BY <1>1, <1>2

\* selectNextCPU() answers with a CPU index or -1.
LEMMA SelectionType == TypeOK => SelectNextCPU \in CPU \cup {None}
<1> SUFFICES ASSUME TypeOK
             PROVE  SelectNextCPU \in CPU \cup {None}
  OBVIOUS
<1>1. last \in Int
  BY VMAssumption DEF TypeOK, CPU, None
<1> QED
  BY <1>1, FirstRunnable, VMAssumption DEF SelectNextCPU

\* A snapshot of a well-typed machine is well typed, and the history stays
\* within its limit.
LEMMA HistoryType ==
  ASSUME TypeOK
  PROVE  Captured \in Seq(DebuggerSnapshot) /\ Len(Captured) <= MaxHistory
<1> DEFINE s == [Snapshot EXCEPT !.active = sel]
           h == Append(history, s)
<1>1. s \in DebuggerSnapshot
  BY DEF Snapshot, DebuggerSnapshot, TypeOK
<1>2. /\ history \in Seq(DebuggerSnapshot) /\ Len(history) <= MaxHistory
      /\ MaxHistory \in Nat \ {0}
  BY VMAssumption DEF TypeOK
<1> HIDE DEF s
<1>3. h \in Seq(DebuggerSnapshot) /\ Len(h) = Len(history) + 1
  BY <1>1, <1>2
<1>4. Tail(h) \in Seq(DebuggerSnapshot) /\ Len(Tail(h)) = Len(history)
  BY <1>2, <1>3
<1>5. Captured = history \/ Captured = IF Len(h) > MaxHistory THEN Tail(h) ELSE h
  BY Zenon DEF Captured, s
<1> QED
  BY <1>2, <1>3, <1>4, <1>5

\* The transition graph is closed: it leads only to boot states.
LEMMA BootTypes ==
  /\ \A s \in BootState : BootSuccessors(s) \subseteq BootState
  /\ \A s, t \in BootState : BootAfter(s, t) \in BootState
<1>1. \A s \in BootState : BootSuccessors(s) \subseteq BootState
  BY DEF BootState, BootSuccessors, ShutdownBootState, ErrorBootState
<1> QED
  BY <1>1 DEF BootAfter

\* The values init() and reset() start from.
LEMMA InitialValues ==
  /\ 0 \in CPU /\ 0 \in Addr /\ 0 \in 0 .. MaxCycles /\ 0 \in 0 .. NumCPU
  /\ 0 \in 0 .. MaxHooks /\ 1 \in 1 .. MaxHooks + 1 /\ MaxHooks \in Nat
<1>1. 0 \in CPU /\ 0 \in Addr
  BY VMAssumption DEF CPU, Addr
<1> QED
  BY <1>1, VMAssumption

\* An empty snapshot history is well typed.
LEMMA EmptyHistory == <<>> \in Seq(DebuggerSnapshot) /\ Len(<<>>) <= MaxHistory
  BY VMAssumption

\* The constructed machine is well typed.
LEMMA InitTypes == Init => TypeInv
<1> SUFFICES ASSUME Init
             PROVE  TypeInv
  OBVIOUS
<1>1. 0 \in CPU /\ 0 \in Addr
  BY InitialValues
<1>2. /\ vmState \in VMState /\ boot \in BootState /\ active \in CPU \cup {None}
      /\ reason \in BreakReason /\ op \in Op
  BY DEF Init, VMState, BootState, BreakReason, Op
<1>3. /\ cpuState \in [CPU -> CPUExecutionState] /\ enabled \in [CPU -> BOOLEAN]
      /\ halted \in [CPU -> BOOLEAN] /\ ip \in [CPU -> Addr]
      /\ waited \in [CPU -> 0 .. NumCPU]
  BY InitialValues DEF Init, CPUExecutionState, NotWaiting
<1>4. /\ cycles \in 0 .. MaxCycles /\ nextMemId \in 1 .. MaxHooks + 1
      /\ nextHookId \in 0 .. MaxHooks /\ nextMemId <= nextHookId + 1
  <2>1. cycles = 0 /\ nextMemId = 1 /\ nextHookId = 0
    BY DEF Init
  <2> QED
    BY <2>1, InitialValues
<1>5. history \in Seq(DebuggerSnapshot) /\ Len(history) <= MaxHistory
  BY EmptyHistory, Zenon DEF Init
<1> QED
  BY <1>1, <1>2, <1>3, <1>4, <1>5 DEF Init, TypeInv, TypeOK, CountersOK

\* The calls that do not execute the guest.
LEMMA LifecycleTypes == TypeInv /\ LifecycleCall => TypeInv'
<1> SUFFICES ASSUME TypeInv, LifecycleCall
             PROVE  TypeInv'
  OBVIOUS
<1> USE DEF TypeInv, TypeOK, CountersOK
<1>0. 0 \in CPU /\ 0 \in Addr
  BY InitialValues
<1>1. CASE InitVM
  <2>1. boot' \in BootState
    BY <1>1 DEF InitVM, BootState
  <2>2. /\ cpuState' \in [CPU -> CPUExecutionState] /\ enabled' \in [CPU -> BOOLEAN]
        /\ halted' \in [CPU -> BOOLEAN] /\ ip' \in [CPU -> Addr]
    BY <1>0, <1>1 DEF InitVM, CPUExecutionState
  <2>3. /\ cycles' \in 0 .. MaxCycles /\ nextMemId' \in 1 .. MaxHooks + 1
        /\ nextHookId' \in 0 .. MaxHooks /\ nextMemId' <= nextHookId' + 1
    <3>1. cycles' = 0 /\ nextMemId' = 1 /\ nextHookId' = nextHookId
      BY <1>1 DEF InitVM
    <3>2. nextHookId \in 0 .. MaxHooks
      OBVIOUS
    <3> QED
      BY <3>1, <3>2, InitialValues
  <2>4. history' \in Seq(DebuggerSnapshot) /\ Len(history') <= MaxHistory
    BY <1>1, EmptyHistory, Zenon DEF InitVM
  <2> QED
    BY <1>0, <1>1, <2>1, <2>2, <2>3, <2>4
       DEF InitVM, VMState, BreakReason, call, past, ghosts, Unhooked
<1>2. CASE Reset
  <2>1. boot' \in BootState
    BY <1>2 DEF Reset, BootState
  <2>2. /\ cpuState' \in [CPU -> CPUExecutionState] /\ enabled' \in [CPU -> BOOLEAN]
        /\ halted' \in [CPU -> BOOLEAN] /\ ip' \in [CPU -> Addr]
    BY <1>0, <1>2 DEF Reset, CPUExecutionState
  <2>3. /\ cycles' \in 0 .. MaxCycles /\ nextMemId' \in 1 .. MaxHooks + 1
        /\ nextHookId' \in 0 .. MaxHooks /\ nextMemId' <= nextHookId' + 1
    <3>1. cycles' = 0 /\ nextMemId' = 1 /\ nextHookId' = nextHookId
      BY <1>2 DEF Reset
    <3>2. nextHookId \in 0 .. MaxHooks
      OBVIOUS
    <3> QED
      BY <3>1, <3>2, InitialValues
  <2>4. history' \in Seq(DebuggerSnapshot) /\ Len(history') <= MaxHistory
    BY <1>2, EmptyHistory, Zenon DEF Reset
  <2> QED
    BY <1>0, <1>2, <2>1, <2>2, <2>3, <2>4
       DEF Reset, VMState, BreakReason, call, past, ghosts, Unhooked
<1>3. CASE TriggerKernelPanic
  <2>1. boot' \in BootState
    BY <1>3, BootTypes DEF TriggerKernelPanic, BootState, ErrorBootState
  <2>2. vmState' \in VMState
    BY <1>3 DEF TriggerKernelPanic, VMState
  <2> QED
    BY <1>3, <2>1, <2>2 DEF TriggerKernelPanic, machine, clock, debugger, call, ghosts
<1>4. CASE AdvanceBoot
  BY <1>4, BootTypes DEF AdvanceBoot, machine, clock, debugger, call, past, ghosts
<1>5. ASSUME NEW ok \in BOOLEAN, LoadProgram(ok)
      PROVE  TypeInv'
  <2>1. boot' \in BootState
    <3>1. (IF boot = "FIRMWARE_INIT" THEN "KERNEL_LOAD" ELSE boot) \in BootState
      BY DEF BootState
    <3>2. "BOOT_FAILED" \in BootState
      BY DEF BootState, ErrorBootState
    <3> QED
      BY <1>5, <3>1, <3>2, BootTypes DEF LoadProgram
  <2> QED
    BY <1>5, <2>1 DEF LoadProgram, machine, clock, debugger, call, past, ghosts
<1>6. ASSUME NEW a \in Addr, SetEntryPoint(a)
      PROVE  TypeInv'
  <2>1. boot' \in BootState
    BY <1>6 DEF SetEntryPoint, BootState
  <2>2. ip' \in [CPU -> Addr]
    BY <1>6 DEF SetEntryPoint
  <2> QED
    BY <1>6, <2>1, <2>2 DEF SetEntryPoint, clock, debugger, call, past, ghosts
<1>7. ASSUME NEW c \in CPU, SetActiveCPU(c)
      PROVE  TypeInv'
  BY <1>7 DEF SetActiveCPU, machine, clock, debugger, call, past, ghosts
<1>8. ASSUME NEW c \in CPU, EnableCPU(c)
      PROVE  TypeInv'
  BY <1>8 DEF EnableCPU, lifecycle, clock, debugger, call, past, ghosts, CPUExecutionState
<1>9. ASSUME NEW c \in CPU, ParkCPU(c)
      PROVE  TypeInv'
  BY <1>9 DEF ParkCPU, lifecycle, clock, debugger, call, past, ghosts, CPUExecutionState
<1> QED
  BY <1>1, <1>2, <1>3, <1>4, <1>5, <1>6, <1>7, <1>8, <1>9 DEF LifecycleCall

\* The debugger's calls keep the types.
LEMMA DebuggerTypes == TypeInv /\ DebuggerCall => TypeInv'
<1> SUFFICES ASSUME TypeInv, DebuggerCall
             PROVE  TypeInv'
  OBVIOUS
<1> USE DEF TypeInv, TypeOK, CountersOK
<1>1. CASE AttachDebugger
  BY <1>1 DEF AttachDebugger, lifecycle, machine, clock, call, past, ghosts
<1>2. CASE DetachDebugger
  <2>1. reason' \in BreakReason /\ hooks' \subseteq hooks
    BY <1>2 DEF DetachDebugger, BreakReason, Unhooked
  <2> QED
    BY <1>2, <2>1 DEF DetachDebugger, lifecycle, machine, clock, call, past, ghosts
<1>3. CASE SetMemoryBreakpoint
  <2>1. /\ nextMemId \in 1 .. MaxHooks /\ nextHookId \in 0 .. MaxHooks - 1
        /\ MaxHooks \in Nat
    BY <1>3, VMAssumption DEF SetMemoryBreakpoint
  <2>2. [id |-> nextHookId, bp |-> nextMemId] \in HookRecord
    BY <2>1 DEF HookRecord
  <2>3. /\ hooks' \in SUBSET HookRecord /\ memBps' \in SUBSET (1 .. MaxHooks)
        /\ nextMemId' \in 1 .. MaxHooks + 1 /\ nextHookId' \in 0 .. MaxHooks
        /\ nextMemId' <= nextHookId' + 1
    BY <1>3, <2>1, <2>2 DEF SetMemoryBreakpoint
  <2> QED
    BY <1>3, <2>3 DEF SetMemoryBreakpoint, lifecycle, machine, clock, call, past, ghosts
<1>4. ASSUME NEW a \in Addr, SetBreakpoint(a)
      PROVE  TypeInv'
  BY <1>4 DEF SetBreakpoint, lifecycle, machine, clock, call, past, ghosts
<1>5. ASSUME NEW a \in Addr, ClearBreakpoint(a)
      PROVE  TypeInv'
  BY <1>5 DEF ClearBreakpoint, lifecycle, machine, clock, call, past, ghosts
<1>6. ASSUME NEW b \in memBps, ClearMemoryBreakpoint(b)
      PROVE  TypeInv'
  BY <1>6 DEF ClearMemoryBreakpoint, lifecycle, machine, clock, call, past, ghosts, Unhooked
<1>7. CASE RewindToLastSnapshot
  <2>1. /\ history[Len(history)] \in DebuggerSnapshot
        /\ history' \in Seq(DebuggerSnapshot) /\ Len(history') <= MaxHistory
    BY <1>7, VMAssumption DEF RewindToLastSnapshot
  <2>2. /\ active' \in CPU \cup {None} /\ cycles' \in 0 .. MaxCycles
        /\ cpuState' \in [CPU -> CPUExecutionState] /\ enabled' \in [CPU -> BOOLEAN]
        /\ halted' \in [CPU -> BOOLEAN] /\ ip' \in [CPU -> Addr]
    <3> DEFINE s == history[Len(history)]
    <3>1. /\ active' = s.active /\ cycles' = s.cycles /\ cpuState' = s.cpuState
          /\ enabled' = s.enabled /\ halted' = s.halted /\ ip' = s.ip
      BY <1>7 DEF RewindToLastSnapshot, Restored
    <3>2. s \in DebuggerSnapshot
      BY <2>1
    <3> HIDE DEF s, TypeInv, TypeOK
    <3> QED
      BY <3>1, <3>2 DEF DebuggerSnapshot
  <2>3. vmState' \in VMState /\ reason' \in BreakReason
    BY <1>7 DEF RewindToLastSnapshot, Restored, VMState, BreakReason
  <2>4. /\ UNCHANGED <<boot, last, debugger, call, ghosts>>
        /\ undone' \in BOOLEAN /\ jumped' \in BOOLEAN
    BY <1>7 DEF RewindToLastSnapshot, Restored, Undoes
  <2> QED
    BY <2>1, <2>2, <2>3, <2>4 DEF debugger, call, ghosts
<1> QED
  BY <1>1, <1>2, <1>3, <1>4, <1>5, <1>6, <1>7 DEF DebuggerCall

\* Restoring what callers kept keeps the types: it was a machine's.
LEMMA RestoreTypes == TypeInv /\ RestoreCall => TypeInv'
<1> SUFFICES ASSUME TypeInv, RestoreCall
             PROVE  TypeInv'
  OBVIOUS
<1>1. ASSUME NEW s, RestoreKept(s), vmState' \in VMState, boot' \in BootState,
             active' \in CPU \cup {None}, cycles' \in 0 .. MaxCycles,
             cpuState' \in [CPU -> CPUExecutionState], enabled' \in [CPU -> BOOLEAN],
             halted' \in [CPU -> BOOLEAN], ip' \in [CPU -> Addr],
             last' \in CPU \cup {None}, reason' \in BreakReason
      PROVE  TypeInv'
  BY <1>1 DEF TypeInv, TypeOK, CountersOK, RestoreKept, Undoes, Precedes, debugger, call, ghosts
<1>2. /\ boot \in BootState /\ last \in CPU \cup {None} /\ reason \in BreakReason
      /\ "PAUSED" \in VMState /\ "rewind" \in BreakReason
  BY DEF TypeInv, TypeOK, VMState, BreakReason
<1>3. ASSUME NEW s \in Snapshots, RestoreSnapshot(s) \/ RestoreVMSnapshot(s)
      PROVE  TypeInv'
  <2>1. s \in HeldSnapshot
    BY HeldAssumption
  <2>2. /\ s.vmState \in VMState /\ s.active \in CPU \cup {None} /\ s.cycles \in 0 .. MaxCycles
        /\ s.cpuState \in [CPU -> CPUExecutionState] /\ s.enabled \in [CPU -> BOOLEAN]
        /\ s.halted \in [CPU -> BOOLEAN] /\ s.ip \in [CPU -> Addr]
    BY <2>1 DEF HeldSnapshot
  <2>3. CASE RestoreSnapshot(s)
    BY <1>1, <1>2, <2>2, <2>3 DEF RestoreSnapshot, Restored
  <2>4. CASE RestoreVMSnapshot(s)
    BY <1>1, <1>2, <2>2, <2>4 DEF RestoreVMSnapshot
  <2> QED
    BY <1>3, <2>3, <2>4
<1>4. ASSUME NEW k \in Checkpoints, ReadDiagnosticCheckpoint(k)
      PROVE  TypeInv'
  <2>1. k \in CheckpointFile
    BY HeldAssumption
  <2>2. /\ k.vmState \in VMState /\ k.active \in CPU \cup {None} /\ k.cycles \in 0 .. MaxCycles
        /\ k.cpuState \in [CPU -> CPUExecutionState] /\ k.enabled \in [CPU -> BOOLEAN]
        /\ k.halted \in [CPU -> BOOLEAN] /\ k.ip \in [CPU -> Addr]
        /\ k.boot \in BootState /\ k.last \in CPU \cup {None}
    BY <2>1 DEF CheckpointFile
  <2> QED
    BY <1>1, <1>2, <1>4, <2>2 DEF ReadDiagnosticCheckpoint
<1> QED
  BY <1>3, <1>4 DEF RestoreCall

\* The part of TypeOK an execution call works with.
CallOK ==
  /\ pc \in {"idle", "loop", "select", "exec", "post"} /\ op \in Op
  /\ sel \in CPU /\ left \in {Unlimited, 0} \cup Nat
  /\ waited \in [CPU -> 0 .. NumCPU] /\ sinceHalt \in {None, 0, 1, 2}

\* Leaving an execution call keeps its types.
LEMMA EndCallTypes == EndCall => CallOK'
  BY InitialValues DEF EndCall, CallOK, Op, NotWaiting

\* Going on to another step of an execution call keeps its types.
LEMMA GotoTypes ==
  ASSUME CallOK, NEW p \in {"loop", "select", "exec"}, NEW c \in CPU,
         NEW n \in {Unlimited, 0} \cup Nat, Goto(p, c, n)
  PROVE  CallOK'
  BY DEF Goto, CallOK, ghosts

\* What the caller of stepCPU() does with its result keeps the types.
LEMMA ReturnedTypes ==
  ASSUME CallOK, NEW ok \in BOOLEAN, NEW s, Returned(ok, s)
  PROVE  CallOK'
<1>0. 0 \in CPU /\ sel \in CPU /\ left \in {Unlimited, 0} \cup Nat
  BY InitialValues DEF CallOK
<1>1. (IF left = Unlimited THEN left ELSE left - 1) \in {Unlimited, 0} \cup Nat
  BY <1>0 DEF Unlimited
<1>2. left > 1 => left - 1 \in {Unlimited, 0} \cup Nat
  BY <1>0 DEF Unlimited
<1>3. CASE EndCall
  BY <1>3, EndCallTypes
<1>4. CASE Goto("loop", 0, IF left = Unlimited THEN left ELSE left - 1)
  BY <1>0, <1>1, <1>4, GotoTypes
<1>5. CASE \E c \in CPU : Goto("exec", c, left)
  BY <1>0, <1>5, GotoTypes
<1>6. CASE left > 1 /\ Goto("exec", sel, left - 1)
  BY <1>0, <1>2, <1>6, GotoTypes
<1> QED
  BY <1>3, <1>4, <1>5, <1>6 DEF Returned

\* Entering an execution call keeps the types.
LEMMA StartTypes == TypeInv /\ StartCall => TypeInv'
<1> SUFFICES ASSUME TypeInv, StartCall
             PROVE  TypeInv'
  OBVIOUS
<1>1. ASSUME NEW o \in Op, NEW p \in {"loop", "select", "exec"}, NEW c \in CPU,
             NEW n \in {Unlimited, 0} \cup Nat, Begin(o, p, c, n), vmState' \in VMState
      PROVE  TypeInv'
  BY <1>1 DEF TypeInv, TypeOK, CountersOK, Begin, machine, clock, debugger, past, ghosts
<1>2. "RUNNING" \in VMState /\ Woken \in VMState
  BY DEF VMState, Woken
<1>3. 0 \in CPU /\ Unlimited \in {Unlimited, 0} \cup Nat /\ Budgets \subseteq Nat
  BY InitialValues, VMAssumption
<1>4. {"run", "step", "stepCPU", "stepAllCPUs", "stepQuantum"} \subseteq Op
  BY DEF Op
<1>5. CASE StartRun(Unlimited) \/ \E n \in Budgets : StartRun(n)
  BY <1>1, <1>2, <1>3, <1>4, <1>5 DEF StartRun
<1>6. CASE StartStep
  BY <1>1, <1>2, <1>3, <1>4, <1>6 DEF StartStep
<1>7. CASE StartStepAllCPUs
  BY <1>1, <1>2, <1>3, <1>4, <1>7 DEF StartStepAllCPUs
<1>8. CASE \E c \in CPU : StartStepCPU(c) \/ \E n \in Budgets : StartStepQuantum(c, n)
  BY <1>1, <1>2, <1>3, <1>4, <1>8 DEF StartStepCPU, StartStepQuantum
<1> QED
  BY <1>5, <1>6, <1>7, <1>8 DEF StartCall

\* The steps of an execution call, and halt(), keep the types.
LEMMA ExecuteTypes == TypeInv /\ (Execute \/ Halt) => TypeInv'
<1> SUFFICES ASSUME TypeInv, Execute \/ Halt
             PROVE  TypeInv'
  OBVIOUS
<1> USE DEF TypeInv, CountersOK
<1>0. /\ CallOK /\ StateBefore \in VMState /\ Woken \in VMState
      /\ \A hit \in BOOLEAN : ReasonAfter(hit) \in BreakReason
      /\ Captured \in Seq(DebuggerSnapshot) /\ Len(Captured) <= MaxHistory
      /\ 0 \in CPU /\ TRUE \in BOOLEAN /\ FALSE \in BOOLEAN
  BY HistoryType, InitialValues
     DEF TypeOK, CallOK, StateBefore, Woken, VMState, ReasonAfter, BreakReason
<1>1. CASE RunLoop
  <2>1. CallOK'
    BY <1>0, <1>1, EndCallTypes, GotoTypes DEF RunLoop, CallOK
  <2> QED
    BY <1>1, <2>1 DEF RunLoop, TypeOK, CallOK, VMState, machine, clock, debugger, past
<1>2. CASE Select
  <2>1. CallOK'
    BY <1>0, <1>2, EndCallTypes, GotoTypes, SelectionType DEF Select, CallOK
  <2>2. vmState' \in VMState
    BY <1>0, <1>2 DEF Select, VMState
  <2> QED
    BY <1>2, <2>1, <2>2 DEF Select, TypeOK, CallOK, machine, clock, debugger, past
<1>3. CASE StopAtBreakpoint
  <2>1. CallOK'
    BY <1>0, <1>3, ReturnedTypes DEF StopAtBreakpoint
  <2> QED
    BY <1>0, <1>3, <2>1
       DEF StopAtBreakpoint, EnterStep, TypeOK, CallOK, VMState, BreakReason, machine, clock
<1>4. ASSUME NEW a \in Addr, NEW hit \in BOOLEAN, NEW woken \in Wakeable,
             ExecInstruction(a, hit, woken)
      PROVE  TypeInv'
  <2>1. vmState' \in VMState /\ reason' \in BreakReason
    BY <1>0, <1>4 DEF ExecInstruction, VMState
  <2>2. /\ ip' \in [CPU -> Addr] /\ cpuState' \in [CPU -> CPUExecutionState]
        /\ last' \in CPU
    BY <1>4 DEF ExecInstruction, TypeOK, CPUExecutionState
  <2>3. cycles' \in 0 .. MaxCycles
    <3>1. cycles \in 0 .. MaxCycles
      BY DEF TypeOK
    <3>2. cycles' = IF cycles < MaxCycles THEN cycles + 1 ELSE cycles
      BY <1>4 DEF ExecInstruction
    <3> QED
      BY <3>1, <3>2, VMAssumption
  <2>4. waited' \in [CPU -> 0 .. NumCPU]
    <3>1. waited \in [CPU -> 0 .. NumCPU] /\ NumCPU \in Nat
      BY VMAssumption DEF TypeOK
    <3>2. waited' = [c \in CPU |->
                      IF op # "run" \/ c = sel \/ ~Runnable(c) THEN 0
                      ELSE IF waited[c] < NumCPU THEN waited[c] + 1 ELSE waited[c]]
      BY <1>4 DEF ExecInstruction
    <3> QED
      BY <3>1, <3>2
  <2>5. sinceHalt' \in {None, 0, 1, 2}
    BY <1>4 DEF ExecInstruction, TypeOK, None
  <2> QED
    BY <1>0, <1>4, <2>1, <2>2, <2>3, <2>4, <2>5 DEF ExecInstruction, EnterStep, TypeOK
<1>5. CASE ExecHalt
  <2>1. CallOK'
    BY <1>0, <1>5, ReturnedTypes DEF ExecHalt
  <2> QED
    BY <1>0, <1>5, <2>1
       DEF ExecHalt, EnterStep, TypeOK, CallOK, VMState, CPUExecutionState, clock
<1>6. ASSUME NEW hit \in BOOLEAN, ExecFault(hit)
      PROVE  TypeInv'
  <2>1. CallOK'
    BY <1>0, <1>6, ReturnedTypes DEF ExecFault
  <2>2. boot' \in BootState
    BY <1>6, BootTypes DEF ExecFault, TypeOK, BootState, ErrorBootState
  <2> QED
    BY <1>0, <1>6, <2>1, <2>2 DEF ExecFault, EnterStep, TypeOK, CallOK, VMState, machine, clock
<1>7. CASE FinishStep
  <2>1. CallOK'
    BY <1>0, <1>7, ReturnedTypes DEF FinishStep
  <2> QED
    BY <1>0, <1>7, <2>1 DEF FinishStep, TypeOK, CallOK, machine, clock, debugger, past
<1>8. CASE Halt
  BY <1>8 DEF Halt, TypeOK, VMState, CPUExecutionState, clock, debugger, past, call, None
<1> QED
  BY <1>1, <1>2, <1>3, <1>4, <1>5, <1>6, <1>7, <1>8 DEF Execute

\* Every step keeps the types.
LEMMA TypesPreserved == TypeInv /\ [Next]_vars => TypeInv'
<1>1. TypeInv /\ UNCHANGED vars => TypeInv'
  BY DEF TypeInv, TypeOK, CountersOK, vars, lifecycle, machine, clock, debugger, call, past, ghosts
<1> QED
  BY <1>1, LifecycleTypes, DebuggerTypes, RestoreTypes, StartTypes, ExecuteTypes DEF Next

\* The types are invariant.
LEMMA Types == Spec => []TypeInv
  BY InitTypes, TypesPreserved, PTL DEF Spec

\* Every variable keeps a value of its C++ type, within its bound.
THEOREM TypeCorrect == Spec => []TypeOK
  BY Types, PTL DEF TypeInv

----------------------------------------------------------------------------
(* The call in progress *)

\* Steps that leave the execution call alone, and what the steps of a call do
\* to it.
LEMMA QuietSteps ==
  LifecycleCall \/ DebuggerCall \/ RestoreCall => Idle /\ UNCHANGED <<call, ghosts>>
<1>1. LifecycleCall => Idle /\ UNCHANGED <<call, ghosts>>
  BY DEF LifecycleCall, InitVM, Reset, TriggerKernelPanic, AdvanceBoot, LoadProgram,
         SetEntryPoint, SetActiveCPU, EnableCPU, ParkCPU
<1>2. DebuggerCall => Idle /\ UNCHANGED <<call, ghosts>>
  BY DEF DebuggerCall, AttachDebugger, DetachDebugger, SetMemoryBreakpoint, SetBreakpoint,
         ClearBreakpoint, ClearMemoryBreakpoint, RewindToLastSnapshot
<1>3. RestoreCall => Idle /\ UNCHANGED <<call, ghosts>>
  BY DEF RestoreCall, RestoreSnapshot, RestoreVMSnapshot, ReadDiagnosticCheckpoint, RestoreKept
<1> QED
  BY <1>1, <1>2, <1>3

\* Entering an execution call: only from a machine that may execute.
LEMMA StartSteps ==
  StartCall =>
    /\ Idle /\ vmState \notin {"CREATED", "ERROR"} /\ vmState' \in {"RUNNING", "PAUSED"}
    /\ pc' # "idle" /\ op' \in Op \ {"none"} /\ (op' = "run" => pc' = "loop")
    /\ UNCHANGED <<boot, active, machine, clock, debugger, reason, past, ghosts>>
<1>1. ASSUME NEW n, StartRun(n)
      PROVE  /\ Startable /\ vmState' \in {"RUNNING", "PAUSED"}
             /\ pc' = "loop" /\ op' = "run"
             /\ UNCHANGED <<boot, active, machine, clock, debugger, reason, past, ghosts>>
  BY <1>1 DEF StartRun, Begin
<1>2. ASSUME StartStep \/ StartStepAllCPUs
                \/ \E c \in CPU : StartStepCPU(c) \/ \E n \in Budgets : StartStepQuantum(c, n)
      PROVE  /\ Startable /\ vmState' \in {"RUNNING", "PAUSED"}
             /\ pc' # "idle" /\ op' \in {"step", "stepCPU", "stepAllCPUs", "stepQuantum"}
             /\ UNCHANGED <<boot, active, machine, clock, debugger, reason, past, ghosts>>
  BY <1>2 DEF StartStep, StartStepAllCPUs, StartStepCPU, StartStepQuantum, Begin, Woken
<1> QED
  BY <1>1, <1>2 DEF StartCall, Startable, Op

\* After stepCPU() the call either ends or goes on where it was.
LEMMA ReturnedSteps ==
  ASSUME NEW ok \in BOOLEAN, NEW s, Returned(ok, s)
  PROVE  \/ EndCall
         \/ /\ UNCHANGED <<op, ghosts>>
            /\ \/ op = "run" /\ ok /\ pc' = "loop"
               \/ op = "stepAllCPUs" /\ s # "ERROR" /\ pc' = "exec"
               \/ op = "stepQuantum" /\ ok /\ pc' = "exec"
  BY DEF Returned, Goto, StopsAll

CallInv ==
  /\ (pc = "idle") <=> (op = "none")
  /\ op = "none" => sinceHalt = None
  /\ op # "run" => waited = NotWaiting

\* The call in progress and its ghost counters agree in every state.
LEMMA CallInvariant == Spec => []CallInv
<1>1. Init => CallInv
  BY DEF Init, CallInv
<1>2. CallInv /\ [Next]_vars => CallInv'
  <2> SUFFICES ASSUME CallInv, [Next]_vars
               PROVE  CallInv'
    OBVIOUS
  <2> USE DEF CallInv
  <2>1. ASSUME EndCall
        PROVE  CallInv'
    BY <2>1 DEF EndCall
  <2>2. ASSUME NEW ok \in BOOLEAN, NEW s, Returned(ok, s)
        PROVE  CallInv'
    BY <2>1, <2>2, ReturnedSteps DEF ghosts
  <2>3. CASE LifecycleCall \/ DebuggerCall \/ RestoreCall
    BY <2>3, QuietSteps DEF call, ghosts
  <2>4. CASE StartCall
    BY <2>4, StartSteps DEF ghosts, Idle
  <2>5. CASE RunLoop \/ Select
    BY <2>1, <2>5 DEF RunLoop, Select, Goto, ghosts
  <2>6. CASE StopAtBreakpoint \/ ExecHalt \/ \E hit \in BOOLEAN : ExecFault(hit)
    BY <2>2, <2>6 DEF StopAtBreakpoint, ExecHalt, ExecFault
  <2>7. CASE \E a \in Addr, hit \in BOOLEAN, woken \in Wakeable : ExecInstruction(a, hit, woken)
    BY <2>7 DEF ExecInstruction, EnterStep, NotWaiting
  <2>8. CASE FinishStep
    BY <2>2, <2>8 DEF FinishStep
  <2>9. CASE Halt
    BY <2>9 DEF Halt, call, Idle
  <2>10. CASE UNCHANGED vars
    BY <2>10 DEF vars, call, ghosts
  <2> QED
    BY <2>3, <2>4, <2>5, <2>6, <2>7, <2>8, <2>9, <2>10 DEF Next, Execute
<1> QED
  BY <1>1, <1>2, PTL DEF Spec

----------------------------------------------------------------------------
(* Errors *)

ErrorInv == ErrorStopsExecution /\ PanicIsError

\* The calls between execution calls, restores aside, leave KERNEL_PANIC and ERROR
\* together.
LEMMA CallsKeepPanic ==
  ASSUME LifecycleCall \/ (DebuggerCall /\ ~RewindToLastSnapshot)
  PROVE  \/ boot' # "KERNEL_PANIC"
         \/ vmState' = "ERROR"
         \/ UNCHANGED <<boot, vmState, undone>>
<1>1. CASE InitVM \/ Reset \/ TriggerKernelPanic \/ AdvanceBoot
  BY <1>1 DEF InitVM, Reset, TriggerKernelPanic, AdvanceBoot
<1>2. CASE \E ok \in BOOLEAN : LoadProgram(ok)
  BY <1>2 DEF LoadProgram, BootAfter, past
<1>3. CASE \E a \in Addr : SetEntryPoint(a)
  BY <1>3 DEF SetEntryPoint, past
<1>4. CASE \E c \in CPU : SetActiveCPU(c) \/ EnableCPU(c) \/ ParkCPU(c)
  BY <1>4 DEF SetActiveCPU, EnableCPU, ParkCPU, lifecycle, past
<1>5. CASE AttachDebugger \/ DetachDebugger \/ SetMemoryBreakpoint
  BY <1>5 DEF AttachDebugger, DetachDebugger, SetMemoryBreakpoint, lifecycle, past
<1>6. CASE \E a \in Addr : SetBreakpoint(a) \/ ClearBreakpoint(a)
  BY <1>6 DEF SetBreakpoint, ClearBreakpoint, lifecycle, past
<1>7. CASE \E b \in memBps : ClearMemoryBreakpoint(b)
  BY <1>7 DEF ClearMemoryBreakpoint, lifecycle, past
<1> QED
  BY <1>1, <1>2, <1>3, <1>4, <1>5, <1>6, <1>7 DEF LifecycleCall, DebuggerCall

\* A restore or rewind says so when it leaves KERNEL_PANIC without ERROR.
LEMMA RestoresSaySo ==
  ASSUME RestoreCall \/ RewindToLastSnapshot
  PROVE  undone' = Undoes
BY DEF RestoreCall, RestoreSnapshot, RestoreVMSnapshot, ReadDiagnosticCheckpoint, RestoreKept,
       RewindToLastSnapshot

\* No step leaves a call executing on a machine in an error state, and none but a
\* restore resumes one that has panicked.
LEMMA ErrorInvariant == Spec => []ErrorInv
<1>1. Init => ErrorInv
  BY DEF Init, ErrorInv, ErrorStopsExecution, PanicIsError
<1>2. ErrorInv /\ [Next]_vars => ErrorInv'
  <2> SUFFICES ASSUME ErrorInv, [Next]_vars
               PROVE  ErrorInv'
    OBVIOUS
  <2> USE DEF ErrorInv, ErrorStopsExecution, PanicIsError
  <2>1. CASE LifecycleCall \/ (DebuggerCall /\ ~RewindToLastSnapshot)
    <3>1. Idle /\ pc' = pc
      BY <2>1, QuietSteps DEF call
    <3>2. \/ boot' # "KERNEL_PANIC"
          \/ vmState' = "ERROR"
          \/ UNCHANGED <<boot, vmState, undone>>
      BY <2>1, CallsKeepPanic
    <3> QED
      BY <3>1, <3>2 DEF Idle
  <2>2. CASE RestoreCall \/ RewindToLastSnapshot
    <3>1. Idle /\ pc' = pc
      BY <2>2, QuietSteps DEF call, DebuggerCall
    <3>2. undone' = Undoes
      BY <2>2, RestoresSaySo
    <3> QED
      BY <3>1, <3>2 DEF Idle, Undoes
  <2>3. CASE StartCall
    BY <2>3, StartSteps DEF past, Idle
  <2>4. CASE RunLoop \/ Select
    BY <2>4 DEF RunLoop, Select, Goto, EndCall, Woken, past
  <2>5. CASE StopAtBreakpoint \/ ExecHalt
    BY <2>5 DEF StopAtBreakpoint, ExecHalt, EnterStep
  <2>6. CASE \E a \in Addr, hit \in BOOLEAN, woken \in Wakeable : ExecInstruction(a, hit, woken)
    BY <2>6 DEF ExecInstruction, EnterStep, StateBefore, Woken
  <2>7. ASSUME NEW hit \in BOOLEAN, ExecFault(hit)
        PROVE  ErrorInv'
    <3>1. Returned(FALSE, "ERROR")
      BY <2>7 DEF ExecFault
    <3>2. EndCall
      BY <3>1, ReturnedSteps
    <3> QED
      BY <2>7, <3>2 DEF ExecFault, EndCall
  <2>8. CASE FinishStep
    BY <2>8 DEF FinishStep, Woken, past
  <2>9. CASE Halt
    BY <2>9 DEF Halt, past
  <2>10. CASE UNCHANGED vars
    BY <2>10 DEF vars, lifecycle, past, call
  <2> QED
    BY <2>1, <2>2, <2>3, <2>4, <2>5, <2>6, <2>7, <2>8, <2>9, <2>10 DEF Next, Execute
<1> QED
  BY <1>1, <1>2, PTL DEF Spec

\* No execution call is in progress in CREATED or ERROR, whatever failed on which
\* CPU and however halt() interleaves.
THEOREM ErrorStops == Spec => []ErrorStopsExecution
  BY ErrorInvariant, PTL DEF ErrorInv

\* A recorded kernel panic keeps the machine in ERROR, until it is reset, rewound
\* or made what it, or another machine, was before.
THEOREM PanicKeepsError == Spec => []PanicIsError
  BY ErrorInvariant, PTL DEF ErrorInv

\* run() returns a machine that does not claim to be running.
THEOREM RunReturns == Spec => RunReturnsStopped
<1>1. CallInv /\ [Next]_vars => [op = "run" /\ pc' = "idle" => vmState' # "RUNNING"]_vars
  <2> SUFFICES ASSUME CallInv, Next, op = "run", pc' = "idle"
               PROVE  vmState' # "RUNNING"
    OBVIOUS
  <2>1. pc # "idle"
    BY DEF CallInv
  <2>2. CASE LifecycleCall \/ DebuggerCall \/ RestoreCall \/ StartCall
    BY <2>1, <2>2, QuietSteps, StartSteps DEF Idle
  <2>3. CASE RunLoop \/ Select
    BY <2>3 DEF RunLoop, Select, Goto
  <2>4. CASE StopAtBreakpoint \/ ExecHalt \/ \E hit \in BOOLEAN : ExecFault(hit)
    BY <2>4 DEF StopAtBreakpoint, ExecHalt, ExecFault
  <2>5. CASE \E a \in Addr, hit \in BOOLEAN, woken \in Wakeable : ExecInstruction(a, hit, woken)
    BY <2>5 DEF ExecInstruction
  <2>6. CASE FinishStep
    BY <2>6 DEF FinishStep, Returned, Goto, Woken
  <2>7. CASE Halt
    BY <2>7 DEF Halt
  <2> QED
    BY <2>2, <2>3, <2>4, <2>5, <2>6, <2>7 DEF Next, Execute
<1> QED
  BY <1>1, CallInvariant, PTL DEF Spec, RunReturnsStopped

----------------------------------------------------------------------------
(* halt() *)

\* Once halt() has hit a run with no CPU waiting, no CPU can become runnable
\* within that run, and the instruction in flight was the last.
HaltInv ==
  op = "run" /\ sinceHalt # None =>
    /\ \A c \in CPU : cpuState[c] \notin {"RUNNING", "WAITING"}
    /\ sinceHalt \in {0, 1}
    /\ sinceHalt = 1 => pc # "exec"

\* With no CPU runnable the scheduler selects none.
LEMMA NothingRunnable ==
  ASSUME TypeOK, \A c \in CPU : ~Runnable(c)
  PROVE  SelectNextCPU = None
<1>1. last \in Int /\ 0 \in Int
  BY VMAssumption DEF TypeOK, CPU, None
<1>2. \A start \in Int : FindNextRunnable(start) = None
  BY FirstRunnable
<1> QED
  BY <1>1, <1>2 DEF SelectNextCPU

\* Once halt() has hit a run, every CPU stays out of reach.
LEMMA HaltInvariant == Spec => []HaltInv
<1>1. Init => HaltInv
  BY DEF Init, HaltInv
<1>2. TypeInv /\ CallInv /\ HaltInv /\ [Next]_vars => HaltInv'
  <2> SUFFICES ASSUME TypeInv, CallInv, HaltInv, [Next]_vars,
                      op' = "run", sinceHalt' # None
               PROVE  HaltInv'
    BY DEF HaltInv
  <2> USE DEF HaltInv, CallInv
  <2>1. ASSUME EndCall
        PROVE  HaltInv'
    BY <2>1 DEF EndCall
  <2>2. CASE LifecycleCall \/ DebuggerCall \/ RestoreCall
    BY <2>2, QuietSteps DEF call, ghosts, Idle
  <2>3. CASE StartCall
    BY <2>3, StartSteps DEF ghosts, Idle
  <2>4. CASE RunLoop
    BY <2>1, <2>4 DEF RunLoop, Goto, ghosts, machine
  <2>5. CASE Select
    <3>1. CASE op = "run" /\ sinceHalt # None
      <4>1. \A c \in CPU : ~Runnable(c)
        BY <3>1 DEF Runnable
      <4>2. EndCall
        BY <2>5, <4>1, NothingRunnable DEF Select, TypeInv
      <4> QED
        BY <2>1, <4>2
    <3>2. CASE ~(op = "run" /\ sinceHalt # None)
      BY <2>1, <2>5, <3>2 DEF Select, Goto, ghosts
    <3> QED
      BY <3>1, <3>2
  <2>6. CASE StopAtBreakpoint \/ ExecHalt \/ \E hit \in BOOLEAN : ExecFault(hit)
    <3>1. EndCall \/ op' # "run"
      BY <2>6, ReturnedSteps DEF StopAtBreakpoint, ExecHalt, ExecFault
    <3> QED
      BY <2>1, <3>1
  <2>7. ASSUME NEW a \in Addr, NEW hit \in BOOLEAN, NEW woken \in Wakeable,
               ExecInstruction(a, hit, woken)
        PROVE  HaltInv'
    <3>1. op = "run" /\ pc' = "post"
      BY <2>7 DEF ExecInstruction
    <3>2. sinceHalt = 0 /\ sinceHalt' = 1
      BY <2>7, <3>1 DEF ExecInstruction, EnterStep, None
    <3>3. \A c \in CPU : cpuState[c] \notin {"RUNNING", "WAITING"}
      BY <3>1, <3>2 DEF None
    <3>4. woken = {}
      BY <3>3 DEF Wakeable
    <3>5. \A c \in CPU : cpuState'[c] = cpuState[c]
      BY <2>7, <3>4 DEF ExecInstruction
    <3> QED
      BY <3>1, <3>2, <3>3, <3>5
  <2>8. CASE FinishStep
    <3>1. EndCall \/ (pc' # "exec" /\ UNCHANGED <<op, ghosts>>)
      BY <2>8, ReturnedSteps DEF FinishStep, EndCall
    <3> QED
      BY <2>1, <2>8, <3>1 DEF FinishStep, ghosts, machine
  <2>9. CASE Halt
    <3>1. op = "run" /\ pc' = pc /\ ~Idle
      BY <2>9 DEF Halt, call, Idle
    <3>2. CASE sinceHalt # None
      <4>1. sinceHalt' = sinceHalt
        BY <2>9, <3>2 DEF Halt
      <4>2. \A c \in CPU : cpuState'[c] \notin {"RUNNING", "WAITING"}
        BY <2>9, <3>1, <3>2 DEF Halt
      <4> QED
        BY <3>1, <3>2, <4>1, <4>2
    <3>3. CASE sinceHalt = None
      <4>1. sinceHalt' = 0 /\ \A c \in CPU : cpuState[c] # "WAITING"
        BY <2>9, <3>1, <3>3 DEF Halt
      <4>2. \A c \in CPU : cpuState'[c] \notin {"RUNNING", "WAITING"}
        BY <2>9, <4>1 DEF Halt
      <4> QED
        BY <4>1, <4>2
    <3> QED
      BY <3>2, <3>3
  <2>10. CASE UNCHANGED vars
    BY <2>10 DEF vars, machine, call, ghosts
  <2> QED
    BY <2>2, <2>3, <2>4, <2>5, <2>6, <2>7, <2>8, <2>9, <2>10 DEF Next, Execute
<1> QED
  BY <1>1, <1>2, Types, CallInvariant, PTL DEF Spec

\* A run executes at most one instruction after halt(), however many CPUs it
\* drives and wherever in the loop halt() strikes.
THEOREM HaltStops == Spec => []HaltStopsRun
<1>1. HaltInv => HaltStopsRun
  BY DEF HaltInv, HaltStopsRun
<1> QED
  BY <1>1, HaltInvariant, PTL

----------------------------------------------------------------------------
(* Round robin *)

\* How many CPUs the scheduler would look at before c, CPU l being the last one
\* executed (none yet: l = None).
Distance(l, c) == IF c > l THEN c - l - 1 ELSE c + NumCPU - l - 1

WaitInv ==
  /\ \A c \in CPU : waited[c] <= NumCPU - 1
  /\ op = "run" =>
       \A c \in CPU : Runnable(c) => waited[c] + Distance(last, c) <= NumCPU - 1
  /\ op = "run" /\ pc = "exec" =>
       \A c \in CPU : Runnable(c) /\ c # sel => Distance(last, sel) < Distance(last, c)

\* The scheduler takes the nearest runnable CPU.
LEMMA SelectsNearest ==
  ASSUME TypeOK, SelectNextCPU # None
  PROVE  /\ SelectNextCPU \in CPU
         /\ \A c \in CPU : Runnable(c) /\ c # SelectNextCPU =>
              Distance(last, SelectNextCPU) < Distance(last, c)
<1> DEFINE start == IF last = NumCPU - 1 THEN 0 ELSE last + 1
<1>1. /\ last \in -1 .. NumCPU - 1 /\ NumCPU \in Nat \ {0} /\ start \in 0 .. NumCPU - 1
      /\ last \in Int /\ start \in Int
  BY VMAssumption DEF TypeOK, CPU, None
<1>2. SelectNextCPU = IF FindNextRunnable(start) = None THEN FindNextRunnable(0)
                      ELSE FindNextRunnable(start)
  BY DEF SelectNextCPU
<1>3. start = IF last = NumCPU - 1 THEN 0 ELSE last + 1
  OBVIOUS
<1> HIDE DEF start
<1>4. CASE FindNextRunnable(start) # None
  <2>1. /\ SelectNextCPU \in CPU /\ SelectNextCPU >= start
        /\ \A c \in CPU : c >= start /\ Runnable(c) => SelectNextCPU <= c
    BY <1>1, <1>2, <1>4, FirstRunnable
  <2> QED
    BY <1>1, <1>3, <2>1 DEF Distance, CPU
<1>5. CASE FindNextRunnable(start) = None
  <2>1. /\ SelectNextCPU \in CPU
        /\ \A c \in CPU : Runnable(c) => SelectNextCPU <= c
        /\ \A c \in CPU : c >= start => ~Runnable(c)
        /\ Runnable(SelectNextCPU)
    <3>1. \A c \in CPU : c >= 0
      BY <1>1 DEF CPU
    <3>2. SelectNextCPU = FindNextRunnable(0) /\ FindNextRunnable(0) # None
      BY <1>2, <1>5
    <3>3. /\ FindNextRunnable(0) \in CPU /\ Runnable(FindNextRunnable(0))
          /\ \A c \in CPU : c >= 0 /\ Runnable(c) => FindNextRunnable(0) <= c
      BY <3>2, FirstRunnable, 0 \in Int
    <3>4. \A c \in CPU : c >= start => ~Runnable(c)
      BY <1>1, <1>5, FirstRunnable DEF None, CPU
    <3> QED
      BY <3>1, <3>2, <3>3, <3>4
  <2>2. SelectNextCPU < start
    BY <1>1, <2>1 DEF CPU
  <2> QED
    BY <1>1, <1>3, <2>1, <2>2 DEF Distance, CPU
<1> QED
  BY <1>4, <1>5

\* No CPU is further than NumCPU - 1 places away in the round.
LEMMA DistanceBound ==
  \A l \in CPU \cup {None}, c \in CPU : 0 <= NumCPU - 1 /\ 0 + Distance(l, c) <= NumCPU - 1
  BY VMAssumption DEF CPU, None, Distance

\* The instructions a CPU has waited and its place in the round add up to less than a round.
LEMMA WaitInvariant == Spec => []WaitInv
<1>1. Init => WaitInv
  <2> SUFFICES ASSUME Init
               PROVE  WaitInv
    OBVIOUS
  <2>1. waited = NotWaiting /\ op = "none"
    BY DEF Init
  <2> QED
    BY <2>1, VMAssumption DEF WaitInv, NotWaiting
<1>2. TypeInv /\ CallInv /\ WaitInv /\ [Next]_vars => WaitInv'
  <2> SUFFICES ASSUME TypeInv, CallInv, WaitInv, [Next]_vars
               PROVE  WaitInv'
    OBVIOUS
  <2>0. TypeOK /\ TypeOK'
    BY TypesPreserved DEF TypeInv
  <2>1. ASSUME waited' = NotWaiting, op' # "run" \/ pc' # "exec"
        PROVE  WaitInv'
    <3>1. \A c \in CPU : waited'[c] = 0
      BY <2>1 DEF NotWaiting
    <3>2. \A c \in CPU : 0 <= NumCPU - 1 /\ 0 + Distance(last', c) <= NumCPU - 1
      BY <2>0, DistanceBound DEF TypeOK
    <3> QED
      BY <2>1, <3>1, <3>2 DEF WaitInv
  <2>2. ASSUME EndCall
        PROVE  WaitInv'
    BY <2>1, <2>2 DEF EndCall
  <2>3. CASE LifecycleCall \/ DebuggerCall \/ RestoreCall
    <3>1. op' = "none" /\ waited' = NotWaiting
      BY <2>3, QuietSteps DEF call, ghosts, Idle, CallInv
    <3> QED
      BY <2>1, <3>1
  <2>4. CASE StartCall
    <3>1. waited' = NotWaiting /\ (op' # "run" \/ pc' # "exec")
      BY <2>4, StartSteps DEF ghosts, Idle, CallInv
    <3> QED
      BY <2>1, <3>1
  <2>5. ASSUME UNCHANGED <<op, ghosts, enabled, last>>, pc' # "exec",
               \A c \in CPU : cpuState'[c] = "RUNNING" => cpuState[c] = "RUNNING"
        PROVE  WaitInv'
    BY <2>5 DEF WaitInv, Runnable, ghosts
  <2>6. CASE RunLoop
    BY <2>2, <2>5, <2>6 DEF RunLoop, Goto, machine, clock
  <2>7. CASE Select
    <3>1. CASE SelectNextCPU = None
      BY <2>2, <2>7, <3>1 DEF Select
    <3>2. CASE SelectNextCPU # None
      <4>1. /\ UNCHANGED <<op, waited, enabled, cpuState, last>>
            /\ pc' = "exec" /\ sel' = SelectNextCPU
        BY <2>7, <3>2 DEF Select, Goto, machine, clock, ghosts
      <4>2. \A c \in CPU : Runnable(c) /\ c # SelectNextCPU =>
              Distance(last, SelectNextCPU) < Distance(last, c)
        BY <2>0, <3>2, SelectsNearest
      <4> QED
        BY <4>1, <4>2 DEF WaitInv, Runnable
    <3> QED
      BY <3>1, <3>2
  <2>8. CASE StopAtBreakpoint \/ ExecHalt \/ \E hit \in BOOLEAN : ExecFault(hit)
    <3>1. EndCall \/ (op # "run" /\ UNCHANGED <<op, ghosts>>)
      BY <2>8, ReturnedSteps DEF StopAtBreakpoint, ExecHalt, ExecFault
    <3>2. CASE op # "run" /\ UNCHANGED <<op, ghosts>>
      BY <2>1, <3>2 DEF CallInv, ghosts
    <3> QED
      BY <2>2, <3>1, <3>2
  <2>9. ASSUME NEW a \in Addr, NEW hit \in BOOLEAN, NEW woken \in Wakeable,
               ExecInstruction(a, hit, woken)
        PROVE  WaitInv'
    <3>1. /\ pc = "exec" /\ pc' = "post" /\ op' = op /\ last' = sel /\ enabled' = enabled
          /\ \A c \in CPU : waited'[c] =
               IF op # "run" \/ c = sel \/ ~Runnable(c) THEN 0
               ELSE IF waited[c] < NumCPU THEN waited[c] + 1 ELSE waited[c]
      BY <2>9 DEF ExecInstruction, EnterStep
    <3>2. CASE op # "run"
      <4>1. waited' = NotWaiting
        BY <2>9, <3>2 DEF ExecInstruction, NotWaiting
      <4> QED
        BY <2>1, <3>1, <4>1
    <3>3. CASE op = "run"
      <4>1. ASSUME NEW c \in CPU
            PROVE  waited'[c] + Distance(sel, c) <= NumCPU - 1 /\ waited'[c] <= NumCPU - 1
        <5>0. sel \in CPU /\ last \in CPU \cup {None} /\ waited[c] \in 0 .. NumCPU
          BY <2>0, Zenon DEF TypeOK
        <5>1. /\ NumCPU \in Nat \ {0} /\ c \in 0 .. NumCPU - 1 /\ sel \in 0 .. NumCPU - 1
              /\ last \in -1 .. NumCPU - 1 /\ waited[c] \in 0 .. NumCPU
          BY <4>1, <5>0, VMAssumption DEF CPU, None
        <5>2. CASE c = sel \/ ~Runnable(c)
          <6>1. waited'[c] = 0
            BY <3>1, <5>2
          <6> QED
            BY <5>1, <6>1 DEF Distance
        <5>3. CASE c # sel /\ Runnable(c)
          <6>1. /\ waited[c] + Distance(last, c) <= NumCPU - 1
                /\ Distance(last, sel) < Distance(last, c)
            BY <3>1, <3>3, <5>3 DEF WaitInv
          <6>2. waited'[c] = IF waited[c] < NumCPU THEN waited[c] + 1 ELSE waited[c]
            BY <3>1, <3>3, <5>3
          <6> QED
            BY <5>1, <5>3, <6>1, <6>2 DEF Distance
        <5> QED
          BY <5>2, <5>3
      <4> QED
        BY <3>1, <4>1 DEF WaitInv
    <3> QED
      BY <3>2, <3>3
  <2>10. CASE FinishStep
    <3>1. \/ EndCall
          \/ op # "run" /\ UNCHANGED <<op, ghosts>>
          \/ pc' = "loop" /\ UNCHANGED <<op, ghosts>>
      BY <2>10, ReturnedSteps DEF FinishStep
    <3>2. CASE op # "run" /\ UNCHANGED <<op, ghosts>>
      BY <2>1, <3>2 DEF CallInv, ghosts
    <3>3. CASE pc' = "loop" /\ UNCHANGED <<op, ghosts>>
      BY <2>5, <2>10, <3>3 DEF FinishStep, machine, clock
    <3> QED
      BY <2>2, <3>1, <3>2, <3>3
  <2>11. CASE Halt
    <3>1. /\ UNCHANGED <<op, pc, sel, waited, enabled, last>>
          /\ \A c \in CPU : cpuState'[c] = "RUNNING" => cpuState[c] = "RUNNING"
      BY <2>11 DEF Halt, call, clock
    <3> QED
      BY <3>1 DEF WaitInv, Runnable
  <2>12. CASE UNCHANGED vars
    BY <2>12 DEF vars, machine, clock, call, ghosts, WaitInv, Runnable
  <2> QED
    BY <2>3, <2>4, <2>6, <2>7, <2>8, <2>9, <2>10, <2>11, <2>12 DEF Next, Execute
<1> QED
  BY <1>1, <1>2, Types, CallInvariant, PTL DEF Spec

\* Whatever the number of CPUs, and whichever of them halt or are woken meanwhile, a
\* runnable CPU waits for at most NumCPU - 1 instructions of the others.
THEOREM RoundRobinIsFair == Spec => []BoundedWaiting
<1>1. WaitInv => BoundedWaiting
  BY DEF WaitInv, BoundedWaiting
<1> QED
  BY <1>1, WaitInvariant, PTL

----------------------------------------------------------------------------
(* The debugger *)

\* HaltedAgree of the machine and of every snapshot it may be rewound to.
HaltedInv ==
  /\ HaltedAgree
  /\ \A i \in 1 .. Len(history) : \A c \in CPU :
       history[i].halted[c] => history[i].cpuState[c] = "HALTED"

\* Where the entries of the next history come from.
LEMMA CapturedEntries ==
  ASSUME TypeOK, NEW i \in 1 .. Len(Captured)
  PROVE  \/ \E j \in 1 .. Len(history) : Captured[i] = history[j]
         \/ Captured[i] = [Snapshot EXCEPT !.active = sel]
<1> DEFINE s == [Snapshot EXCEPT !.active = sel]
           h == Append(history, s)
<1>1. history \in Seq(DebuggerSnapshot)
  BY DEF TypeOK
<1>2. Captured = history \/ Captured = h \/ Captured = Tail(h)
  <2>1. Captured = history \/ Captured = IF Len(h) > MaxHistory THEN Tail(h) ELSE h
    BY Zenon DEF Captured
  <2> HIDE DEF h
  <2> QED
    BY <2>1
<1> HIDE DEF s
<1>3. /\ Len(h) = Len(history) + 1 /\ h \in Seq(DebuggerSnapshot \cup {s})
      /\ \A k \in 1 .. Len(h) : h[k] = IF k = Len(h) THEN s ELSE history[k]
  BY <1>1
<1>4. \A k \in 1 .. Len(h) : h[k] = s \/ \E j \in 1 .. Len(history) : h[k] = history[j]
  BY <1>1, <1>3
<1>5. h # <<>> /\ Len(Tail(h)) = Len(h) - 1 /\ \A k \in 1 .. Len(Tail(h)) : Tail(h)[k] = h[k + 1]
  BY <1>1, <1>3
<1> HIDE DEF h
<1>6. Len(history) \in Nat /\ Len(h) \in Nat
  BY <1>1, <1>3
<1>7. Captured[i] = s \/ \E j \in 1 .. Len(history) : Captured[i] = history[j]
  <2>1. CASE Captured = history
    BY <2>1
  <2>2. CASE Captured = h
    BY <1>4, <2>2
  <2>3. CASE Captured = Tail(h)
    <3>1. i + 1 \in 1 .. Len(h) /\ Captured[i] = h[i + 1]
      BY <1>5, <1>6, <2>3
    <3> QED
      BY <1>4, <3>1
  <2> QED
    BY <1>2, <2>1, <2>2, <2>3
<1> QED
  BY <1>7 DEF s

\* What a restore does to them, and that it says so when it goes back to before
\* an entry of the history.
LEMMA RestoreHistory ==
  ASSUME RestoreCall
  PROVE  /\ history' = history /\ cycles' \in 0 .. MaxCycles
         /\ ~jumped' => ~jumped /\ (history = <<>> \/ ~(cycles' < history[Len(history)].cycles))
<1>1. ASSUME NEW s \in Snapshots \cup Checkpoints, RestoreKept(s), cycles' = s.cycles
      PROVE  /\ history' = history /\ cycles' \in 0 .. MaxCycles
             /\ ~jumped' => ~jumped /\ (history = <<>> \/ ~(cycles' < history[Len(history)].cycles))
  <2>1. s.cycles \in 0 .. MaxCycles
    <3>1. s \in HeldSnapshot \/ s \in CheckpointFile
      BY HeldAssumption
    <3> QED
      BY <3>1 DEF HeldSnapshot, CheckpointFile
  <2> QED
    BY <1>1, <2>1 DEF RestoreKept, Precedes
<1>2. ASSUME NEW s \in Snapshots, RestoreSnapshot(s) \/ RestoreVMSnapshot(s)
      PROVE  RestoreKept(s) /\ cycles' = s.cycles
  BY <1>2 DEF RestoreSnapshot, Restored, RestoreVMSnapshot
<1>3. ASSUME NEW k \in Checkpoints, ReadDiagnosticCheckpoint(k)
      PROVE  RestoreKept(k) /\ cycles' = k.cycles
  BY <1>3 DEF ReadDiagnosticCheckpoint
<1> QED
  BY <1>1, <1>2, <1>3 DEF RestoreCall

\* What a step does to the history and to the count of cycles.
LEMMA HistorySteps ==
  ASSUME TypeOK, [Next]_vars
  PROVE  \/ UNCHANGED <<history, cycles, jumped>>
         \/ history' = <<>> /\ cycles' = 0
         \/ RewindToLastSnapshot
         \/ history' = Captured /\ cycles' \in {cycles, cycles + 1} /\ jumped' = jumped
         \/ RestoreCall
<1>1. CASE LifecycleCall
  BY <1>1 DEF LifecycleCall, InitVM, Reset, TriggerKernelPanic, AdvanceBoot, LoadProgram,
              SetEntryPoint, SetActiveCPU, EnableCPU, ParkCPU, clock, past
<1>2. CASE DebuggerCall
  BY <1>2 DEF DebuggerCall, AttachDebugger, DetachDebugger, SetMemoryBreakpoint,
              SetBreakpoint, ClearBreakpoint, ClearMemoryBreakpoint, clock, past
<1>3. CASE StartCall
  BY <1>3, StartSteps DEF clock, past
<1>4. CASE Execute
  <2>1. CASE RunLoop \/ Select \/ FinishStep
    BY <2>1 DEF RunLoop, Select, FinishStep, clock, past
  <2>2. CASE StopAtBreakpoint \/ ExecHalt \/ \E hit \in BOOLEAN : ExecFault(hit)
    BY <2>2 DEF StopAtBreakpoint, ExecHalt, ExecFault, EnterStep, clock
  <2>3. ASSUME NEW a \in Addr, NEW hit \in BOOLEAN, NEW woken \in Wakeable,
               ExecInstruction(a, hit, woken)
        PROVE  history' = Captured /\ cycles' \in {cycles, cycles + 1} /\ jumped' = jumped
    BY <2>3 DEF ExecInstruction, EnterStep
  <2> QED
    BY <1>4, <2>1, <2>2, <2>3 DEF Execute
<1>5. CASE Halt
  BY <1>5 DEF Halt, clock, past
<1>6. CASE UNCHANGED vars
  BY <1>6 DEF vars, clock, past
<1> QED
  BY <1>1, <1>2, <1>3, <1>4, <1>5, <1>6 DEF Next

\* The cycle counts of a history are numbers; what rewinding leaves of a history.
LEMMA CyclesAreNumbers ==
  ASSUME NEW h \in Seq(DebuggerSnapshot), NEW k \in 1 .. Len(h)
  PROVE  h[k].cycles \in Int
<1>1. \A s \in DebuggerSnapshot : s.cycles \in 0 .. MaxCycles
  BY DEF DebuggerSnapshot
<1>2. h[k] \in DebuggerSnapshot
  OBVIOUS
<1> QED
  BY <1>1, <1>2

\* SubSeq from the first to the last but one entry drops just the last.
LEMMA Prefix ==
  ASSUME NEW S, NEW h \in Seq(S), NEW n \in Nat, Len(h) = n + 1
  PROVE  /\ Len(SubSeq(h, 1, n)) = n
         /\ \A k \in 1 .. n : SubSeq(h, 1, n)[k] = h[k]
  OBVIOUS

\* The same, as rewindToLastSnapshot() writes it.
LEMMA AllButLast ==
  ASSUME NEW S, NEW h \in Seq(S), h # <<>>
  PROVE  /\ Len(h) \in Nat /\ Len(h) >= 1
         /\ Len(SubSeq(h, 1, Len(h) - 1)) = Len(h) - 1
         /\ \A k \in 1 .. Len(h) - 1 : SubSeq(h, 1, Len(h) - 1)[k] = h[k]
<1> DEFINE n == Len(h) - 1
<1>1. n \in Nat /\ Len(h) = n + 1 /\ Len(h) \in Nat /\ Len(h) >= 1
  OBVIOUS
<1> HIDE DEF n
<1>2. /\ Len(SubSeq(h, 1, n)) = n
      /\ \A k \in 1 .. n : SubSeq(h, 1, n)[k] = h[k]
  BY <1>1, Prefix
<1> QED
  BY <1>1, <1>2 DEF n

\* A capture keeps the history in order: its cycle count differs from the last
\* one's, which is no later than the present.
LEMMA CapturedOrdered ==
  ASSUME TypeOK, HistoryOrdered, ~jumped
  PROVE  /\ \A i, j \in 1 .. Len(Captured) : i < j => Captured[i].cycles < Captured[j].cycles
         /\ \A i \in 1 .. Len(Captured) : Captured[i].cycles <= cycles
<1> DEFINE s == [Snapshot EXCEPT !.active = sel]
           h == Append(history, s)
           Ordered(q) == /\ \A i, j \in 1 .. Len(q) : i < j => q[i].cycles < q[j].cycles
                         /\ \A i \in 1 .. Len(q) : q[i].cycles <= cycles
<1>1. history \in Seq(DebuggerSnapshot) /\ Len(history) \in Nat /\ cycles \in Int
  BY DEF TypeOK
<1>2. s.cycles = cycles
  BY DEF Snapshot
<1>3. \/ Captured = history
      \/ /\ history = <<>> \/ history[Len(history)].cycles # cycles
         /\ Captured = IF Len(h) > MaxHistory THEN Tail(h) ELSE h
  BY Zenon DEF Captured
<1>4. Ordered(history)
  BY DEF HistoryOrdered
<1>5. \A k \in 1 .. Len(history) : history[k].cycles \in Int
  BY <1>1, CyclesAreNumbers
<1>6. ASSUME history = <<>> \/ history[Len(history)].cycles # cycles
      PROVE  \A k \in 1 .. Len(history) : history[k].cycles < cycles
  <2>1. CASE history = <<>>
    BY <2>1
  <2>2. CASE history # <<>>
    <3>1. Len(history) \in 1 .. Len(history)
      BY <1>1, <2>2
    <3>2. history[Len(history)].cycles < cycles
      BY <1>1, <1>4, <1>5, <1>6, <2>2, <3>1
    <3> QED
      BY <1>1, <1>4, <1>5, <3>1, <3>2
  <2> QED
    BY <2>1, <2>2
<1> HIDE DEF s
<1>7. /\ Len(h) = Len(history) + 1
      /\ \A k \in 1 .. Len(h) : h[k] = IF k = Len(h) THEN s ELSE history[k]
      /\ Len(Tail(h)) = Len(h) - 1 /\ \A k \in 1 .. Len(Tail(h)) : Tail(h)[k] = h[k + 1]
  BY <1>1
<1> HIDE DEF h
<1>8. ASSUME \A k \in 1 .. Len(history) : history[k].cycles < cycles
      PROVE  Ordered(h)
  <2>1. ASSUME NEW i \in 1 .. Len(history)
        PROVE  i \in 1 .. Len(h) /\ i # Len(h) /\ h[i] = history[i]
    BY <1>1, <1>7
  <2>2. Len(h) \in 1 .. Len(h) /\ h[Len(h)].cycles = cycles
    BY <1>1, <1>2, <1>7
  <2>3. \A i \in 1 .. Len(h) : i = Len(h) \/ i \in 1 .. Len(history)
    BY <1>1, <1>7
  <2>4. ASSUME NEW i \in 1 .. Len(h), NEW j \in 1 .. Len(h), i < j
        PROVE  h[i].cycles < h[j].cycles
    <3>1. i \in 1 .. Len(history)
      BY <1>1, <1>7, <2>4
    <3>2. CASE j = Len(h)
      BY <1>8, <2>1, <2>2, <3>1, <3>2
    <3>3. CASE j \in 1 .. Len(history)
      BY <1>4, <2>1, <2>4, <3>1, <3>3
    <3> QED
      BY <2>3, <3>2, <3>3
  <2>5. ASSUME NEW i \in 1 .. Len(h)
        PROVE  h[i].cycles <= cycles
    <3>1. CASE i = Len(h)
      BY <1>1, <2>2, <3>1
    <3>2. CASE i \in 1 .. Len(history)
      BY <1>4, <2>1, <3>2
    <3> QED
      BY <2>3, <3>1, <3>2
  <2> QED
    BY <2>4, <2>5
<1>9. Ordered(h) => Ordered(Tail(h))
  <2>1. \A k \in 1 .. Len(Tail(h)) : k + 1 \in 1 .. Len(h)
    BY <1>1, <1>7
  <2>2. \A k \in 1 .. Len(Tail(h)) : Tail(h)[k] = h[k + 1]
    BY <1>7
  <2>3. \A i, j \in 1 .. Len(Tail(h)) : i < j => i + 1 < j + 1
    BY <1>1, <1>7
  <2> QED
    BY <2>1, <2>2, <2>3
<1>10. Ordered(Captured)
  <2>1. CASE Captured = history
    BY <1>4, <2>1
  <2>2. CASE Captured \in {h, Tail(h)} /\ Ordered(h)
    BY <1>9, <2>2
  <2> QED
    BY <1>3, <1>6, <1>8, <2>1, <2>2
<1> QED
  BY <1>10

\* Whatever sequence of runs, steps, breakpoints and rewinds, and of restores to a
\* point the history has not passed: rewinding goes back in time, never forward.
THEOREM RewindGoesBack == Spec => []HistoryOrdered
<1>1. Init => HistoryOrdered
  <2> SUFFICES ASSUME Init
               PROVE  HistoryOrdered
    OBVIOUS
  <2>1. history = <<>>
    BY Zenon DEF Init
  <2> QED
    BY <2>1 DEF HistoryOrdered
<1>2. TypeInv /\ HistoryOrdered /\ [Next]_vars => HistoryOrdered'
  <2> SUFFICES ASSUME TypeInv, HistoryOrdered, [Next]_vars, ~jumped'
               PROVE  HistoryOrdered'
    BY DEF HistoryOrdered
  <2>0. TypeOK
    BY DEF TypeInv
  <2>1. CASE UNCHANGED <<history, cycles, jumped>>
    BY <2>1 DEF HistoryOrdered
  <2>2. CASE history' = <<>> /\ cycles' = 0
    BY <2>2 DEF HistoryOrdered
  <2>3. CASE RewindToLastSnapshot
    <3>1. /\ history \in Seq(DebuggerSnapshot) /\ history # <<>>
          /\ Len(history) \in Nat /\ Len(history) >= 1
      BY <2>0, <2>3 DEF TypeOK, RewindToLastSnapshot
    <3>2. /\ cycles' = history[Len(history)].cycles
          /\ history' = SubSeq(history, 1, Len(history) - 1)
      BY <2>3 DEF RewindToLastSnapshot, Restored
    <3>3. /\ Len(history') = Len(history) - 1
          /\ \A k \in 1 .. Len(history') : history'[k] = history[k]
      BY <3>1, <3>2, AllButLast
    <3>4. \A k \in 1 .. Len(history) : history[k].cycles \in Int
      BY <3>1, CyclesAreNumbers
    <3>5. CASE jumped
      <4>1. ~(Len(history) > 1)
        BY <2>3, <3>5, Zenon DEF RewindToLastSnapshot
      <4>2. Len(history') = 0
        BY <3>1, <3>3, <4>1
      <4> QED
        BY <4>2 DEF HistoryOrdered
    <3> SUFFICES ASSUME ~jumped
                 PROVE  HistoryOrdered'
      BY <3>5
    <3>6. \A i, j \in 1 .. Len(history') : i < j => history'[i].cycles < history'[j].cycles
      BY <3>1, <3>3 DEF HistoryOrdered
    <3>7. ASSUME NEW i \in 1 .. Len(history')
          PROVE  history'[i].cycles <= cycles'
      <4>1. i \in 1 .. Len(history) /\ Len(history) \in 1 .. Len(history) /\ i < Len(history)
        BY <3>1, <3>3
      <4>2. history[i].cycles < history[Len(history)].cycles
        BY <4>1 DEF HistoryOrdered
      <4> QED
        BY <3>2, <3>3, <3>4, <4>1, <4>2
    <3> QED
      BY <3>6, <3>7 DEF HistoryOrdered
  <2>4. CASE history' = Captured /\ cycles' \in {cycles, cycles + 1} /\ jumped' = jumped
    <3>1. cycles \in Int
      BY <2>0 DEF TypeOK
    <3>2. history' \in Seq(DebuggerSnapshot)
      BY <2>0, <2>4, HistoryType
    <3>3. \A i \in 1 .. Len(history') : history'[i].cycles \in Int
      BY <3>2, CyclesAreNumbers
    <3>4. cycles' >= cycles /\ cycles' \in Int
      BY <2>4, <3>1
    <3>5. /\ \A i, j \in 1 .. Len(history') : i < j => history'[i].cycles < history'[j].cycles
          /\ \A i \in 1 .. Len(history') : history'[i].cycles <= cycles
      BY <2>0, <2>4, CapturedOrdered
    <3> QED
      BY <3>1, <3>3, <3>4, <3>5 DEF HistoryOrdered
  <2>5. CASE RestoreCall
    <3>1. /\ history' = history /\ cycles' \in 0 .. MaxCycles /\ ~jumped
          /\ history = <<>> \/ ~(cycles' < history[Len(history)].cycles)
      BY <2>5, RestoreHistory
    <3>2. history \in Seq(DebuggerSnapshot) /\ Len(history) \in Nat
      BY <2>0 DEF TypeOK
    <3>3. \A k \in 1 .. Len(history) : history[k].cycles \in Int
      BY <3>2, CyclesAreNumbers
    <3>4. \A i, j \in 1 .. Len(history) : i < j => history[i].cycles < history[j].cycles
      BY <3>1 DEF HistoryOrdered
    <3>5. cycles' \in Int
      BY <3>1
    <3>6. ASSUME NEW i \in 1 .. Len(history)
          PROVE  history[i].cycles <= cycles'
      <4>1. history # <<>> /\ Len(history) \in 1 .. Len(history)
        BY <3>2
      <4>2. history[i].cycles <= history[Len(history)].cycles
        BY <3>2, <3>3, <3>4, <4>1
      <4>3. history[Len(history)].cycles <= cycles'
        BY <3>1, <3>3, <3>5, <4>1
      <4> QED
        BY <3>3, <3>5, <4>1, <4>2, <4>3
    <3> QED
      BY <3>1, <3>4, <3>6 DEF HistoryOrdered
  <2> QED
    BY <2>0, <2>1, <2>2, <2>3, <2>4, <2>5, HistorySteps
<1> QED
  BY <1>1, <1>2, Types, PTL DEF Spec

\* Halted CPUs agree in the machine and in each snapshot it may return to.
LEMMA HaltedInvariant == Spec => []HaltedInv
<1>1. Init => HaltedInv
  <2> SUFFICES ASSUME Init
               PROVE  HaltedInv
    OBVIOUS
  <2>1. history = <<>>
    BY Zenon DEF Init
  <2>2. \A c \in CPU : ~halted[c]
    BY DEF Init
  <2> QED
    BY <2>1, <2>2 DEF HaltedInv, HaltedAgree
<1>2. TypeInv /\ HaltedInv /\ [Next]_vars => HaltedInv'
  <2> SUFFICES ASSUME TypeInv, HaltedInv, [Next]_vars
               PROVE  HaltedInv'
    OBVIOUS
  <2>0. TypeOK /\ history \in Seq(DebuggerSnapshot)
    BY DEF TypeInv, TypeOK
  <2> DEFINE Agrees(s) == \A c \in CPU : s.halted[c] => s.cpuState[c] = "HALTED"
             Agreement == \A i \in 1 .. Len(history) : Agrees(history[i])
  <2>1. HaltedAgree'
    <3>1. CASE LifecycleCall
      <4>1. CASE InitVM \/ Reset
        BY <4>1 DEF InitVM, Reset, HaltedAgree
      <4>2. CASE /\ UNCHANGED halted
                 /\ \A c \in CPU : cpuState'[c] # cpuState[c] => ~halted[c]
        BY <4>2 DEF HaltedInv, HaltedAgree
      <4>3. ASSUME NEW c \in CPU, EnableCPU(c) \/ ParkCPU(c)
            PROVE  HaltedAgree'
        BY <2>0, <4>3 DEF EnableCPU, ParkCPU, TypeOK, HaltedInv, HaltedAgree
      <4> QED
        BY <3>1, <4>1, <4>2, <4>3
           DEF LifecycleCall, TriggerKernelPanic, AdvanceBoot, LoadProgram, SetEntryPoint,
               SetActiveCPU, machine
    <3>2. CASE DebuggerCall /\ ~RewindToLastSnapshot
      BY <3>2
         DEF DebuggerCall, AttachDebugger, DetachDebugger, SetMemoryBreakpoint,
             SetBreakpoint, ClearBreakpoint, ClearMemoryBreakpoint, machine, HaltedInv,
             HaltedAgree
    <3>3. CASE RewindToLastSnapshot
      <4>1. Len(history) \in 1 .. Len(history)
        BY <2>0, <3>3 DEF RewindToLastSnapshot
      <4>2. /\ halted' = history[Len(history)].halted
            /\ cpuState' = history[Len(history)].cpuState
        BY <3>3 DEF RewindToLastSnapshot, Restored
      <4> QED
        BY <4>1, <4>2 DEF HaltedInv, HaltedAgree
    <3>4. CASE StartCall
      BY <3>4, StartSteps DEF machine, HaltedInv, HaltedAgree
    <3>5. CASE RunLoop \/ Select \/ FinishStep \/ StopAtBreakpoint
               \/ \E hit \in BOOLEAN : ExecFault(hit)
      BY <3>5 DEF RunLoop, Select, FinishStep, StopAtBreakpoint, ExecFault, machine,
                  HaltedInv, HaltedAgree
    <3>6. CASE ExecHalt
      BY <2>0, <3>6 DEF ExecHalt, TypeOK, HaltedInv, HaltedAgree
    <3>7. ASSUME NEW a \in Addr, NEW hit \in BOOLEAN, NEW woken \in Wakeable,
                 ExecInstruction(a, hit, woken)
          PROVE  HaltedAgree'
      <4>1. \A c \in woken : cpuState[c] = "WAITING"
        BY DEF Wakeable
      <4> QED
        BY <3>7, <4>1 DEF ExecInstruction, HaltedInv, HaltedAgree
    <3>8. CASE Halt
      BY <3>8 DEF Halt, HaltedInv, HaltedAgree
    <3>9. CASE UNCHANGED vars
      BY <3>9 DEF vars, machine, HaltedInv, HaltedAgree
    <3>10. CASE RestoreCall
      <4>1. \/ \E s \in Snapshots \cup Checkpoints :
                 halted' = s.halted /\ cpuState' = s.cpuState
            \/ \A c \in CPU : ~halted'[c]
        BY <3>10 DEF RestoreCall, RestoreSnapshot, Restored, RestoreVMSnapshot,
                     ReadDiagnosticCheckpoint
      <4> QED
        BY <4>1, HeldAssumption DEF HaltedAgree
    <3> QED
      BY <3>1, <3>2, <3>3, <3>4, <3>5, <3>6, <3>7, <3>8, <3>9, <3>10 DEF Next, Execute
  <2>2. Agreement'
    <3>1. CASE UNCHANGED history
      BY <3>1 DEF HaltedInv
    <3>2. CASE history' = <<>>
      BY <3>2
    <3>3. CASE RewindToLastSnapshot
      <4>1. history # <<>> /\ history' = SubSeq(history, 1, Len(history) - 1)
        BY <3>3 DEF RewindToLastSnapshot
      <4>2. /\ Len(history') = Len(history) - 1 /\ Len(history) \in Nat
            /\ \A k \in 1 .. Len(history') : history'[k] = history[k]
        BY <2>0, <4>1, AllButLast
      <4> QED
        BY <4>2 DEF HaltedInv
    <3>4. CASE history' = Captured
      <4>1. Agrees([Snapshot EXCEPT !.active = sel])
        BY DEF Snapshot, HaltedInv, HaltedAgree
      <4>2. Agreement
        BY DEF HaltedInv
      <4> HIDE DEF Agrees
      <4>3. \A i \in 1 .. Len(Captured) : Agrees(Captured[i])
        BY <2>0, <4>1, <4>2, CapturedEntries
      <4> QED
        BY <3>4, <4>3 DEF Agrees
    <3>5. CASE RestoreCall
      BY <3>1, <3>5, RestoreHistory
    <3> QED
      BY <2>0, <3>1, <3>2, <3>3, <3>4, <3>5, HistorySteps
  <2> QED
    BY <2>1, <2>2 DEF HaltedInv
<1> QED
  BY <1>1, <1>2, Types, PTL DEF Spec

\* A CPU that executed HALT is never handed to the scheduler again, at any depth of
\* the history and after any rewind or restore, while it is not reset.
THEOREM HaltedStaysHalted == Spec => []HaltedAgree
  BY HaltedInvariant, PTL DEF HaltedInv
----------------------------------------------------------------------------
(* The machine's life *)

\* What a step does to the caller's place, as the life of the machine says it.
LEMMA Placed ==
  /\ Place' = Place => Life!Stays
  /\ \A p : Place' = p => Life!Goes("caller", p)
  /\ Life!Nobody <=> Place = "outside"
BY DEF Life!Stays, Life!Goes, Life!Nobody

\* The scheduler finds a CPU if there is one.
LEMMA ReadySelects ==
  ASSUME TypeOK
  PROVE  (SelectNextCPU # None) <=> Ready
<1>1. ASSUME SelectNextCPU # None
      PROVE  Ready
  BY <1>1, NothingRunnable DEF Ready
<1>2. ASSUME Ready
      PROVE  SelectNextCPU # None
  <2>1. PICK c \in CPU : Runnable(c)
    BY <1>2 DEF Ready
  <2>2. /\ c \in Int /\ last \in Int /\ 0 \in Int
        /\ c >= 0
    BY VMAssumption DEF TypeOK, CPU, None
  <2>3. FindNextRunnable(0) # None
    <3>1. None \notin CPU
      BY VMAssumption DEF CPU, None
    <3> QED
      BY <2>1, <2>2, <3>1, FirstRunnable
  <2> QED
    BY <2>3 DEF SelectNextCPU
<1> QED
  BY <1>1, <1>2

\* A run that is about to select a CPU, and will find one, is running: a halt()
\* since the head of the loop leaves none.
SelectInv ==
  /\ pc = "loop" => op = "run"
  /\ op = "run" /\ pc = "select" /\ Ready => vmState = "RUNNING"

LEMMA SelectInvariant == Spec => []SelectInv
<1>1. Init => SelectInv
  BY DEF Init, SelectInv
<1>2. CallInv /\ SelectInv /\ [Next]_vars => SelectInv'
  <2> SUFFICES ASSUME CallInv, SelectInv, [Next]_vars
               PROVE  SelectInv'
    OBVIOUS
  <2> USE DEF SelectInv
  <2>1. CASE LifecycleCall \/ DebuggerCall \/ RestoreCall
    BY <2>1, QuietSteps DEF call, Idle
  <2>2. CASE StartCall
    <3>1. pc' # "select" \/ op' # "run"
      BY <2>2, StartSteps
    <3>2. pc' = "loop" => op' = "run"
      BY <2>2 DEF StartCall, StartRun, StartStep, StartStepCPU, StartStepQuantum,
                  StartStepAllCPUs, Begin
    <3> QED
      BY <3>1, <3>2
  <2>3. CASE RunLoop
    BY <2>3 DEF RunLoop, Goto, EndCall
  <2>4. CASE Select
    BY <2>4 DEF Select, Goto, EndCall
  <2>5. CASE StopAtBreakpoint \/ ExecHalt \/ FinishStep \/ \E hit \in BOOLEAN : ExecFault(hit)
    <3>1. \E ok \in BOOLEAN : \E s : Returned(ok, s)
      BY <2>5 DEF StopAtBreakpoint, ExecHalt, FinishStep, ExecFault
    <3> QED
      BY <3>1, ReturnedSteps DEF EndCall
  <2>6. CASE \E a \in Addr, hit \in BOOLEAN, woken \in Wakeable : ExecInstruction(a, hit, woken)
    BY <2>6 DEF ExecInstruction
  <2>7. CASE Halt
    <3>1. ~Ready' /\ UNCHANGED <<pc, op>>
      BY <2>7 DEF Halt, Ready, Runnable, call
    <3> QED
      BY <3>1
  <2>8. CASE UNCHANGED vars
    <3>1. UNCHANGED <<vmState, pc, op, cpuState, enabled>>
      BY <2>8 DEF vars, lifecycle, machine, call
    <3> QED
      BY <3>1 DEF SelectInv, Ready, Runnable
  <2> QED
    BY <2>1, <2>2, <2>3, <2>4, <2>5, <2>6, <2>7, <2>8 DEF Next, Execute
<1> QED
  BY <1>1, <1>2, CallInvariant, PTL DEF Spec

\* The calls between execution calls revive the machine, panic, rewind or restore
\* it or arrange its CPUs; the rest does not touch its life.
LEMMA CallsLive ==
  ASSUME TypeInv, CallInv, LifecycleCall \/ DebuggerCall \/ RestoreCall
  PROVE  [Life!Next]_(Life!lifeVars)
<1>1. Place = "outside" /\ Place' = Place
  BY QuietSteps DEF Place, Idle, call
<1>2. Life!Nobody /\ Life!Stays
  BY <1>1, Placed
<1>3. Ready \in BOOLEAN /\ Ready' \in BOOLEAN
  BY DEF Ready
<1>4. CASE UNCHANGED <<vmState, Ready>>
  BY <1>2, <1>4 DEF Life!lifeVars, Life!Stays
<1>5. CASE InitVM \/ Reset
  <2>1. /\ vmState' = "STOPPED" /\ 0 \in CPU
        /\ cpuState'[0] = "RUNNING" /\ enabled'[0] = TRUE
    BY <1>5, InitialValues DEF InitVM, Reset, TypeInv, TypeOK
  <2>2. Ready'
    BY <2>1 DEF Ready, Runnable
  <2> QED
    BY <1>2, <2>1, <2>2 DEF Life!Next, Life!Revive
<1>6. CASE TriggerKernelPanic
  <2>1. vmState' = "ERROR" /\ Ready' = Ready
    BY <1>6 DEF TriggerKernelPanic, machine, Ready, Runnable
  <2> QED
    BY <1>2, <2>1 DEF Life!Next, Life!Panic
<1>7. CASE RewindToLastSnapshot
  <2>1. vmState' = "PAUSED"
    BY <1>7 DEF RewindToLastSnapshot, Restored
  <2> QED
    BY <1>2, <1>3, <2>1 DEF Life!Next, Life!Rewind
<1>8. CASE \E c \in CPU : EnableCPU(c) \/ ParkCPU(c)
  <2>1. vmState' = vmState
    BY <1>8 DEF EnableCPU, ParkCPU, lifecycle
  <2> QED
    BY <1>2, <1>3, <2>1 DEF Life!Next, Life!Arrange
<1>9. CASE \/ AdvanceBoot \/ \E ok \in BOOLEAN : LoadProgram(ok)
           \/ \E a \in Addr : SetEntryPoint(a)
           \/ \E c \in CPU : SetActiveCPU(c)
  <2>1. UNCHANGED <<vmState, cpuState, enabled>>
    BY <1>9 DEF AdvanceBoot, LoadProgram, SetEntryPoint, SetActiveCPU, machine
  <2> QED
    BY <1>4, <2>1 DEF Ready, Runnable
<1>10. CASE DebuggerCall /\ ~RewindToLastSnapshot
  <2>1. UNCHANGED <<vmState, cpuState, enabled>>
    BY <1>10 DEF DebuggerCall, AttachDebugger, DetachDebugger, SetMemoryBreakpoint,
         SetBreakpoint, ClearBreakpoint, ClearMemoryBreakpoint, lifecycle, machine
  <2> QED
    BY <1>4, <2>1 DEF Ready, Runnable
<1>11. CASE RestoreCall
  <2>1. TypeOK'
    BY <1>11, RestoreTypes DEF TypeInv
  <2>2. vmState' \in {"CREATED", "STOPPED", "RUNNING", "PAUSED", "ERROR"}
    BY <2>1 DEF TypeOK, VMState
  <2> QED
    BY <1>2, <1>3, <2>2 DEF Life!Next, Life!Restore
<1> QED
  BY <1>5, <1>6, <1>7, <1>8, <1>9, <1>10, <1>11 DEF LifecycleCall

\* An execution call is entered.
LEMMA StartsLive ==
  ASSUME CallInv, StartCall
  PROVE  Life!Next
<1>1. /\ Place = "outside" /\ Life!Accepts /\ Ready' = Ready
      /\ vmState' \in {"RUNNING", "PAUSED"}
  BY StartSteps DEF Place, Idle, Life!Accepts, Ready, Runnable, machine
<1>2. CASE StartRun(Unlimited) \/ \E n \in Budgets : StartRun(n)
  <2>1. vmState' = "RUNNING" /\ Place' = "run"
    BY <1>2 DEF StartRun, Begin, Place
  <2> QED
    BY <1>1, <2>1, Placed DEF Life!Next, Life!EnterRun
<1>3. CASE \/ StartStep \/ StartStepAllCPUs
           \/ \E c \in CPU : StartStepCPU(c) \/ \E n \in Budgets : StartStepQuantum(c, n)
  <2>1. vmState' = Woken /\ Place' = "step"
    BY <1>3 DEF StartStep, StartStepAllCPUs, StartStepCPU, StartStepQuantum, Begin, Place
  <2> QED
    BY <1>1, <2>1, Placed DEF Life!Next, Life!EnterStep, Woken
<1> QED
  BY <1>2, <1>3 DEF StartCall

\* Between two instructions of run() and step(): go on or leave.
LEMMA TurnsLive ==
  ASSUME TypeInv, CallInv, ErrorInv, SelectInv, RunLoop \/ Select
  PROVE  [Life!Next]_(Life!lifeVars)
<1>1. /\ Place \in {"run", "step"}
      /\ (Place = "run") <=> (op = "run")
      /\ Life!Accepts /\ Ready' = Ready
  <2>1. pc \in {"loop", "select"} /\ UNCHANGED machine
    BY DEF RunLoop, Select
  <2> QED
    BY <2>1 DEF ErrorInv, ErrorStopsExecution, Place, Life!Accepts, Ready, Runnable, machine
<1>2. CASE RunLoop
  <2>1. CASE UNCHANGED <<vmState, op>> /\ pc' = "select"
    <3>1. Place' = Place
      BY <1>2, <2>1 DEF RunLoop, Place
    <3> QED
      BY <1>1, <2>1, <3>1, Placed DEF Life!lifeVars, Life!Stays
  <2>2. CASE op = "run" /\ EndCall
    <3>1. Place' = "outside"
      BY <2>2 DEF EndCall, Place
    <3> QED
      BY <1>1, <1>2, <2>2, <3>1, Placed DEF RunLoop, Goto, EndCall, Life!Next, Life!LeaveRun
  <2> QED
    BY <1>2, <2>1, <2>2 DEF RunLoop, Goto, SelectInv
<1>3. CASE Select
  <2>1. (SelectNextCPU # None) <=> Ready
    BY ReadySelects DEF TypeInv
  <2>2. CASE ~Ready
    <3>1. vmState' = "STOPPED" /\ Place' = "outside"
      BY <1>3, <2>1, <2>2 DEF Select, EndCall, Place
    <3> QED
      BY <1>1, <2>2, <3>1, Placed DEF Life!Next, Life!LeaveRun, Life!LeaveStep
  <2>3. CASE Ready
    <3>1. pc = "select" /\ vmState' = Woken /\ pc' = "exec" /\ op' = op
      BY <1>3, <2>1, <2>3 DEF Select, Goto
    <3>2. CASE op = "run"
      <4>1. vmState = "RUNNING" /\ vmState' = vmState /\ Place' = "running"
        BY <2>3, <3>1, <3>2 DEF SelectInv, Woken, Place
      <4> QED
        BY <1>1, <2>3, <3>2, <4>1, Placed DEF Life!Next, Life!Dispatch
    <3>3. CASE op # "run"
      <4>1. Place' = Place /\ vmState' \in {"RUNNING", "PAUSED"}
        BY <3>1, <3>3 DEF Woken, Place
      <4>2. Ready \in BOOLEAN /\ Place = "step"
        BY <1>1, <3>3 DEF Ready
      <4> QED
        BY <1>1, <4>1, <4>2, Placed DEF Life!Next, Life!Execute, Life!Executing
    <3> QED
      BY <3>2, <3>3
  <2> QED
    BY <2>2, <2>3
<1> QED
  BY <1>2, <1>3
\* What becomes of the caller when stepCPU() returns: it leaves, or goes on in
\* the same kind of call.
LEMMA ReturnedPlaces ==
  ASSUME NEW ok \in BOOLEAN, NEW s, Returned(ok, s), pc \in {"exec", "post"}
  PROVE  \/ Place' = "outside"
         \/ Place = "running" /\ Place' = "run" /\ ok
         \/ Place = "step" /\ Place' = "step" /\ (op = "stepAllCPUs" \/ ok)
<1>1. CASE EndCall
  BY <1>1 DEF EndCall, Place
<1>2. CASE ~EndCall
  BY <1>2, ReturnedSteps DEF Place
<1> QED
  BY <1>1, <1>2

\* An instruction, and what follows it.
LEMMA InstructionsLive ==
  ASSUME TypeInv, CallInv, ErrorInv,
         \/ StopAtBreakpoint \/ ExecHalt \/ FinishStep
         \/ \E a \in Addr, hit \in BOOLEAN, woken \in Wakeable : ExecInstruction(a, hit, woken)
         \/ \E hit \in BOOLEAN : ExecFault(hit)
  PROVE  Life!Next
<1>1. pc \in {"exec", "post"}
  BY DEF StopAtBreakpoint, ExecHalt, FinishStep, ExecInstruction, ExecFault, EnterStep
<1>2. Life!Executing("caller")
  <2>1. Place \in {"running", "step"} /\ vmState \notin {"CREATED", "ERROR"}
    BY <1>1 DEF Place, ErrorInv, ErrorStopsExecution
  <2> QED
    BY <2>1 DEF Life!Executing, Life!Accepts
<1>3. Ready \in BOOLEAN /\ Ready' \in BOOLEAN
  BY DEF Ready
<1>4. CASE StopAtBreakpoint
  <2>1. vmState' = "PAUSED" /\ Ready' = Ready /\ Returned(FALSE, "PAUSED")
    BY <1>4 DEF StopAtBreakpoint, machine, Ready, Runnable
  <2>2. EndCall
    BY <2>1 DEF Returned, StopsAll
  <2>3. Place' = "outside"
    BY <2>2 DEF EndCall, Place
  <2> QED
    BY <1>2, <2>1, <2>3, Placed DEF Life!Next, Life!Pause
<1>5. CASE ExecHalt
  <2>1. vmState' = "STOPPED" /\ Returned(FALSE, "STOPPED")
    BY <1>5 DEF ExecHalt
  <2>2. Ready' => Ready
    <3>1. enabled' = enabled /\ \A c \in CPU : cpuState'[c] = "RUNNING" => cpuState[c] = "RUNNING"
      BY <1>5 DEF ExecHalt, TypeInv, TypeOK
    <3> QED
      BY <3>1 DEF Ready, Runnable
  <2>3. Place' = "outside" \/ (Place = "step" /\ Place' = Place)
    BY <1>1, <2>1, ReturnedPlaces
  <2> QED
    BY <1>2, <1>3, <2>1, <2>2, <2>3, Placed DEF Life!Next, Life!CPUHalts
<1>6. ASSUME NEW a \in Addr, NEW hit \in BOOLEAN, NEW woken \in Wakeable,
             ExecInstruction(a, hit, woken)
      PROVE  Life!Next
  <2>1. vmState' \in {"RUNNING", "PAUSED"}
    BY <1>6 DEF ExecInstruction, StateBefore, Woken
  <2>2. Ready => Ready'
    <3>1. enabled' = enabled /\ \A c \in CPU : cpuState[c] = "RUNNING" => cpuState'[c] = "RUNNING"
      BY <1>6 DEF ExecInstruction
    <3> QED
      BY <3>1 DEF Ready, Runnable
  <2>3. Place' = Place
    BY <1>6 DEF ExecInstruction, EnterStep, Place
  <2> QED
    BY <1>2, <1>3, <2>1, <2>2, <2>3, Placed DEF Life!Next, Life!Execute
<1>7. CASE \E hit \in BOOLEAN : ExecFault(hit)
  <2>1. vmState' = "ERROR" /\ Ready' = Ready /\ Returned(FALSE, "ERROR")
    BY <1>7 DEF ExecFault, machine, Ready, Runnable
  <2>2. EndCall
    BY <2>1, ReturnedSteps
  <2>3. Place' = "outside"
    BY <2>2 DEF EndCall, Place
  <2> QED
    BY <1>2, <2>1, <2>3, Placed DEF Life!Next, Life!Fail
<1>8. CASE FinishStep
  <2>1. /\ vmState' \in {"RUNNING", "PAUSED"} /\ Ready' = Ready
        /\ vmState # "PAUSED" <=> vmState' = "RUNNING"
        /\ Returned(vmState # "PAUSED", vmState')
    BY <1>8 DEF FinishStep, Woken, machine, Ready, Runnable
  <2>2. CASE Place' = "outside" /\ Place = "running"
    <3>1. vmState' = "PAUSED"
      <4>1. op = "run"
        BY <2>2 DEF Place
      <4>2. EndCall
        BY <2>1, <2>2, <4>1, ReturnedSteps DEF Place
      <4> QED
        BY <2>1, <4>1, <4>2 DEF Returned, EndCall, Goto
    <3> QED
      BY <1>2, <2>1, <2>2, <3>1, Placed DEF Life!Next, Life!Pause
  <2>3. CASE Place' = "outside" /\ Place = "step"
    BY <1>2, <2>1, <2>3, Placed DEF Life!Next, Life!LeaveStep, Life!Executing
  <2>4. CASE Place = "running" /\ Place' = "run" /\ vmState # "PAUSED"
    BY <1>2, <2>1, <2>4, Placed DEF Life!Next, Life!Finish, Life!Executing
  <2>5. CASE Place = "step" /\ Place' = "step"
    BY <1>2, <1>3, <2>1, <2>5, Placed DEF Life!Next, Life!Execute
  <2>6. Place \in {"running", "step"}
    BY <1>1 DEF Place
  <2>7. (vmState # "PAUSED") \in BOOLEAN
    OBVIOUS
  <2> QED
    BY <1>1, <2>1, <2>2, <2>3, <2>4, <2>5, <2>6, <2>7, ReturnedPlaces
<1> QED
  BY <1>4, <1>5, <1>6, <1>7, <1>8

\* Whatever its CPUs do, wherever halt() strikes and whatever a debugger does
\* between the calls, the machine lives as MachineLife says.
THEOREM LivesAsPromised == Spec => ImplementsMachineLife
<1>1. Init => Life!Init
  <2> SUFFICES ASSUME Init
               PROVE  Life!Init
    OBVIOUS
  <2>1. vmState = "CREATED" /\ Place = "outside" /\ ~Ready
    BY DEF Init, Place, Ready, Runnable
  <2> QED
    BY <2>1 DEF Life!Init
<1>2. TypeInv /\ CallInv /\ ErrorInv /\ SelectInv /\ [Next]_vars
        => [Life!Next]_(Life!lifeVars)
  <2> SUFFICES ASSUME TypeInv, CallInv, ErrorInv, SelectInv, [Next]_vars
               PROVE  [Life!Next]_(Life!lifeVars)
    OBVIOUS
  <2>1. CASE LifecycleCall \/ DebuggerCall \/ RestoreCall
    BY <2>1, CallsLive
  <2>2. CASE StartCall
    BY <2>2, StartsLive
  <2>3. CASE RunLoop \/ Select
    BY <2>3, TurnsLive
  <2>4. CASE Execute /\ ~RunLoop /\ ~Select
    BY <2>4, InstructionsLive DEF Execute
  <2>5. CASE Halt
    <3>1. vmState = "RUNNING" /\ vmState' = "STOPPED" /\ ~Ready' /\ Place' = Place
      BY <2>5 DEF Halt, Ready, Runnable, call, Place
    <3> QED
      BY <3>1, Placed DEF Life!Next, Life!Halt, Ready
  <2>6. CASE UNCHANGED vars
    <3>1. UNCHANGED <<vmState, Ready, Place>>
      BY <2>6 DEF vars, lifecycle, machine, call, Ready, Runnable, Place
    <3> QED
      BY <3>1 DEF Life!lifeVars
  <2> QED
    BY <2>1, <2>2, <2>3, <2>4, <2>5, <2>6 DEF Next
<1> QED
  BY <1>1, <1>2, Types, CallInvariant, ErrorInvariant, SelectInvariant, PTL
     DEF Spec, ImplementsMachineLife, Life!Spec
=============================================================================
