-------------------------- MODULE DeviceInterrupts --------------------------
(***************************************************************************)
(* The path of an interrupt from a device or another CPU to a CPU's list   *)
(* of pending interrupts: the programmable timer (VirtualTimer), the       *)
(* interrupt controller (BasicInterruptController), the processor          *)
(* interrupt block and the delivery callbacks of VirtualMachine, which     *)
(* also wake a waiting CPU.  What the CPU does with a pending interrupt is *)
(* in IA64ExternalInterrupts.                                              *)
(*                                                                         *)
(* stepCPU() is cut where other code is called: after the instruction      *)
(* ("ticks"), before the timer's own callback ("callback") and before the  *)
(* controller is told ("deliver").  The owner of the machine acts between  *)
(* two calls, and may put back a snapshot that it took between two earlier *)
(* ones: Machines are those it keeps.  The timer's status bit, which       *)
(* nothing but the guest reads, the statistics of the interrupt block and  *)
(* the controller's sources, which are vectors with a name and a switch,   *)
(* are left out, and so is readDiagnosticCheckpoint(), which only a        *)
(* machine of one CPU has and which puts the list back with all the rest.  *)
(***************************************************************************)
EXTENDS Integers, Sequences, FiniteSets, SequencesExt

CONSTANTS
  NumCPUs,      \* number of CPU contexts
  Vectors,      \* vectors interrupts are sent with
  Programmed,   \* those of them that the timer is given
  Intervals,    \* intervals written to the timer
  MaxTick,      \* cycles one tick may count; VirtualMachine ticks by 1
  MaxPending,   \* bound: with so long a list or queue nothing more is raised
  Machines      \* snapshots of the machine that its owner keeps

CPU == 0 .. NumCPUs - 1
DefaultVector == 32
CPUExecutionState == {"IDLE", "RUNNING", "WAITING", "HALTED"}

Timer == [interval : Nat, elapsed : Nat, vector : Vectors, enabled : BOOLEAN,
          periodic : BOOLEAN]

\* What a snapshot keeps of all this: not the CPUs' lists, which are in their
\* plugins, and of the controller's queue one bit for each vector.
Machine == [cpuState : [CPU -> CPUExecutionState], lid : [CPU -> CPU], active : CPU,
            timer : Timer, queue : SUBSET Vectors]

ASSUME DeviceAssumption ==
  /\ NumCPUs \in Nat \ {0}
  /\ Vectors \subseteq 0 .. 255
  /\ Programmed \subseteq Vectors /\ DefaultVector \in Programmed
  /\ Intervals \subseteq Nat
  /\ {MaxTick, MaxPending} \subseteq Nat

ASSUME MachinesAssumption ==
  /\ Machines \subseteq Machine
  /\ \A m \in Machines : m.timer.elapsed = 0 \/ m.timer.elapsed < m.timer.interval

VARIABLES
  timer,           \* registers of VirtualTimer
  at,              \* where stepCPU() is
  connected,       \* the controller has its delivery callback
  pendingVectors,  \* the controller's queue
  cpuState,        \* CPUExecutionState of each CPU
  lid,             \* its CR.LID
  pending,         \* how often each vector is in its list
  active,          \* activeCPUIndex_
  owing,           \* ghost: interrupts raised that nobody has taken
  restored,        \* ghost: the queue was put back by a restore
  resting          \* ghost: CPUs that a restore put to sleep on their list

ghosts == <<owing, restored, resting>>
queueVars == <<pendingVectors, cpuState, pending, ghosts>>
setup == <<connected, lid>>
vars == <<timer, at, queueVars, setup, active>>

NewTimer == [interval |-> 0, elapsed |-> 0, vector |-> DefaultVector,
             enabled |-> FALSE, periodic |-> TRUE]
Nothing == [v \in Vectors |-> 0]

Init ==
  /\ timer = NewTimer
  /\ at = "idle"
  /\ connected = TRUE /\ pendingVectors = <<>>
  /\ cpuState = [c \in CPU |-> IF c = 0 THEN "RUNNING" ELSE "IDLE"]
  /\ lid = [c \in CPU |-> 0]
  /\ pending = [c \in CPU |-> Nothing]
  /\ active = 0
  /\ owing = Nothing /\ restored = FALSE /\ resting = {}

-----------------------------------------------------------------------------
(* A CPU's list and its waking. *)

\* queueInterrupt() drops the vectors up to the spurious one.
Spurious == 15
Listed(v) == v > Spurious

QueueInterrupt(c, more) ==
  pending' = [pending EXCEPT ![c] =
                [v \in Vectors |-> @[v] + IF Listed(v) THEN more[v] ELSE 0]]

\* Mutant: the list is seen to, the CPU is not.
WakeNone(c) == cpuState' = cpuState

Wake(c) == cpuState' = [cpuState EXCEPT ![c] = IF @ = "WAITING" THEN "RUNNING" ELSE @]

-----------------------------------------------------------------------------
(* The controller. *)

Count(q) == [v \in Vectors |-> Cardinality({i \in DOMAIN q : q[i] = v})]

\* The queue q is delivered, all of it and to the active CPU, if there is a
\* callback.
Deliver(q, callback) ==
  IF callback /\ q # <<>>
  THEN pendingVectors' = <<>> /\ QueueInterrupt(active, Count(q)) /\ Wake(active)
       /\ restored' = FALSE /\ resting' = resting \ {active}
  ELSE pendingVectors' = q /\ UNCHANGED <<pending, cpuState, restored, resting>>

Owe(v, n) == owing' = [owing EXCEPT ![v] = IF Listed(v) THEN @ + n ELSE 0]

RaiseInterrupt(v) == Deliver(Append(pendingVectors, v), connected) /\ Owe(v, 1)

QueueRoom == connected \/ Len(pendingVectors) < MaxPending
ListRoom(c) == \A v \in Vectors : pending[c][v] < MaxPending
Room(c) == QueueRoom /\ ListRoom(c)

-----------------------------------------------------------------------------
(* One call of stepCPU(): an instruction, then a tick of the timer. *)

CanExecute(c) == at = "idle" /\ cpuState[c] = "RUNNING"

Executes(c) == CanExecute(c) /\ active' = c /\ at' = "ticks"

OtherInstruction(c) ==
  /\ Executes(c) /\ Room(c)
  /\ UNCHANGED <<timer, queueVars, setup>>

\* A store to one of the timer's registers.  Control holds both flags; the
\* time that has passed is forgotten when the timer is switched off and by
\* every write of the interval.
WriteTimer(c) ==
  /\ Executes(c) /\ Room(c)
  /\ \/ \E on, again \in BOOLEAN :
          timer' = [timer EXCEPT !.enabled = on, !.periodic = again,
                                 !.elapsed = IF on THEN @ ELSE 0]
     \/ \E n \in Intervals : timer' = [timer EXCEPT !.interval = n, !.elapsed = 0]
     \/ \E v \in Programmed : timer' = [timer EXCEPT !.vector = v]
  /\ UNCHANGED <<queueVars, setup>>

\* Mutant: every CPU of that LID is sent the interrupt.
AddressedAll(l) == {c \in CPU : lid[c] = l}

\* The first CPU context with the LID of the message.
Addressed(l) ==
  {c \in CPU : lid[c] = l /\ \A d \in CPU : lid[d] = l => c <= d}

\* A store to the processor interrupt block, of a message it does not ignore.
LegalInt(v) == v \in {0, 2} \/ v >= 16

SendInterrupt(c, l, v) ==
  /\ Executes(c) /\ Room(c)
  /\ LegalInt(v)
  /\ \A d \in Addressed(l) : Room(d)
  /\ LET to == Addressed(l) IN
     /\ pending' = [d \in CPU |-> IF d \in to /\ Listed(v)
                                  THEN [pending[d] EXCEPT ![v] = @ + 1] ELSE pending[d]]
     /\ cpuState' = [d \in CPU |-> IF d \in to /\ cpuState[d] = "WAITING"
                                   THEN "RUNNING" ELSE cpuState[d]]
     /\ IF to = {} THEN UNCHANGED owing ELSE Owe(v, 1)
     /\ resting' = resting \ to
  /\ UNCHANGED <<timer, pendingVectors, restored, setup>>

\* CR.LID is 0 from reset until the guest gives each CPU its own.
WriteLid(c) ==
  /\ Executes(c) /\ Room(c)
  /\ lid' = [lid EXCEPT ![c] = c]
  /\ UNCHANGED <<timer, queueVars, connected>>

\* The CPU takes an interrupt off its list (IA64ExternalInterrupts).
TakeInterrupt(c, v) ==
  /\ Executes(c) /\ QueueRoom
  /\ pending[c][v] > 0
  /\ pending' = [pending EXCEPT ![c][v] = @ - 1]
  /\ Owe(v, -1)
  /\ UNCHANGED <<timer, pendingVectors, cpuState, restored, resting, setup>>

\* The timer does not tick for an instruction that halts or fails.
HaltCPU(c) ==
  /\ CanExecute(c)
  /\ active' = c
  /\ cpuState' = [cpuState EXCEPT ![c] = "HALTED"]
  /\ UNCHANGED <<timer, at, pendingVectors, pending, ghosts, setup>>

Execute(c) ==
  \/ OtherInstruction(c) \/ WriteTimer(c) \/ WriteLid(c) \/ HaltCPU(c)
  \/ \E v \in Vectors : TakeInterrupt(c, v) \/ \E l \in CPU : SendInterrupt(c, l, v)

Due(t) == t.enabled /\ t.interval > 0 /\ t.elapsed >= t.interval

\* The head of the loop of Tick().
TickLoop(t) ==
  IF Due(t) THEN at' = "callback" /\ timer' = [t EXCEPT !.elapsed = @ - t.interval]
            ELSE at' = "idle" /\ timer' = t

\* Mutant: only the instructions of the first CPU count.
TickFirstCPU ==
  /\ at = "ticks"
  /\ IF active = 0 /\ timer.enabled /\ timer.interval > 0
     THEN TickLoop([timer EXCEPT !.elapsed = @ + 1])
     ELSE at' = "idle" /\ UNCHANGED timer
  /\ UNCHANGED <<queueVars, setup, active>>

Tick ==
  /\ at = "ticks"
  /\ IF timer.enabled /\ timer.interval > 0
     THEN \E n \in 1 .. MaxTick :
            /\ n > 1 => Room(active)
            /\ TickLoop([timer EXCEPT !.elapsed = @ + n])
     ELSE at' = "idle" /\ UNCHANGED timer
  /\ UNCHANGED <<queueVars, setup, active>>

\* The owner's callback may set the timer up anew in the middle of a tick.
TimerCallback ==
  /\ at = "callback"
  /\ at' = "deliver"
  /\ \/ UNCHANGED timer
     \/ \E n \in Intervals, v \in Programmed, again, on \in BOOLEAN :
          timer' = [interval |-> n, elapsed |-> 0, vector |-> v,
                    enabled |-> on, periodic |-> again]
  /\ UNCHANGED <<queueVars, setup, active>>

\* Mutant: a timer that has fired once keeps the time it has counted.
TickDeliversKeepsTime ==
  /\ at = "deliver"
  /\ RaiseInterrupt(timer.vector)
  /\ TickLoop([timer EXCEPT !.enabled = timer.periodic])
  /\ UNCHANGED <<setup, active>>

\* A timer that is not periodic by now is switched off, even if the callback
\* has just switched it on.
TickDelivers ==
  /\ at = "deliver"
  /\ RaiseInterrupt(timer.vector)
  /\ TickLoop(IF timer.periodic THEN timer
              ELSE [timer EXCEPT !.enabled = FALSE, !.elapsed = 0])
  /\ UNCHANGED <<setup, active>>

Step == (\E c \in CPU : Execute(c)) \/ Tick \/ TimerCallback \/ TickDelivers

-----------------------------------------------------------------------------
(* The owner of the machine, between two calls. *)

Idle == at = "idle"

\* As getCPUContext() allows: a CPU is started, or made to wait while it has
\* nothing to do.
StartCPU(c) ==
  /\ Idle /\ cpuState[c] = "IDLE"
  /\ cpuState' = [cpuState EXCEPT ![c] = "RUNNING"]
  /\ UNCHANGED <<timer, at, pendingVectors, pending, ghosts, setup, active>>

ParkCPU(c) ==
  /\ Idle /\ cpuState[c] = "RUNNING" /\ pending[c] = Nothing
  /\ cpuState' = [cpuState EXCEPT ![c] = "WAITING"]
  /\ UNCHANGED <<timer, at, pendingVectors, pending, ghosts, setup, active>>

SetActiveCPU(c) ==
  /\ Idle /\ cpuState[c] \in {"RUNNING", "IDLE"}
  /\ active' = c
  /\ UNCHANGED <<timer, at, queueVars, setup>>

OwnerRaises(v) ==
  /\ Idle /\ Room(active)
  /\ RaiseInterrupt(v)
  /\ UNCHANGED <<timer, at, setup, active>>

\* Mutant: what has waited for a callback goes on waiting.
RegisterDeliveryCallbackOnly(callback) ==
  /\ Idle /\ ListRoom(active)
  /\ connected' = callback
  /\ UNCHANGED <<timer, at, queueVars, lid, active>>

RegisterDeliveryCallback(callback) ==
  /\ Idle /\ ListRoom(active)
  /\ connected' = callback
  /\ Deliver(pendingVectors, callback)
  /\ UNCHANGED <<timer, at, owing, lid, active>>

\* An owner that polls takes the front of the queue.
GetNextPendingInterrupt ==
  /\ Idle /\ pendingVectors # <<>>
  /\ pendingVectors' = Tail(pendingVectors)
  /\ Owe(Head(pendingVectors), -1)
  /\ UNCHANGED <<timer, at, pending, cpuState, restored, resting, setup, active>>

-----------------------------------------------------------------------------
(* What the owner puts back. *)

\* restoreSnapshot() of the controller: the vectors come back in their own
\* order, each of them once, and wait for the next interrupt that is raised.
RestoreQueue(waiting) ==
  /\ \E q \in [1 .. Cardinality(waiting) -> waiting] :
     /\ \A i, j \in DOMAIN q : i < j => q[i] < q[j]
     /\ pendingVectors' = q
     /\ owing' = [v \in Vectors |-> owing[v] + IF Listed(v)
                    THEN Count(q)[v] - Count(pendingVectors)[v] ELSE 0]
  /\ restored' = TRUE

\* CPU::restoreSnapshot() and the states of the CPUs: registers, CR.LID among
\* them, but no list.  A CPU that was waiting then waits again.
RestoreCPUs(m) ==
  /\ cpuState' = m.cpuState /\ lid' = m.lid /\ active' = m.active
  /\ resting' = {c \in CPU : m.cpuState[c] = "WAITING" /\ pending[c] # Nothing}
  /\ UNCHANGED <<at, connected, pending>>

\* restoreSnapshot(), by the owner or for a rewind: no device is put back.
RestoreSnapshot(m) ==
  /\ Idle /\ RestoreCPUs(m)
  /\ UNCHANGED <<timer, pendingVectors, owing, restored>>

RestoreVMSnapshot(m) ==
  /\ Idle /\ \A c \in CPU : Room(c)
  /\ RestoreCPUs(m) /\ timer' = m.timer /\ RestoreQueue(m.queue)

\* VirtualMachine::reset(): the CPUs, their lists and LIDs, the timer and the
\* queue; the callback stays.
Reset ==
  /\ Idle
  /\ timer' = NewTimer
  /\ pendingVectors' = <<>>
  /\ cpuState' = [c \in CPU |-> IF c = 0 THEN "RUNNING" ELSE "IDLE"]
  /\ lid' = [c \in CPU |-> 0]
  /\ pending' = [c \in CPU |-> Nothing]
  /\ active' = 0
  /\ owing' = Nothing /\ restored' = FALSE /\ resting' = {}
  /\ UNCHANGED <<at, connected>>

Owner ==
  \/ \E c \in CPU : StartCPU(c) \/ ParkCPU(c) \/ SetActiveCPU(c)
  \/ \E v \in Vectors : OwnerRaises(v)
  \/ \E callback \in BOOLEAN : RegisterDeliveryCallback(callback)
  \/ GetNextPendingInterrupt
  \/ \E m \in Machines : RestoreSnapshot(m) \/ RestoreVMSnapshot(m)
  \/ Reset

Next == Step \/ Owner

(* The run loop goes on as long as a CPU can execute. *)
Spec == Init /\ [][Next]_vars /\ WF_vars(Step)

-----------------------------------------------------------------------------
TypeOK ==
  /\ timer \in Timer
  /\ at \in {"idle", "ticks", "callback", "deliver"}
  /\ at = "idle" => (timer.elapsed = 0 \/ timer.elapsed < timer.interval)
  /\ connected \in BOOLEAN
  /\ pendingVectors \in Seq(Vectors)
  /\ cpuState \in [CPU -> CPUExecutionState]
  /\ lid \in [CPU -> CPU]
  /\ pending \in [CPU -> [Vectors -> Nat]]
  /\ active \in CPU
  /\ owing \in [Vectors -> Int]
  /\ restored \in BOOLEAN
  /\ resting \subseteq CPU

(***************************************************************************)
(* No CPU sleeps on an interrupt: whoever sends it and wherever it waited, *)
(* the CPU that finds it in its list is awake.  The one exception is a CPU *)
(* that a restore put back to WAITING while its list, which no snapshot    *)
(* holds, was not empty (CPU::restoreSnapshot), and only until it is sent  *)
(* the next interrupt, whose delivery wakes it as it does any other.       *)
(***************************************************************************)
NoSleepOnInterrupt ==
  \A c \in CPU : cpuState[c] = "WAITING" /\ c \notin resting => pending[c] = Nothing

(***************************************************************************)
(* Every interrupt that is raised, or sent to a CPU that is there, is in   *)
(* one CPU's list or in the queue until it is taken, as often as it was    *)
(* raised: across LIDs that CPUs share or change, callbacks that come and  *)
(* go, and timers that are set up anew in the middle of a tick.            *)
(***************************************************************************)
NoneLostOrDoubled ==
  \A v \in Vectors : Listed(v) =>
    owing[v] = Count(pendingVectors)[v]
               + MapThenSumSet(LAMBDA c : pending[c][v], CPU)

(***************************************************************************)
(* Nothing waits in the queue of a controller that has its callback,       *)
(* except what a restore put there.                                        *)
(***************************************************************************)
QueuedOnlyUnconnected ==
  connected /\ pendingVectors # <<>> => restored

(***************************************************************************)
(* The timer keeps time: while it is on and periodic, and is not set up    *)
(* anew, it fires again and again, as long as some CPU executes at all     *)
(* (the timer stands still while every CPU waits) and CPUs do not go on    *)
(* being halted and brought back by a restore for ever.                    *)
(***************************************************************************)
Armed == timer.enabled /\ timer.periodic /\ timer.interval > 0

TimerKeepsFiring ==
  (/\ <>[]Armed
   /\ <>[][timer' = timer \/ at \in {"ticks", "deliver"}]_vars
   /\ <>[](connected /\ \E c \in CPU : cpuState[c] = "RUNNING")
   /\ <>[][\A c \in CPU : cpuState'[c] = "HALTED" => cpuState[c] = "HALTED"]_vars)
  => []<>(at = "callback")
=============================================================================
