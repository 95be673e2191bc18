----------------------- MODULE DeviceInterruptsProofs -----------------------
(***************************************************************************)
(* Proofs about DeviceInterrupts for any number of CPUs, any vectors and   *)
(* intervals and any bounds: first the parts of the invariant that are of  *)
(* one CPU or of the queue, then the sum over all of them, that every      *)
(* interrupt raised is somewhere, as often as it was raised.               *)
(***************************************************************************)
EXTENDS DeviceInterrupts, IntegerSetLemmas, FunctionTheorems

(* Between two calls less time has passed than the interval, or none; the  *)
(* same when the tick begins, since the instruction before it can only     *)
(* have forgotten time.  In the middle of a tick the timer is on, unless   *)
(* the callback has set it up anew.                                        *)
TimeIsShort ==
  /\ at \in {"idle", "ticks"} => timer.elapsed = 0 \/ timer.elapsed < timer.interval
  /\ at = "callback" => timer.enabled /\ timer.interval > 0
  /\ at = "deliver" => (timer.enabled /\ timer.interval > 0) \/ timer.elapsed = 0

IInv == TypeOK /\ TimeIsShort /\ NoSleepOnInterrupt /\ QueuedOnlyUnconnected

(* What every step has to keep of the timer. *)
TimerOK ==
  /\ timer \in Timer
  /\ at \in {"idle", "ticks", "callback", "deliver"}
  /\ TimeIsShort

(* What every step has to keep of the controller and the CPUs. *)
QueuesOK ==
  /\ pendingVectors \in Seq(Vectors)
  /\ cpuState \in [CPU -> CPUExecutionState]
  /\ pending \in [CPU -> [Vectors -> Nat]]
  /\ owing \in [Vectors -> Int]
  /\ restored \in BOOLEAN
  /\ resting \subseteq CPU
  /\ NoSleepOnInterrupt
  /\ QueuedOnlyUnconnected

SetupOK ==
  /\ connected \in BOOLEAN
  /\ lid \in [CPU -> CPU]
  /\ active \in CPU

LEMMA ThreeParts == IInv <=> TimerOK /\ QueuesOK /\ SetupOK
  BY DEF IInv, TypeOK, TimerOK, QueuesOK, SetupOK, TimeIsShort

LEMMA ThreePartsAfter ==
  ASSUME TimerOK', QueuesOK', SetupOK'
  PROVE  IInv'
  BY DEF IInv, TypeOK, TimerOK, QueuesOK, SetupOK, TimeIsShort

\* A vector is in a queue a number of times.
LEMMA CountType ==
  ASSUME NEW q \in Seq(Vectors)
  PROVE  Count(q) \in [Vectors -> Nat]
<1>1. ASSUME NEW v \in Vectors
      PROVE  Cardinality({i \in DOMAIN q : q[i] = v}) \in Nat
  <2>1. DOMAIN q = 1 .. Len(q) /\ Len(q) \in Nat
    OBVIOUS
  <2>2. IsFiniteSet(DOMAIN q)
    BY <2>1, FS_Interval, 1 \in Int, Len(q) \in Int
  <2>3. IsFiniteSet({i \in DOMAIN q : q[i] = v})
    BY <2>2, FS_Subset, {i \in DOMAIN q : q[i] = v} \subseteq DOMAIN q
  <2> QED
    BY <2>3, FS_CardinalityType
<1> QED
  BY <1>1 DEF Count

\* Delivering a queue leaves it empty, or leaves it alone: the CPU that is
\* given interrupts is awake, and what stays waits for a callback.
LEMMA Delivery ==
  ASSUME QueuesOK, SetupOK, NEW q \in Seq(Vectors), NEW callback \in BOOLEAN,
         Deliver(q, callback), connected' = callback, owing' \in [Vectors -> Int]
  PROVE  QueuesOK'
<1>1. CASE callback /\ q # <<>>
  <2>1. /\ pendingVectors' = <<>> /\ restored' = FALSE /\ resting' = resting \ {active}
        /\ QueueInterrupt(active, Count(q)) /\ Wake(active)
    BY <1>1 DEF Deliver
  <2>2. active \in CPU
    BY DEF SetupOK
  <2>3. pending' \in [CPU -> [Vectors -> Nat]]
    BY <2>1, <2>2, CountType DEF QueueInterrupt, QueuesOK
  <2>4. cpuState' \in [CPU -> CPUExecutionState]
    BY <2>1, <2>2 DEF Wake, QueuesOK, CPUExecutionState
  <2>5. NoSleepOnInterrupt'
    <3> SUFFICES ASSUME NEW c \in CPU, cpuState'[c] = "WAITING", c \notin resting'
                 PROVE  pending'[c] = Nothing
      BY DEF NoSleepOnInterrupt, Nothing
    <3>1. c # active
      BY <2>1, <2>2 DEF Wake, QueuesOK
    <3>2. cpuState[c] = "WAITING" /\ c \notin resting
      BY <2>1, <2>2, <3>1 DEF Wake, QueuesOK
    <3>3. pending'[c] = pending[c]
      BY <2>1, <2>2, <3>1 DEF QueueInterrupt, QueuesOK
    <3> QED
      BY <3>2, <3>3 DEF QueuesOK, NoSleepOnInterrupt
  <2>6. QueuedOnlyUnconnected'
    BY <2>1 DEF QueuedOnlyUnconnected
  <2>7. pendingVectors' \in Seq(Vectors) /\ restored' \in BOOLEAN /\ resting' \subseteq CPU
    <3>1. <<>> \in Seq(Vectors)
      OBVIOUS
    <3> QED
      BY <2>1, <3>1 DEF QueuesOK
  <2> QED
    BY <2>3, <2>4, <2>5, <2>6, <2>7 DEF QueuesOK
<1>2. CASE ~(callback /\ q # <<>>)
  <2>1. pendingVectors' = q /\ UNCHANGED <<pending, cpuState, restored, resting>>
    BY <1>2 DEF Deliver
  <2>2. NoSleepOnInterrupt'
    BY <2>1 DEF QueuesOK, NoSleepOnInterrupt, Nothing
  <2>3. QueuedOnlyUnconnected'
    BY <1>2, <2>1 DEF QueuedOnlyUnconnected
  <2> QED
    BY <2>1, <2>2, <2>3 DEF QueuesOK
<1> QED
  BY <1>1, <1>2

\* Raising an interrupt keeps the queues in order.
LEMMA Raising ==
  ASSUME QueuesOK, SetupOK, NEW v \in Vectors, RaiseInterrupt(v), connected' = connected
  PROVE  QueuesOK'
<1>1. Append(pendingVectors, v) \in Seq(Vectors)
  BY DEF QueuesOK
<1>2. owing' \in [Vectors -> Int]
  BY DEF RaiseInterrupt, Owe, QueuesOK
<1>3. connected \in BOOLEAN
  BY DEF SetupOK
<1>4. Deliver(Append(pendingVectors, v), connected)
  BY DEF RaiseInterrupt
<1> QED
  BY <1>1, <1>2, <1>3, <1>4, Delivery

\* Where nothing of the queues changes, they stay as they should be.
LEMMA QueuesUnchanged ==
  ASSUME QueuesOK, UNCHANGED queueVars, connected' = connected
  PROVE  QueuesOK'
  BY DEF QueuesOK, queueVars, ghosts, NoSleepOnInterrupt, QueuedOnlyUnconnected, Nothing

\* The head of Tick()'s loop, for a timer that is on or has no time counted.
LEMMA LoopHead ==
  ASSUME NEW t \in Timer, (t.enabled /\ t.interval > 0) \/ t.elapsed = 0, TickLoop(t)
  PROVE  TimerOK'
<1>1. CASE Due(t)
  <2>1. at' = "callback" /\ timer' = [t EXCEPT !.elapsed = @ - t.interval]
    BY <1>1 DEF TickLoop
  <2>2. t.enabled /\ t.interval > 0 /\ t.elapsed - t.interval \in Nat
    BY <1>1 DEF Due, Timer
  <2>3. timer' \in Timer /\ timer'.enabled /\ timer'.interval > 0
    BY <2>1, <2>2 DEF Timer
  <2> QED
    BY <2>1, <2>3 DEF TimerOK, TimeIsShort
<1>2. CASE ~Due(t)
  <2>1. at' = "idle" /\ timer' = t
    BY <1>2 DEF TickLoop
  <2>2. t.elapsed = 0 \/ t.elapsed < t.interval
    BY <1>2 DEF Due, Timer
  <2> QED
    BY <2>1, <2>2 DEF TimerOK, TimeIsShort
<1> QED
  BY <1>1, <1>2

\* The timer, when the step is none of its own.
LEMMA TimerUnchanged ==
  ASSUME TimerOK, timer' = timer,
         at' = at \/ (at = "idle" /\ at' = "ticks")
  PROVE  TimerOK'
  BY DEF TimerOK, TimeIsShort

\* The initial state.
LEMMA InitInv == Init => IInv
<1> SUFFICES ASSUME Init PROVE TimerOK /\ QueuesOK /\ SetupOK
  BY ThreeParts
<1>1. 0 \in CPU
  BY DeviceAssumption DEF CPU
<1>2. DefaultVector \in Vectors
  BY DeviceAssumption
<1>3. TimerOK
  BY <1>2 DEF Init, NewTimer, TimerOK, TimeIsShort, Timer
<1>4. QueuesOK
  <2>1. pendingVectors \in Seq(Vectors) /\ restored \in BOOLEAN /\ resting \subseteq CPU
    <3>1. <<>> \in Seq(Vectors)
      OBVIOUS
    <3> QED
      BY <3>1 DEF Init
  <2>5. owing \in [Vectors -> Int] /\ pending \in [CPU -> [Vectors -> Nat]]
    BY DEF Init, Nothing
  <2>2. cpuState \in [CPU -> CPUExecutionState]
    BY DEF Init, CPUExecutionState
  <2>3. NoSleepOnInterrupt
    BY DEF Init, NoSleepOnInterrupt
  <2>4. QueuedOnlyUnconnected
    BY DEF Init, QueuedOnlyUnconnected
  <2> QED
    BY <2>1, <2>2, <2>3, <2>4, <2>5 DEF QueuesOK
<1>5. SetupOK
  BY <1>1 DEF Init, SetupOK
<1> QED
  BY <1>3, <1>4, <1>5

-----------------------------------------------------------------------------
(* The CPUs' instructions. *)

\* An instruction leaves the timer to the tick, or writes to it: then either
\* no time is counted any more or the interval is the one it was.
LEMMA ExecuteInv ==
  ASSUME IInv, NEW c \in CPU, Execute(c)
  PROVE  IInv'
<1>1. TimerOK /\ QueuesOK /\ SetupOK
  BY ThreeParts
<1> USE ThreePartsAfter
<1>2. CASE OtherInstruction(c)
  <2>1. TimerOK' /\ QueuesOK'
    BY <1>1, <1>2, TimerUnchanged, QueuesUnchanged
       DEF OtherInstruction, Executes, CanExecute, setup
  <2>2. SetupOK'
    BY <1>1, <1>2 DEF OtherInstruction, Executes, setup, SetupOK
  <2> QED
    BY <2>1, <2>2
<1>3. CASE WriteTimer(c)
  <2>1. QueuesOK'
    BY <1>1, <1>3, QueuesUnchanged DEF WriteTimer, setup
  <2>2. SetupOK'
    BY <1>1, <1>3 DEF WriteTimer, Executes, setup, SetupOK
  <2>3. /\ timer \in Timer /\ at = "idle" /\ at' = "ticks"
        /\ timer.elapsed = 0 \/ timer.elapsed < timer.interval
    BY <1>1, <1>3 DEF WriteTimer, Executes, CanExecute, TimerOK, TimeIsShort
  <2>4. timer' \in Timer /\ (timer'.elapsed = 0 \/ timer'.elapsed < timer'.interval)
    <3>1. ASSUME NEW on \in BOOLEAN, NEW again \in BOOLEAN,
                 timer' = [timer EXCEPT !.enabled = on, !.periodic = again,
                                        !.elapsed = IF on THEN @ ELSE 0]
          PROVE  timer' \in Timer /\ (timer'.elapsed = 0 \/ timer'.elapsed < timer'.interval)
      BY <2>3, <3>1 DEF Timer
    <3>2. ASSUME NEW n \in Intervals,
                 timer' = [timer EXCEPT !.interval = n, !.elapsed = 0]
          PROVE  timer' \in Timer /\ (timer'.elapsed = 0 \/ timer'.elapsed < timer'.interval)
      BY <2>3, <3>2, DeviceAssumption DEF Timer
    <3>3. ASSUME NEW v \in Programmed, timer' = [timer EXCEPT !.vector = v]
          PROVE  timer' \in Timer /\ (timer'.elapsed = 0 \/ timer'.elapsed < timer'.interval)
      BY <2>3, <3>3, DeviceAssumption DEF Timer
    <3> QED
      BY <1>3, <3>1, <3>2, <3>3 DEF WriteTimer
  <2>5. TimerOK'
    BY <2>3, <2>4 DEF TimerOK, TimeIsShort
  <2> QED
    BY <2>1, <2>2, <2>5
<1>4. CASE WriteLid(c)
  <2>1. QueuesOK'
    BY <1>1, <1>4, QueuesUnchanged DEF WriteLid
  <2>2. TimerOK'
    BY <1>1, <1>4, TimerUnchanged DEF WriteLid, Executes, CanExecute
  <2>3. SetupOK'
    BY <1>1, <1>4 DEF WriteLid, Executes, SetupOK
  <2> QED
    BY <2>1, <2>2, <2>3
<1>5. CASE HaltCPU(c)
  <2>1. TimerOK'
    BY <1>1, <1>5, TimerUnchanged DEF HaltCPU
  <2>2. SetupOK'
    BY <1>1, <1>5 DEF HaltCPU, SetupOK, setup
  <2>3. NoSleepOnInterrupt'
    BY <1>1, <1>5 DEF HaltCPU, QueuesOK, NoSleepOnInterrupt, Nothing, ghosts
  <2>4. QueuesOK'
    BY <1>1, <1>5, <2>3 DEF HaltCPU, QueuesOK, QueuedOnlyUnconnected, setup, ghosts,
                            CPUExecutionState
  <2> QED
    BY <2>1, <2>2, <2>4
<1>6. ASSUME NEW v \in Vectors, TakeInterrupt(c, v)
      PROVE  IInv'
  <2>1. TimerOK'
    BY <1>1, <1>6, TimerUnchanged DEF TakeInterrupt, Executes, CanExecute
  <2>2. SetupOK'
    BY <1>1, <1>6 DEF TakeInterrupt, Executes, SetupOK, setup
  <2>3. pending' \in [CPU -> [Vectors -> Nat]]
    BY <1>1, <1>6 DEF TakeInterrupt, QueuesOK
  <2>4. NoSleepOnInterrupt'
    <3> SUFFICES ASSUME NEW d \in CPU, cpuState'[d] = "WAITING", d \notin resting'
                 PROVE  pending'[d] = Nothing
      BY DEF NoSleepOnInterrupt, Nothing
    <3>1. d # c /\ cpuState[d] = "WAITING" /\ d \notin resting
      BY <1>6 DEF TakeInterrupt, Executes, CanExecute
    <3>2. pending'[d] = pending[d]
      BY <1>1, <1>6, <3>1 DEF TakeInterrupt, QueuesOK
    <3> QED
      BY <1>1, <3>1, <3>2 DEF QueuesOK, NoSleepOnInterrupt
  <2>5. owing' \in [Vectors -> Int]
    BY <1>1, <1>6 DEF TakeInterrupt, Owe, QueuesOK
  <2>6. QueuesOK'
    BY <1>1, <1>6, <2>3, <2>4, <2>5 DEF TakeInterrupt, QueuesOK, QueuedOnlyUnconnected, setup
  <2> QED
    BY <2>1, <2>2, <2>6
<1>7. ASSUME NEW v \in Vectors, NEW l \in CPU, SendInterrupt(c, l, v)
      PROVE  IInv'
  <2> DEFINE to == Addressed(l)
  <2>1. TimerOK'
    BY <1>1, <1>7, TimerUnchanged DEF SendInterrupt, Executes, CanExecute
  <2>2. SetupOK'
    BY <1>1, <1>7 DEF SendInterrupt, Executes, SetupOK, setup
  <2>3. /\ pending' = [d \in CPU |-> IF d \in to /\ Listed(v)
                                     THEN [pending[d] EXCEPT ![v] = @ + 1] ELSE pending[d]]
        /\ cpuState' = [d \in CPU |-> IF d \in to /\ cpuState[d] = "WAITING"
                                      THEN "RUNNING" ELSE cpuState[d]]
        /\ IF to = {} THEN UNCHANGED owing ELSE Owe(v, 1)
        /\ resting' = resting \ to
    BY <1>7 DEF SendInterrupt
  <2> HIDE DEF to
  <2>4. pending' \in [CPU -> [Vectors -> Nat]]
    BY <1>1, <2>3 DEF QueuesOK
  <2>5. NoSleepOnInterrupt'
    <3> SUFFICES ASSUME NEW d \in CPU, cpuState'[d] = "WAITING", d \notin resting'
                 PROVE  pending'[d] = Nothing
      BY DEF NoSleepOnInterrupt, Nothing
    <3>1. d \notin to /\ cpuState[d] = "WAITING" /\ d \notin resting
      BY <2>3
    <3>2. pending'[d] = pending[d]
      BY <2>3, <3>1
    <3> QED
      BY <1>1, <3>1, <3>2 DEF QueuesOK, NoSleepOnInterrupt
  <2>6. owing' \in [Vectors -> Int]
    BY <1>1, <2>3 DEF Owe, QueuesOK
  <2>7. cpuState' \in [CPU -> CPUExecutionState]
    BY <1>1, <2>3 DEF QueuesOK, CPUExecutionState
  <2>8. QueuesOK'
    BY <1>1, <1>7, <2>3, <2>4, <2>5, <2>6, <2>7
       DEF SendInterrupt, QueuesOK, QueuedOnlyUnconnected, setup
  <2> QED
    BY <2>1, <2>2, <2>8
<1> QED
  BY <1>2, <1>3, <1>4, <1>5, <1>6, <1>7 DEF Execute

-----------------------------------------------------------------------------
(* The rest of stepCPU(). *)

\* A tick counts its cycles and fires for the first time, or is over.
LEMMA TickInv ==
  ASSUME IInv, Tick
  PROVE  IInv'
<1>1. TimerOK /\ QueuesOK /\ SetupOK
  BY ThreeParts
<1>2. QueuesOK'
  BY <1>1, QueuesUnchanged DEF Tick, setup
<1>3. SetupOK'
  BY <1>1 DEF Tick, SetupOK, setup
<1>4. TimerOK'
  <2>1. CASE timer.enabled /\ timer.interval > 0
    <3>1. PICK n \in 1 .. MaxTick : TickLoop([timer EXCEPT !.elapsed = @ + n])
      BY <2>1 DEF Tick
    <3>2. MaxTick \in Nat /\ n \in Nat
      BY DeviceAssumption
    <3> DEFINE t == [timer EXCEPT !.elapsed = @ + n]
    <3>3. t \in Timer /\ t.enabled /\ t.interval > 0
      BY <1>1, <2>1, <3>2 DEF TimerOK, Timer
    <3>4. TickLoop(t)
      BY <3>1
    <3> HIDE DEF t
    <3> QED
      BY <3>3, <3>4, LoopHead
  <2>2. CASE ~(timer.enabled /\ timer.interval > 0)
    BY <1>1, <2>2 DEF Tick, TimerOK, TimeIsShort
  <2> QED
    BY <2>1, <2>2
<1> QED
  BY <1>2, <1>3, <1>4, ThreePartsAfter

\* The callback sets the timer up anew with no time counted, or leaves it.
LEMMA TimerCallbackInv ==
  ASSUME IInv, TimerCallback
  PROVE  IInv'
<1>1. TimerOK /\ QueuesOK /\ SetupOK
  BY ThreeParts
<1>2. QueuesOK'
  BY <1>1, QueuesUnchanged DEF TimerCallback, setup
<1>3. SetupOK'
  BY <1>1 DEF TimerCallback, SetupOK, setup
<1>4. TimerOK'
  <2>1. CASE UNCHANGED timer
    BY <1>1, <2>1 DEF TimerCallback, TimerOK, TimeIsShort
  <2>2. ASSUME NEW n \in Intervals, NEW v \in Programmed,
               NEW again \in BOOLEAN, NEW on \in BOOLEAN,
               timer' = [interval |-> n, elapsed |-> 0, vector |-> v,
                         enabled |-> on, periodic |-> again]
        PROVE  TimerOK'
    <3>1. timer' \in Timer /\ timer'.elapsed = 0
      BY <2>2, DeviceAssumption DEF Timer
    <3> QED
      BY <3>1 DEF TimerCallback, TimerOK, TimeIsShort
  <2> QED
    BY <2>1, <2>2 DEF TimerCallback
<1> QED
  BY <1>2, <1>3, <1>4, ThreePartsAfter

\* The controller is told, and the tick goes on with a timer that is still on
\* or has no time counted any more.
LEMMA TickDeliversInv ==
  ASSUME IInv, TickDelivers
  PROVE  IInv'
<1>1. TimerOK /\ QueuesOK /\ SetupOK
  BY ThreeParts
<1>2. timer \in Timer /\ timer.vector \in Vectors
  BY <1>1 DEF TimerOK, Timer
<1>3. QueuesOK'
  BY <1>1, <1>2, Raising DEF TickDelivers, setup
<1>4. SetupOK'
  BY <1>1 DEF TickDelivers, SetupOK, setup
<1> DEFINE t == IF timer.periodic THEN timer
                ELSE [timer EXCEPT !.enabled = FALSE, !.elapsed = 0]
<1>5. t \in Timer /\ ((t.enabled /\ t.interval > 0) \/ t.elapsed = 0)
  BY <1>1, <1>2 DEF TickDelivers, TimerOK, TimeIsShort, Timer
<1>6. TickLoop(t)
  BY DEF TickDelivers
<1> HIDE DEF t
<1>7. TimerOK'
  BY <1>5, <1>6, LoopHead
<1> QED
  BY <1>3, <1>4, <1>7, ThreePartsAfter

-----------------------------------------------------------------------------
(* The owner. *)

\* A restored queue holds vectors, and each of them as often as it is owed.
LEMMA QueueRestored ==
  ASSUME QueuesOK, NEW S \in SUBSET Vectors, RestoreQueue(S)
  PROVE  /\ pendingVectors' \in Seq(Vectors)
         /\ owing' \in [Vectors -> Int]
         /\ owing' = [v \in Vectors |-> owing[v] + IF Listed(v)
                       THEN Count(pendingVectors')[v] - Count(pendingVectors)[v] ELSE 0]
<1>1. PICK q \in [1 .. Cardinality(S) -> S] :
        /\ pendingVectors' = q
        /\ owing' = [v \in Vectors |-> owing[v] + IF Listed(v)
                       THEN Count(q)[v] - Count(pendingVectors)[v] ELSE 0]
  BY DEF RestoreQueue
<1>2. Cardinality(S) \in Nat
  <2>1. S \subseteq 0 .. 255
    BY DeviceAssumption
  <2> QED
    BY <2>1, ByteSets
<1>3. q \in Seq(Vectors)
  BY <1>2
<1>4. Count(q) \in [Vectors -> Nat] /\ Count(pendingVectors) \in [Vectors -> Nat]
  BY <1>3, CountType DEF QueuesOK
<1>5. owing' \in [Vectors -> Int]
  BY <1>1, <1>4 DEF QueuesOK
<1> QED
  BY <1>1, <1>3, <1>5

\* The CPUs of a snapshot come back beside the lists of now: the ones that
\* sleep on an interrupt are those that rest.
LEMMA CPUsRestored ==
  ASSUME QueuesOK, SetupOK, NEW m \in Machines, RestoreCPUs(m),
         pendingVectors' \in Seq(Vectors), owing' \in [Vectors -> Int],
         restored' = TRUE \/ UNCHANGED <<pendingVectors, restored>>
  PROVE  QueuesOK' /\ SetupOK'
<1>1. m \in Machine
  BY MachinesAssumption
<1>2. /\ cpuState' = m.cpuState /\ lid' = m.lid /\ active' = m.active
      /\ resting' = {c \in CPU : m.cpuState[c] = "WAITING" /\ pending[c] # Nothing}
      /\ pending' = pending /\ connected' = connected
  BY DEF RestoreCPUs
<1>3. cpuState' \in [CPU -> CPUExecutionState] /\ lid' \in [CPU -> CPU] /\ active' \in CPU
  BY <1>1, <1>2 DEF Machine
<1>4. NoSleepOnInterrupt'
  BY <1>2 DEF NoSleepOnInterrupt, Nothing
<1>5. QueuedOnlyUnconnected' /\ restored' \in BOOLEAN
  BY <1>2 DEF QueuedOnlyUnconnected, QueuesOK
<1>6. resting' \subseteq CPU /\ pending' \in [CPU -> [Vectors -> Nat]]
  BY <1>2 DEF QueuesOK
<1> QED
  BY <1>2, <1>3, <1>4, <1>5, <1>6 DEF QueuesOK, SetupOK

LEMMA OwnerInv ==
  ASSUME IInv, Owner
  PROVE  IInv'
<1>1. TimerOK /\ QueuesOK /\ SetupOK
  BY ThreeParts
<1> USE ThreePartsAfter
<1>2. ASSUME NEW c \in CPU, StartCPU(c)
      PROVE  IInv'
  <2>1. TimerOK' /\ SetupOK'
    BY <1>1, <1>2, TimerUnchanged DEF StartCPU, SetupOK, setup
  <2>2. NoSleepOnInterrupt'
    BY <1>1, <1>2 DEF StartCPU, QueuesOK, NoSleepOnInterrupt, Nothing, ghosts
  <2>3. QueuesOK'
    BY <1>1, <1>2, <2>2 DEF StartCPU, QueuesOK, QueuedOnlyUnconnected, setup, ghosts,
                            CPUExecutionState
  <2> QED
    BY <2>1, <2>3
<1>3. ASSUME NEW c \in CPU, ParkCPU(c)
      PROVE  IInv'
  <2>1. TimerOK' /\ SetupOK'
    BY <1>1, <1>3, TimerUnchanged DEF ParkCPU, SetupOK, setup
  <2>2. NoSleepOnInterrupt'
    BY <1>1, <1>3 DEF ParkCPU, QueuesOK, NoSleepOnInterrupt, Nothing, ghosts
  <2>3. QueuesOK'
    BY <1>1, <1>3, <2>2 DEF ParkCPU, QueuesOK, QueuedOnlyUnconnected, setup, ghosts,
                            CPUExecutionState
  <2> QED
    BY <2>1, <2>3
<1>4. ASSUME NEW c \in CPU, SetActiveCPU(c)
      PROVE  IInv'
  <2>1. TimerOK' /\ QueuesOK'
    BY <1>1, <1>4, TimerUnchanged, QueuesUnchanged DEF SetActiveCPU, setup
  <2>2. SetupOK'
    BY <1>1, <1>4 DEF SetActiveCPU, SetupOK, setup
  <2> QED
    BY <2>1, <2>2
<1>5. ASSUME NEW v \in Vectors, OwnerRaises(v)
      PROVE  IInv'
  <2>1. TimerOK' /\ SetupOK'
    BY <1>1, <1>5, TimerUnchanged DEF OwnerRaises, SetupOK, setup
  <2>2. QueuesOK'
    BY <1>1, <1>5, Raising DEF OwnerRaises, setup
  <2> QED
    BY <2>1, <2>2
<1>6. ASSUME NEW callback \in BOOLEAN, RegisterDeliveryCallback(callback)
      PROVE  IInv'
  <2>1. TimerOK' /\ SetupOK'
    BY <1>1, <1>6, TimerUnchanged DEF RegisterDeliveryCallback, SetupOK
  <2>2. pendingVectors \in Seq(Vectors) /\ owing' \in [Vectors -> Int]
    BY <1>1, <1>6 DEF RegisterDeliveryCallback, QueuesOK
  <2>3. QueuesOK'
    BY <1>1, <1>6, <2>2, Delivery DEF RegisterDeliveryCallback
  <2> QED
    BY <2>1, <2>3
<1>7. CASE GetNextPendingInterrupt
  <2>1. TimerOK' /\ SetupOK'
    BY <1>1, <1>7, TimerUnchanged DEF GetNextPendingInterrupt, SetupOK, setup
  <2>2. pendingVectors \in Seq(Vectors) /\ pendingVectors # <<>>
    BY <1>1, <1>7 DEF GetNextPendingInterrupt, QueuesOK
  <2>3. pendingVectors' \in Seq(Vectors)
    BY <1>7, <2>2 DEF GetNextPendingInterrupt
  <2>4. owing' \in [Vectors -> Int]
    BY <1>1, <1>7 DEF GetNextPendingInterrupt, Owe, QueuesOK
  <2>5. QueuedOnlyUnconnected'
    BY <1>1, <1>7, <2>2 DEF GetNextPendingInterrupt, QueuesOK, QueuedOnlyUnconnected, setup
  <2>6. NoSleepOnInterrupt'
    BY <1>1, <1>7 DEF GetNextPendingInterrupt, QueuesOK, NoSleepOnInterrupt, Nothing
  <2>7. QueuesOK'
    BY <1>1, <1>7, <2>3, <2>4, <2>5, <2>6 DEF GetNextPendingInterrupt, QueuesOK
  <2> QED
    BY <2>1, <2>7
<1>8. ASSUME NEW m \in Machines, RestoreSnapshot(m)
      PROVE  IInv'
  <2>1. TimerOK'
    BY <1>1, <1>8, TimerUnchanged DEF RestoreSnapshot, RestoreCPUs
  <2>2. /\ pendingVectors' \in Seq(Vectors) /\ owing' \in [Vectors -> Int]
        /\ UNCHANGED <<pendingVectors, restored>>
    BY <1>1, <1>8 DEF RestoreSnapshot, QueuesOK
  <2>3. QueuesOK' /\ SetupOK'
    BY <1>1, <1>8, <2>2, CPUsRestored DEF RestoreSnapshot
  <2> QED
    BY <2>1, <2>3
<1>9. ASSUME NEW m \in Machines, RestoreVMSnapshot(m)
      PROVE  IInv'
  <2>1. TimerOK'
    BY <1>1, <1>9, MachinesAssumption
       DEF RestoreVMSnapshot, RestoreCPUs, Idle, TimerOK, TimeIsShort, Machine
  <2>2. m.queue \subseteq Vectors /\ restored' = TRUE
    BY <1>9, MachinesAssumption DEF RestoreVMSnapshot, RestoreQueue, Machine
  <2>3. pendingVectors' \in Seq(Vectors) /\ owing' \in [Vectors -> Int]
    BY <1>1, <1>9, <2>2, QueueRestored DEF RestoreVMSnapshot
  <2>4. QueuesOK' /\ SetupOK'
    BY <1>1, <1>9, <2>2, <2>3, CPUsRestored DEF RestoreVMSnapshot
  <2> QED
    BY <2>1, <2>4
<1>10. CASE Reset
  <2>1. 0 \in CPU /\ DefaultVector \in Vectors
    BY DeviceAssumption DEF CPU
  <2>2. TimerOK'
    BY <1>10, <2>1 DEF Reset, NewTimer, TimerOK, TimeIsShort, Timer, Idle
  <2>3. SetupOK'
    BY <1>1, <1>10, <2>1 DEF Reset, SetupOK
  <2>4. pendingVectors' \in Seq(Vectors) /\ restored' \in BOOLEAN /\ resting' \subseteq CPU
    <3>1. <<>> \in Seq(Vectors)
      OBVIOUS
    <3> QED
      BY <1>10, <3>1 DEF Reset
  <2>5. owing' \in [Vectors -> Int] /\ pending' \in [CPU -> [Vectors -> Nat]]
    BY <1>10 DEF Reset, Nothing
  <2>6. cpuState' \in [CPU -> CPUExecutionState]
    BY <1>10 DEF Reset, CPUExecutionState
  <2>7. NoSleepOnInterrupt' /\ QueuedOnlyUnconnected'
    BY <1>10 DEF Reset, NoSleepOnInterrupt, QueuedOnlyUnconnected, Nothing
  <2>8. QueuesOK'
    BY <2>4, <2>5, <2>6, <2>7 DEF QueuesOK
  <2> QED
    BY <2>2, <2>3, <2>8
<1> QED
  BY <1>2, <1>3, <1>4, <1>5, <1>6, <1>7, <1>8, <1>9, <1>10 DEF Owner

-----------------------------------------------------------------------------
(* The theorems. *)

\* Nothing changes: IInv stays.
LEMMA StutterInv ==
  ASSUME IInv, UNCHANGED vars
  PROVE  IInv'
<1>1. TimerOK' /\ QueuesOK' /\ SetupOK'
  <2>1. TimerOK /\ QueuesOK /\ SetupOK
    BY ThreeParts
  <2> QED
    BY <2>1, TimerUnchanged, QueuesUnchanged DEF vars, setup, SetupOK
<1> QED
  BY <1>1, ThreePartsAfter

\* IInv is inductive.
THEOREM Inductive == Spec => []IInv
<1>1. IInv /\ [Next]_vars => IInv'
  BY ExecuteInv, TickInv, TimerCallbackInv, TickDeliversInv, OwnerInv, StutterInv
     DEF Next, Step
<1> QED
  BY InitInv, <1>1, PTL DEF Spec

\* Every variable keeps its type, and between two calls less time has passed
\* than the timer's interval: a tick raises every interrupt that is due
\* (VirtualTimer::Tick).
THEOREM TypeCorrect == Spec => []TypeOK
<1>1. IInv => TypeOK
  BY DEF IInv
<1> QED
  BY Inductive, <1>1, PTL

\* No CPU sleeps with an interrupt in its list, but one that a restore put to
\* sleep on it and that was sent none since (the callbacks VirtualMachine gives
\* to the interrupt block and the controller, and its two restores).
THEOREM NobodySleeps == Spec => []NoSleepOnInterrupt
<1>1. IInv => NoSleepOnInterrupt
  BY DEF IInv
<1> QED
  BY Inductive, <1>1, PTL

\* A controller that has its callback keeps nothing back
\* (BasicInterruptController::DeliverPending).
THEOREM NothingKeptBack == Spec => []QueuedOnlyUnconnected
<1>1. IInv => QueuedOnlyUnconnected
  BY DEF IInv
<1> QED
  BY Inductive, <1>1, PTL

-----------------------------------------------------------------------------
(* How many of a vector are in the CPUs' lists: sums over sets of CPUs *)

InLists(p, v, S) == MapThenSumSet(LAMBDA c : p[c][v], S)

Pick(s) == CHOOSE x \in s : TRUE

(* One step of the sum, when R is what it gives for smaller sets. *)
Adds(p, v, R, s) == IF s = {} THEN 0 ELSE p[Pick(s)][v] + R[s \ {Pick(s)}]

Sums(p, v, S) == CHOOSE R : R = [s \in SUBSET S |-> Adds(p, v, R, s)]

LEMMA InListsIsSum ==
  ASSUME NEW p, NEW v, NEW S
  PROVE  InLists(p, v, S) = Sums(p, v, S)[S]
BY Zenon DEF InLists, MapThenSumSet, MapThenFoldSet, Sums, Adds, Pick

LEMMA PickFrom == \A s : s # {} => Pick(s) \in s
BY DEF Pick

\* Among sets of CPUs there is one that holds no other.
LEMMA SmallestSet ==
  ASSUME NEW S, IsFiniteSet(S), NEW B, B \subseteq SUBSET S, B # {}
  PROVE  \E s \in B : \A t \in B : t \subseteq s => t = s
<1>1. B \subseteq FiniteSubsetsOf(S)
  BY FS_Subset DEF FiniteSubsetsOf
<1>2. IsWellFoundedOn(StrictSubsetOrdering(S), FiniteSubsetsOf(S))
  BY FS_StrictSubsetOrderingWellFounded
<1>3. PICK s \in B : \A t \in B : <<t, s>> \notin StrictSubsetOrdering(S)
  BY <1>1, <1>2, WFMin
<1>4. ASSUME NEW t \in B, t \subseteq s, t # s
      PROVE  FALSE
  BY <1>3, <1>4 DEF StrictSubsetOrdering
<1> QED
  BY <1>4

LEMMA SumsExist ==
  ASSUME NEW p, NEW v, NEW S, IsFiniteSet(S)
  PROVE  \E R : R = [s \in SUBSET S |-> Adds(p, v, R, s)]
<1> DEFINE Small(k) == {s \in SUBSET S : Cardinality(s) <= k}
           Exists(k) == \E R : R = [s \in Small(k) |-> Adds(p, v, R, s)]
           n == Cardinality(S)
           Without == {k \in 0 .. n : ~Exists(k)}
<1>1. n \in Nat /\ \A s \in SUBSET S : IsFiniteSet(s) /\ Cardinality(s) \in 0 .. n
  BY FS_Subset, FS_CardinalityType
<1>2. ASSUME NEW s \in SUBSET S, s # {}
      PROVE  /\ s \ {Pick(s)} \in SUBSET S
             /\ Cardinality(s \ {Pick(s)}) = Cardinality(s) - 1
  BY <1>1, <1>2, PickFrom, FS_RemoveElement
<1>3. Exists(0)
  <2> DEFINE R == [s \in Small(0) |-> 0]
  <2>1. \A s \in Small(0) : s = {}
    BY <1>1, FS_EmptySet
  <2>2. R = [s \in Small(0) |-> Adds(p, v, R, s)]
    BY <2>1 DEF Adds
  <2> QED
    BY <2>2
<1>4. ASSUME NEW k \in 1 .. n, Exists(k - 1)
      PROVE  Exists(k)
  <2>1. PICK R : R = [s \in Small(k - 1) |-> Adds(p, v, R, s)]
    BY <1>4
  <2> DEFINE Q == [s \in Small(k) |-> Adds(p, v, R, s)]
  <2>2. \A s \in Small(k - 1) : s \in Small(k) /\ Q[s] = R[s]
    BY <1>1, <2>1
  <2>3. ASSUME NEW s \in Small(k)
        PROVE  Adds(p, v, R, s) = Adds(p, v, Q, s)
    <3>1. s # {} => s \ {Pick(s)} \in Small(k - 1)
      BY <1>1, <1>2
    <3> QED
      BY <2>2, <3>1 DEF Adds
  <2>4. Q = [s \in Small(k) |-> Adds(p, v, Q, s)]
    BY <2>3
  <2> QED
    BY <2>4
<1>5. Without = {}
  <2> SUFFICES ASSUME Without # {}
               PROVE  FALSE
    OBVIOUS
  <2>1. IsFiniteSet(Without) /\ Without \subseteq Int
    <3> HIDE DEF Exists
    <3>1. IsFiniteSet(0 .. n) /\ Without \in SUBSET (0 .. n) /\ 0 .. n \subseteq Int
      BY <1>1, FS_Interval
    <3> HIDE DEF Without
    <3> QED
      BY <3>1, FS_Subset
  <2>2. PICK m \in Without : \A k \in Without : m <= k
    <3> HIDE DEF Without
    <3> QED
      BY <2>1, LeastElement
  <2>3. m \in 0 .. n /\ ~Exists(m)
    OBVIOUS
  <2> HIDE DEF Exists, n
  <2>4. m # 0
    BY <1>3, <2>3
  <2>5. m \in 1 .. n /\ m - 1 \in 0 .. n /\ ~(m <= m - 1)
    BY <1>1, <2>3, <2>4
  <2>6. Exists(m - 1)
    BY <2>2, <2>5
  <2> QED
    BY <1>4, <2>3, <2>5, <2>6
<1>6. Exists(n)
  <2>1. n \in 0 .. n
    BY <1>1
  <2> HIDE DEF Exists, n
  <2> QED
    BY <1>5, <2>1
<1>7. Small(n) = SUBSET S
  BY <1>1
<1> QED
  BY <1>6, <1>7

LEMMA SumsStep ==
  ASSUME NEW p, NEW v, NEW S, IsFiniteSet(S), NEW s \in SUBSET S
  PROVE  Sums(p, v, S)[s] = Adds(p, v, Sums(p, v, S), s)
<1>1. Sums(p, v, S) = [t \in SUBSET S |-> Adds(p, v, Sums(p, v, S), t)]
  BY SumsExist DEF Sums
<1> QED
  BY <1>1

\* A change at one CPU changes the sum by as much.
LEMMA OneMore ==
  ASSUME NEW p, NEW q, NEW v, NEW S, IsFiniteSet(S), NEW c \in S, NEW n \in Int,
         \A d \in S : p[d][v] \in Int,
         \A d \in S \ {c} : q[d][v] = p[d][v],
         q[c][v] = p[c][v] + n
  PROVE  InLists(p, v, S) \in Int /\ InLists(q, v, S) = InLists(p, v, S) + n
<1> DEFINE P == Sums(p, v, S)
           Q == Sums(q, v, S)
           Right(s) == P[s] \in Int /\ Q[s] = P[s] + (IF c \in s THEN n ELSE 0)
           Wrong == {s \in SUBSET S : ~Right(s)}
<1> HIDE DEF P, Q
<1>1. \A s \in SUBSET S : P[s] = Adds(p, v, P, s) /\ Q[s] = Adds(q, v, Q, s)
  BY SumsStep DEF P, Q
<1>2. ASSUME NEW s \in SUBSET S, s = {} \/ Right(s \ {Pick(s)})
      PROVE  Right(s)
  <2>1. CASE s = {}
    <3>1. P[s] = 0 /\ Q[s] = 0
      BY <1>1, <2>1 DEF Adds
    <3>2. c \notin s
      BY <2>1
    <3> QED
      BY <3>1, <3>2
  <2>2. CASE s # {}
    <3> DEFINE x == Pick(s)
               t == s \ {x}
    <3>1. x \in s /\ x \in S
      BY <2>2, PickFrom
    <3> HIDE DEF x
    <3>2. P[s] = p[x][v] + P[t] /\ Q[s] = q[x][v] + Q[t]
      BY <1>1, <2>2 DEF Adds, x
    <3>3. Right(t)
      BY <1>2, <2>2 DEF x
    <3>4. P[t] \in Int /\ p[x][v] \in Int
      BY <3>1, <3>3
    <3>5. CASE x = c
      <4>1. c \in s /\ c \notin t
        BY <3>1, <3>5
      <4> QED
        BY <3>2, <3>3, <3>4, <3>5, <4>1
    <3>6. CASE x # c
      <4>1. c \in s <=> c \in t
        BY <3>6
      <4>2. q[x][v] = p[x][v]
        BY <3>1, <3>6
      <4> QED
        BY <3>2, <3>3, <3>4, <4>1, <4>2
    <3> QED
      BY <3>5, <3>6
  <2> QED
    BY <2>1, <2>2
<1>3. Wrong = {}
  <2> SUFFICES ASSUME Wrong # {}
               PROVE  FALSE
    OBVIOUS
  <2>1. PICK s \in Wrong : \A t \in Wrong : t \subseteq s => t = s
    <3>1. Wrong \subseteq SUBSET S
      OBVIOUS
    <3> HIDE DEF Wrong
    <3> QED
      BY <3>1, SmallestSet
  <2> HIDE DEF Right
  <2>2. s # {} /\ s \ {Pick(s)} \notin Wrong
    BY <1>2, <2>1, PickFrom
  <2> QED
    BY <1>2, <2>1, <2>2
<1>4. Right(S)
  <2> HIDE DEF Right
  <2> QED
    BY <1>3
<1> QED
  BY <1>4, InListsIsSum DEF P, Q

\* Empty lists add up to nothing.
LEMMA NothingInLists ==
  ASSUME NEW p, NEW v, NEW S, IsFiniteSet(S), \A d \in S : p[d][v] = 0
  PROVE  InLists(p, v, S) = 0
<1> DEFINE P == Sums(p, v, S)
           Wrong == {s \in SUBSET S : P[s] # 0}
<1> HIDE DEF P
<1>1. \A s \in SUBSET S : P[s] = Adds(p, v, P, s)
  BY SumsStep DEF P
<1>2. Wrong = {}
  <2> SUFFICES ASSUME Wrong # {}
               PROVE  FALSE
    OBVIOUS
  <2>1. PICK s \in Wrong : \A t \in Wrong : t \subseteq s => t = s
    <3>1. Wrong \subseteq SUBSET S
      OBVIOUS
    <3> HIDE DEF Wrong
    <3> QED
      BY <3>1, SmallestSet
  <2>2. P[s] = Adds(p, v, P, s) /\ P[s] # 0
    BY <1>1, <2>1
  <2>3. s # {} /\ Pick(s) \in s
    BY <2>2, PickFrom DEF Adds
  <2>4. P[s \ {Pick(s)}] = 0 /\ p[Pick(s)][v] = 0
    BY <2>1, <2>3
  <2> QED
    BY <2>2, <2>3, <2>4 DEF Adds
<1> QED
  BY <1>2, InListsIsSum DEF P

-----------------------------------------------------------------------------
(* How many of a vector are in the queue *)

LEMMA CountOf ==
  ASSUME NEW q, NEW v \in Vectors
  PROVE  Count(q)[v] = Cardinality({i \in DOMAIN q : q[i] = v})
BY DEF Count

LEMMA CountEmpty == \A v \in Vectors : Count(<<>>)[v] = 0
<1> SUFFICES ASSUME NEW v \in Vectors
             PROVE  Count(<<>>)[v] = 0
  OBVIOUS
<1>1. {i \in DOMAIN <<>> : <<>>[i] = v} = {}
  OBVIOUS
<1>2. Count(<<>>)[v] = Cardinality({i \in DOMAIN <<>> : <<>>[i] = v})
  BY CountOf
<1> QED
  BY <1>1, <1>2, FS_EmptySet

LEMMA CountAppend ==
  ASSUME NEW q \in Seq(Vectors), NEW w \in Vectors, NEW v \in Vectors
  PROVE  Count(Append(q, w))[v] = Count(q)[v] + (IF v = w THEN 1 ELSE 0)
<1> DEFINE n == Len(q)
           r == Append(q, w)
           A == {i \in DOMAIN q : q[i] = v}
           B == {i \in DOMAIN r : r[i] = v}
<1>1. /\ n \in Nat /\ DOMAIN q = 1 .. n /\ DOMAIN r = 1 .. (n + 1)
      /\ r[n + 1] = w /\ \A i \in 1 .. n : r[i] = q[i]
  OBVIOUS
<1>2. IsFiniteSet(A) /\ n + 1 \notin A
  <2>1. IsFiniteSet(1 .. n) /\ A \in SUBSET (1 .. n)
    BY <1>1, FS_Interval
  <2>2. n + 1 \notin 1 .. n
    BY <1>1
  <2> QED
    BY <2>1, <2>2, FS_Subset
<1>3. B = IF v = w THEN A \cup {n + 1} ELSE A
  <2> HIDE DEF n, r
  <2>1. 1 .. (n + 1) = 1 .. n \cup {n + 1}
    BY <1>1
  <2> QED
    BY <1>1, <2>1
<1>4. Cardinality(B) = Cardinality(A) + (IF v = w THEN 1 ELSE 0) /\ Cardinality(A) \in Nat
  <2> HIDE DEF A, B, n
  <2> QED
    BY <1>2, <1>3, FS_AddElement, FS_CardinalityType
<1>5. Count(q)[v] = Cardinality(A) /\ Count(r)[v] = Cardinality(B)
  BY CountOf
<1> HIDE DEF A, B, r
<1> QED
  BY <1>4, <1>5 DEF r

LEMMA CountTail ==
  ASSUME NEW q \in Seq(Vectors), q # <<>>, NEW v \in Vectors
  PROVE  Count(Tail(q))[v] = Count(q)[v] + (IF v = Head(q) THEN -1 ELSE 0)
<1> DEFINE n == Len(q)
           r == Tail(q)
           A == {i \in DOMAIN q : q[i] = v}
           B == {i \in DOMAIN r : r[i] = v}
           C == {i \in 2 .. n : q[i] = v}
<1>1. /\ n \in Nat \ {0} /\ DOMAIN q = 1 .. n /\ DOMAIN r = 1 .. (n - 1)
      /\ Head(q) = q[1] /\ \A i \in 1 .. (n - 1) : r[i] = q[i + 1]
  OBVIOUS
<1>2. IsFiniteSet(C) /\ IsFiniteSet(B)
  <2>1. IsFiniteSet(2 .. n) /\ IsFiniteSet(1 .. (n - 1))
    BY <1>1, FS_Interval
  <2>2. C \in SUBSET (2 .. n) /\ B \in SUBSET (1 .. (n - 1))
    BY <1>1
  <2> HIDE DEF B, C, n
  <2> QED
    BY <2>1, <2>2, FS_Subset
<1>3. A = IF v = Head(q) THEN C \cup {1} ELSE C
  <2> HIDE DEF n
  <2>1. 1 .. n = 2 .. n \cup {1} /\ 1 \notin 2 .. n
    BY <1>1
  <2> QED
    BY <1>1, <2>1
<1>4. 1 \notin C
  BY <1>1
<1>5. Cardinality(C) = Cardinality(B)
  <2> DEFINE f == [i \in B |-> i + 1]
  <2> HIDE DEF n, r
  <2>1. \A i \in B : i \in 1 .. (n - 1) /\ i + 1 \in C
    BY <1>1
  <2>2. \A j \in C : j - 1 \in B /\ (j - 1) + 1 = j
    BY <1>1
  <2>3. f \in [B -> C]
    BY <2>1
  <2>4. \A i, j \in B : f[i] = f[j] => i = j
    BY <1>1, <2>1
  <2>5. \A j \in C : \E i \in B : f[i] = j
    BY <2>2
  <2> HIDE DEF B, C, f
  <2>6. f \in Bijection(B, C)
    BY <2>3, <2>4, <2>5 DEF Bijection, Injection, Surjection, IsInjective
  <2> QED
    BY <1>2, <2>6, FS_Bijection DEF ExistsBijection
<1>6. Cardinality(B) = Cardinality(A) + (IF v = Head(q) THEN -1 ELSE 0) /\ Cardinality(B) \in Nat
  <2> HIDE DEF A, B, C, r, n
  <2>1. Cardinality(C) \in Nat /\ Cardinality(C \cup {1}) = Cardinality(C) + 1
    BY <1>2, <1>4, FS_AddElement, FS_CardinalityType
  <2>2. CASE v = Head(q)
    BY <1>3, <1>5, <2>1, <2>2
  <2>3. CASE v # Head(q)
    BY <1>3, <1>5, <2>1, <2>3
  <2> QED
    BY <2>2, <2>3
<1> QED
  BY <1>6, CountOf

-----------------------------------------------------------------------------
(* Every interrupt is somewhere *)

Balanced(v) == owing[v] = Count(pendingVectors)[v] + InLists(pending, v, CPU)

LEMMA BalancedProperty ==
  /\ NoneLostOrDoubled <=> \A v \in Vectors : Listed(v) => Balanced(v)
  /\ NoneLostOrDoubled' <=> \A v \in Vectors : Listed(v) => Balanced(v)'
BY DEF NoneLostOrDoubled, Balanced, InLists

LEMMA CPUsAreFinite == IsFiniteSet(CPU)
<1>1. 0 \in Int /\ NumCPUs - 1 \in Int
  BY DeviceAssumption
<1> QED
  BY <1>1, FS_Interval DEF CPU

LEMMA OweEffect ==
  ASSUME owing \in [Vectors -> Int], NEW w \in Vectors, NEW n \in Int, Owe(w, n),
         NEW v \in Vectors, Listed(v)
  PROVE  owing'[v] = owing[v] + (IF v = w THEN n ELSE 0)
BY DEF Owe

LEMMA SumType ==
  ASSUME QueuesOK, NEW v \in Vectors
  PROVE  InLists(pending, v, CPU) \in Int /\ Count(pendingVectors)[v] \in Nat
<1>1. 0 \in CPU
  BY DeviceAssumption DEF CPU
<1>2. \A d \in CPU : pending[d][v] \in Int /\ pending[d][v] = pending[d][v] + 0
  BY DEF QueuesOK
<1>3. InLists(pending, v, CPU) \in Int
  BY <1>1, <1>2, CPUsAreFinite, OneMore
<1> QED
  BY <1>3, CountType DEF QueuesOK

\* Interrupts that enter or leave the list of one CPU.
LEMMA OneListChanged ==
  ASSUME QueuesOK, NEW c \in CPU, NEW v \in Vectors, NEW n \in Int,
         \A d \in CPU \ {c} : pending'[d][v] = pending[d][v],
         pending'[c][v] = pending[c][v] + n
  PROVE  InLists(pending', v, CPU) = InLists(pending, v, CPU) + n
<1>1. \A d \in CPU : pending[d][v] \in Int
  BY DEF QueuesOK
<1> QED
  BY <1>1, CPUsAreFinite, OneMore

\* A delivery moves what is in the queue to the list of a CPU.
LEMMA DeliveryMoves ==
  ASSUME QueuesOK, SetupOK, NEW q \in Seq(Vectors), NEW callback \in BOOLEAN,
         Deliver(q, callback), NEW v \in Vectors, Listed(v)
  PROVE  Count(pendingVectors')[v] + InLists(pending', v, CPU)
         = Count(q)[v] + InLists(pending, v, CPU)
<1>1. CASE callback /\ q # <<>>
  <2>1. /\ pendingVectors' = <<>>
        /\ pending' = [pending EXCEPT ![active] =
                         [w \in Vectors |-> @[w] + IF Listed(w) THEN Count(q)[w] ELSE 0]]
    BY <1>1 DEF Deliver, QueueInterrupt
  <2>2. Count(q)[v] \in Nat /\ active \in CPU /\ pending \in [CPU -> [Vectors -> Nat]]
    BY CountType DEF SetupOK, QueuesOK
  <2>3. /\ pending'[active][v] = pending[active][v] + Count(q)[v]
        /\ \A d \in CPU \ {active} : pending'[d][v] = pending[d][v]
    BY <2>1, <2>2
  <2>4. InLists(pending', v, CPU) = InLists(pending, v, CPU) + Count(q)[v]
    BY <2>2, <2>3, OneListChanged
  <2>5. Count(pendingVectors')[v] = 0
    BY <2>1, CountEmpty
  <2>6. InLists(pending, v, CPU) \in Int
    BY SumType
  <2> QED
    BY <2>2, <2>4, <2>5, <2>6
<1>2. CASE ~(callback /\ q # <<>>)
  BY <1>2 DEF Deliver
<1> QED
  BY <1>1, <1>2

LEMMA RaisingBalanced ==
  ASSUME QueuesOK, SetupOK, NEW w \in Vectors, RaiseInterrupt(w),
         NEW v \in Vectors, Listed(v), Balanced(v)
  PROVE  Balanced(v)'
<1> DEFINE q == Append(pendingVectors, w)
<1>1. q \in Seq(Vectors) /\ connected \in BOOLEAN /\ owing \in [Vectors -> Int]
  BY DEF QueuesOK, SetupOK
<1>2. Count(pendingVectors')[v] + InLists(pending', v, CPU)
      = Count(q)[v] + InLists(pending, v, CPU)
  BY <1>1, DeliveryMoves DEF RaiseInterrupt
<1>3. Count(q)[v] = Count(pendingVectors)[v] + (IF v = w THEN 1 ELSE 0)
  BY CountAppend DEF QueuesOK
<1>4. owing'[v] = owing[v] + (IF v = w THEN 1 ELSE 0)
  BY <1>1, OweEffect DEF RaiseInterrupt
<1>5. InLists(pending, v, CPU) \in Int /\ Count(pendingVectors)[v] \in Nat
  BY SumType
<1> HIDE DEF q
<1> QED
  BY <1>2, <1>3, <1>4, <1>5 DEF Balanced

\* Of the CPUs that share a LID, one is sent the interrupt.
LEMMA OneAddressed ==
  ASSUME NEW l
  PROVE  Addressed(l) = {} \/ \E c \in CPU : Addressed(l) = {c}
<1> DEFINE S == {c \in CPU : lid[c] = l}
<1>1. CPU \subseteq Int /\ S \subseteq CPU
  BY DeviceAssumption DEF CPU
<1>2. CASE S = {}
  BY <1>2 DEF Addressed
<1>3. CASE S # {}
  <2>1. PICK m \in S : \A n \in S : m <= n
    <3>1. IsFiniteSet(S) /\ S \subseteq Int
      BY <1>1, CPUsAreFinite, FS_Subset
    <3> HIDE DEF S
    <3> QED
      BY <1>3, <3>1, LeastElement
  <2>2. m \in Addressed(l)
    BY <2>1 DEF Addressed
  <2>3. ASSUME NEW c \in Addressed(l)
        PROVE  c = m
    <3>1. c \in S /\ c <= m /\ m <= c
      BY <2>1 DEF Addressed
    <3> QED
      BY <1>1, <3>1
  <2> QED
    BY <2>1, <2>2, <2>3
<1> QED
  BY <1>2, <1>3

LEMMA SendingBalanced ==
  ASSUME QueuesOK, NEW c \in CPU, NEW l \in CPU, NEW w \in Vectors, SendInterrupt(c, l, w),
         NEW v \in Vectors, Listed(v), Balanced(v)
  PROVE  Balanced(v)'
<1> DEFINE to == Addressed(l)
<1>1. /\ pending' = [d \in CPU |-> IF d \in to /\ Listed(w)
                                   THEN [pending[d] EXCEPT ![w] = @ + 1] ELSE pending[d]]
      /\ IF to = {} THEN UNCHANGED owing ELSE Owe(w, 1)
      /\ pendingVectors' = pendingVectors
      /\ pending \in [CPU -> [Vectors -> Nat]] /\ owing \in [Vectors -> Int]
  BY DEF SendInterrupt, QueuesOK
<1>2. InLists(pending, v, CPU) \in Int /\ Count(pendingVectors)[v] \in Nat
  BY SumType
<1> HIDE DEF to
<1>3. CASE to = {}
  <2>1. pending' = pending /\ owing' = owing
    BY <1>1, <1>3
  <2> QED
    BY <1>1, <2>1 DEF Balanced
<1>4. ASSUME NEW d \in CPU, to = {d}
      PROVE  Balanced(v)'
  <2> DEFINE n == IF v = w THEN 1 ELSE 0
  <2>1. owing'[v] = owing[v] + n
    BY <1>1, <1>4, OweEffect
  <2>2. pending'[d][v] = pending[d][v] + n
    BY <1>1, <1>4
  <2>3. \A x \in CPU \ {d} : pending'[x][v] = pending[x][v]
    BY <1>1, <1>4
  <2>4. InLists(pending', v, CPU) = InLists(pending, v, CPU) + n
    BY <2>2, <2>3, OneListChanged
  <2>5. pendingVectors' = pendingVectors /\ n \in Int
    BY <1>1
  <2> HIDE DEF n
  <2> QED
    BY <1>2, <2>1, <2>4, <2>5 DEF Balanced
<1> QED
  BY <1>3, <1>4, OneAddressed DEF to

LEMMA TakingBalanced ==
  ASSUME QueuesOK, NEW c \in CPU, NEW w \in Vectors, TakeInterrupt(c, w),
         NEW v \in Vectors, Listed(v), Balanced(v)
  PROVE  Balanced(v)'
<1> DEFINE n == IF v = w THEN -1 ELSE 0
<1>1. /\ pending' = [pending EXCEPT ![c][w] = @ - 1] /\ Owe(w, -1)
      /\ pendingVectors' = pendingVectors
      /\ pending \in [CPU -> [Vectors -> Nat]] /\ owing \in [Vectors -> Int]
  BY DEF TakeInterrupt, QueuesOK
<1>2. InLists(pending, v, CPU) \in Int /\ Count(pendingVectors)[v] \in Nat
  BY SumType
<1>3. owing'[v] = owing[v] + n
  BY <1>1, OweEffect
<1>4. pending'[c][v] = pending[c][v] + n
  BY <1>1
<1>5. \A d \in CPU \ {c} : pending'[d][v] = pending[d][v]
  BY <1>1
<1>6. InLists(pending', v, CPU) = InLists(pending, v, CPU) + n
  BY <1>4, <1>5, OneListChanged
<1> QED
  BY <1>1, <1>2, <1>3, <1>6 DEF Balanced

LEMMA OwnerBalanced ==
  ASSUME QueuesOK, SetupOK, Owner, NEW v \in Vectors, Listed(v), Balanced(v)
  PROVE  Balanced(v)'
<1>0. InLists(pending, v, CPU) \in Int /\ Count(pendingVectors)[v] \in Nat
  BY SumType
<1>1. CASE UNCHANGED <<pendingVectors, pending, owing>>
  BY <1>1 DEF Balanced
<1>2. ASSUME NEW w \in Vectors, OwnerRaises(w)
      PROVE  Balanced(v)'
  BY <1>2, RaisingBalanced DEF OwnerRaises
<1>3. ASSUME NEW callback \in BOOLEAN, RegisterDeliveryCallback(callback)
      PROVE  Balanced(v)'
  <2>1. Deliver(pendingVectors, callback) /\ owing' = owing /\ pendingVectors \in Seq(Vectors)
    BY <1>3 DEF RegisterDeliveryCallback, QueuesOK
  <2>2. Count(pendingVectors')[v] + InLists(pending', v, CPU)
        = Count(pendingVectors)[v] + InLists(pending, v, CPU)
    BY <2>1, DeliveryMoves
  <2> QED
    BY <2>1, <2>2 DEF Balanced
<1>4. CASE GetNextPendingInterrupt
  <2>1. /\ pendingVectors # <<>> /\ pendingVectors' = Tail(pendingVectors)
        /\ Owe(Head(pendingVectors), -1) /\ pending' = pending
        /\ pendingVectors \in Seq(Vectors) /\ Head(pendingVectors) \in Vectors
        /\ owing \in [Vectors -> Int]
    BY <1>4 DEF GetNextPendingInterrupt, QueuesOK
  <2> DEFINE n == IF v = Head(pendingVectors) THEN -1 ELSE 0
  <2>2. Count(pendingVectors')[v] = Count(pendingVectors)[v] + n
    BY <2>1, CountTail
  <2>3. owing'[v] = owing[v] + n
    BY <2>1, OweEffect
  <2> QED
    BY <1>0, <2>1, <2>2, <2>3 DEF Balanced
<1>5. ASSUME NEW m \in Machines, RestoreVMSnapshot(m)
      PROVE  Balanced(v)'
  <2>1. m.queue \subseteq Vectors /\ RestoreQueue(m.queue) /\ pending' = pending
    BY <1>5, MachinesAssumption DEF RestoreVMSnapshot, RestoreCPUs, Machine
  <2>2. /\ pendingVectors' \in Seq(Vectors)
        /\ owing'[v] = owing[v] + (Count(pendingVectors')[v] - Count(pendingVectors)[v])
    BY <2>1, QueueRestored
  <2>3. Count(pendingVectors')[v] \in Nat /\ owing[v] \in Int
    BY <2>2, CountType DEF QueuesOK
  <2> QED
    BY <1>0, <2>1, <2>2, <2>3 DEF Balanced
<1>6. CASE Reset
  <2>1. /\ pendingVectors' = <<>> /\ owing' = Nothing
        /\ pending' = [c \in CPU |-> Nothing]
    BY <1>6 DEF Reset
  <2>2. InLists(pending', v, CPU) = 0
    BY <2>1, CPUsAreFinite, NothingInLists DEF Nothing
  <2>3. Count(pendingVectors')[v] = 0 /\ owing'[v] = 0
    BY <2>1, CountEmpty DEF Nothing
  <2> QED
    BY <2>2, <2>3 DEF Balanced
<1> QED
  BY <1>1, <1>2, <1>3, <1>4, <1>5, <1>6 DEF Owner, StartCPU, ParkCPU, SetActiveCPU,
     RestoreSnapshot, RestoreCPUs, queueVars, ghosts

LEMMA StepBalanced ==
  ASSUME IInv, Step \/ UNCHANGED vars, NEW v \in Vectors, Listed(v), Balanced(v)
  PROVE  Balanced(v)'
<1>1. QueuesOK /\ SetupOK /\ TimerOK
  BY ThreeParts
<1>2. CASE UNCHANGED <<pendingVectors, pending, owing>>
  BY <1>2 DEF Balanced
<1>3. CASE TickDelivers
  <2>1. timer.vector \in Vectors
    BY <1>1 DEF TimerOK, Timer
  <2> QED
    BY <1>1, <1>3, <2>1, RaisingBalanced DEF TickDelivers
<1>4. ASSUME NEW c \in CPU, Execute(c)
      PROVE  Balanced(v)'
  BY <1>1, <1>2, <1>4, SendingBalanced, TakingBalanced DEF Execute, OtherInstruction,
     WriteTimer, WriteLid, HaltCPU, queueVars, ghosts
<1> QED
  BY <1>2, <1>3, <1>4 DEF Step, Tick, TimerCallback, queueVars, ghosts, vars

\* Every interrupt raised is in one list or in the queue until it is taken, as
\* often as it was raised, however many CPUs there are and share a LID.
THEOREM NothingLost == Spec => []NoneLostOrDoubled
<1>1. Init => NoneLostOrDoubled
  <2> SUFFICES ASSUME Init, NEW v \in Vectors
               PROVE  Balanced(v)
    BY BalancedProperty
  <2>1. InLists(pending, v, CPU) = 0
    BY CPUsAreFinite, NothingInLists DEF Init, Nothing
  <2>2. Count(pendingVectors)[v] = 0 /\ owing[v] = 0
    BY CountEmpty DEF Init, Nothing
  <2> QED
    BY <2>1, <2>2 DEF Balanced
<1>2. IInv /\ NoneLostOrDoubled /\ [Next]_vars => NoneLostOrDoubled'
  <2> SUFFICES ASSUME IInv, NoneLostOrDoubled, [Next]_vars, NEW v \in Vectors, Listed(v)
               PROVE  Balanced(v)'
    BY BalancedProperty
  <2>1. QueuesOK /\ SetupOK /\ Balanced(v)
    BY ThreeParts, BalancedProperty
  <2> QED
    BY <2>1, StepBalanced, OwnerBalanced DEF Next
<1> QED
  BY <1>1, <1>2, Inductive, PTL DEF Spec
=============================================================================
