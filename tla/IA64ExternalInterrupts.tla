----------------------- MODULE IA64ExternalInterrupts -----------------------
(***************************************************************************)
(* The external-interrupt unit of one IA-64 CPU (class IA64ISAPlugin): the *)
(* list of pending requests, the single in-service latch, CR.TPR, CR.IVR,  *)
(* CR.EOI, PSR.i, and the interval timer (AR.ITC, CR.ITM, CR.ITV).         *)
(*                                                                         *)
(* One CPU step is three steps here: service a pending interrupt, execute  *)
(* one guest instruction, advance the ITC.  pendingInterrupts_ is a list   *)
(* whose order nothing observes, so it is a bag: vector -> count.          *)
(*                                                                         *)
(* The guest's handler keeps the usual discipline: it reads CR.IVR once    *)
(* for each interrupt it takes, and writes CR.EOI only after that read.    *)
(***************************************************************************)
EXTENDS Integers, FiniteSets

CONSTANTS
  Vectors,         \* device vectors in use, all above the spurious vector
  TimerVectors,    \* vectors the guest may program into CR.ITV
  TaskPriorities,  \* values the guest may write to CR.TPR
  HalfRange,       \* AR.ITC and CR.ITM count modulo 2 * HalfRange (2^64)
  MaxRaised,       \* bound: requests a device makes on one vector
  MaxArmed,        \* bound: writes to CR.ITM
  MaxAdjusted      \* bound: writes to AR.ITC

Spurious == 15

ASSUME InterruptAssumption ==
  /\ Vectors \subseteq Spurious + 1 .. 255
  /\ TimerVectors \subseteq Vectors \cup 0 .. Spurious
  /\ TaskPriorities \subseteq 0 .. 255
  /\ HalfRange \in Nat \ {0}
  /\ MaxRaised \in Nat /\ MaxArmed \in Nat /\ MaxAdjusted \in Nat

Modulus == 2 * HalfRange
Time == 0 .. Modulus - 1
ITV == [vector : TimerVectors \cup {0}, masked : BOOLEAN]

VARIABLES
  phase,        \* where CPU::step() is
  pending,      \* pendingInterrupts_, as a bag
  inService,    \* interruptInService_
  isv,          \* inServiceVector_
  tpr,          \* CR.TPR
  psrI, ipsrI,  \* PSR.i and the copy of it in CR.IPSR
  itc, itm,     \* AR.ITC and CR.ITM
  itv,          \* CR.ITV: [vector, masked]
  configured,   \* intervalTimerConfigured_
  latched,      \* timerCompareLatched_
  ivrRead,      \* the guest's handler has read CR.IVR for this interrupt
  raised,       \* ghost: requests ever accepted, per vector
  reported,     \* ghost: CR.IVR reads that returned the vector
  armed,        \* ghost: writes to CR.ITM
  adjusted,     \* ghost: writes to AR.ITC
  fired         \* ghost: requests made by the interval timer

requests == <<pending, raised>>
service == <<inService, isv, ivrRead>>
timer == <<itc, itm, itv, configured, latched, armed, fired, adjusted>>
masks == <<tpr, psrI, ipsrI>>
vars == <<phase, requests, service, timer, masks, reported>>

Init ==
  /\ phase = "service"
  /\ pending = [v \in Vectors |-> 0]
  /\ inService = FALSE /\ isv = Spurious /\ ivrRead = FALSE
  /\ tpr = 0 /\ psrI = FALSE /\ ipsrI = FALSE
  /\ itc = 0 /\ itm = 0 /\ itv = [vector |-> 0, masked |-> FALSE]
  /\ configured = FALSE /\ latched = FALSE
  /\ raised = [v \in Vectors |-> 0] /\ reported = [v \in Vectors |-> 0]
  /\ armed = 0 /\ fired = 0 /\ adjusted = 0

----------------------------------------------------------------------------
(* Selection *)

\* isInterruptEligible(): the priority class must exceed TPR's.
Eligible(v) == v \div 16 > tpr \div 16

EligiblePending == {v \in Vectors : pending[v] > 0 /\ Eligible(v)}

\* Mutant: the scan keeps the smaller of two vectors.
LowestEligible ==
  IF EligiblePending = {} THEN Spurious
  ELSE CHOOSE v \in EligiblePending : \A w \in EligiblePending : v <= w

\* findHighestEligibleInterrupt()
HighestEligible ==
  IF EligiblePending = {} THEN Spurious
  ELSE CHOOSE v \in EligiblePending : \A w \in EligiblePending : v >= w

Removed(v) == [pending EXCEPT ![v] = @ - 1]
Counted(f, v) == [f EXCEPT ![v] = @ + 1]

----------------------------------------------------------------------------
(* The interval timer *)

\* static_cast<int64_t>(itc - itm) >= 0
Reached(c, m) == (c - m) % Modulus < HalfRange

\* updateIntervalTimer() when the registers hold c, m, v and the latches l, f.
UpdateIntervalTimer(c, m, v, l, f) ==
  LET fires == /\ f /\ ~l /\ ~v.masked /\ Reached(c, m) /\ v.vector > Spurious
  IN  /\ itc' = c /\ itm' = m /\ itv' = v /\ configured' = f
      /\ latched' = (l \/ fires)
      /\ pending' = IF fires THEN Counted(pending, v.vector) ELSE pending
      /\ raised' = IF fires THEN Counted(raised, v.vector) ELSE raised
      /\ fired' = IF fires THEN fired + 1 ELSE fired

WriteITV(v) ==
  /\ phase = "execute" /\ phase' = "tick"
  /\ UpdateIntervalTimer(itc, itm, v, latched, configured)
  /\ UNCHANGED <<service, armed, adjusted, masks, reported>>

WriteITM(m) ==
  /\ phase = "execute" /\ phase' = "tick"
  /\ armed < MaxArmed /\ armed' = armed + 1
  /\ UpdateIntervalTimer(itc, m, itv, FALSE, TRUE)
  /\ UNCHANGED <<service, adjusted, masks, reported>>

\* mov to AR.ITC: the compare waits for the tick that follows.
WriteITC(c) ==
  /\ phase = "execute" /\ phase' = "tick"
  /\ adjusted < MaxAdjusted /\ adjusted' = adjusted + 1
  /\ itc' = c
  /\ UNCHANGED <<requests, service, itm, itv, configured, latched, armed, fired,
                 masks, reported>>

\* Mutant: the compare latch is cleared again at every tick.
AdvanceITCUnlatched ==
  /\ phase = "tick" /\ phase' = "service"
  /\ UpdateIntervalTimer((itc + 1) % Modulus, itm, itv, FALSE, configured)
  /\ UNCHANGED <<service, armed, adjusted, masks, reported>>

\* Mutant: the ITC advances without comparing.
AdvanceITCNoCompare ==
  /\ phase = "tick" /\ phase' = "service"
  /\ itc' = (itc + 1) % Modulus
  /\ UNCHANGED <<requests, service, itm, itv, configured, latched, armed, fired,
                 adjusted, masks, reported>>

\* Mutant: the ITC does not wrap around.
AdvanceITCNoWrap ==
  /\ phase = "tick" /\ phase' = "service"
  /\ UpdateIntervalTimer(itc + 1, itm, itv, latched, configured)
  /\ UNCHANGED <<service, armed, adjusted, masks, reported>>

\* advanceITC(), after the instruction.
AdvanceITC ==
  /\ phase = "tick" /\ phase' = "service"
  /\ UpdateIntervalTimer((itc + 1) % Modulus, itm, itv, latched, configured)
  /\ UNCHANGED <<service, armed, adjusted, masks, reported>>

----------------------------------------------------------------------------
(* Requests and their delivery *)

\* queueInterrupt(): a device, another CPU or this one, at any time; vectors up
\* to the spurious one are ignored.
QueueInterrupt(v) ==
  /\ v > Spurious /\ raised[v] < MaxRaised
  /\ raised' = Counted(raised, v)
  /\ pending' = Counted(pending, v)
  /\ UNCHANGED <<phase, service, timer, masks, reported>>

CanService == ~inService /\ psrI /\ HighestEligible # Spurious

\* Mutant: entering the handler already consumes the request.
ServiceConsumes ==
  /\ phase = "service" /\ phase' = "execute" /\ CanService
  /\ inService' = TRUE /\ isv' = HighestEligible /\ ivrRead' = FALSE
  /\ pending' = Removed(HighestEligible)
  /\ ipsrI' = psrI /\ psrI' = FALSE
  /\ UNCHANGED <<raised, timer, tpr, reported>>

\* servicePendingInterrupt(): the request stays pending until CR.IVR is read.
ServicePendingInterrupt ==
  /\ phase = "service" /\ phase' = "execute" /\ CanService
  /\ inService' = TRUE /\ isv' = HighestEligible /\ ivrRead' = FALSE
  /\ ipsrI' = psrI /\ psrI' = FALSE
  /\ UNCHANGED <<requests, timer, tpr, reported>>

NothingToService ==
  /\ phase = "service" /\ phase' = "execute" /\ ~CanService
  /\ UNCHANGED <<requests, service, timer, masks, reported>>

\* Mutant: the read leaves the request pending, to be delivered a second time.
ReadIVRKeepsRequest ==
  /\ phase = "execute" /\ phase' = "tick"
  /\ inService /\ ~ivrRead /\ ivrRead' = TRUE
  /\ reported' = Counted(reported, isv)
  /\ UNCHANGED <<pending, inService, isv, raised, timer, masks>>

\* readControlRegister(CR.IVR) with an interrupt in service: its vector, and one
\* pending request of that vector is consumed.
ReadIVRInService ==
  /\ phase = "execute" /\ phase' = "tick"
  /\ inService /\ ~ivrRead /\ ivrRead' = TRUE
  /\ pending' = IF pending[isv] > 0 THEN Removed(isv) ELSE pending
  /\ reported' = Counted(reported, isv)
  /\ UNCHANGED <<inService, isv, raised, timer, masks>>

\* readControlRegister(CR.IVR) with none in service: the highest eligible
\* request is taken, or the spurious vector returned.
ReadIVRPolling ==
  /\ phase = "execute" /\ phase' = "tick"
  /\ ~inService
  /\ IF HighestEligible = Spurious
       THEN UNCHANGED <<pending, inService, isv, ivrRead, reported>>
       ELSE /\ pending' = Removed(HighestEligible)
            /\ inService' = TRUE /\ isv' = HighestEligible /\ ivrRead' = TRUE
            /\ reported' = Counted(reported, HighestEligible)
  /\ UNCHANGED <<raised, timer, masks>>

WriteEOI ==
  /\ phase = "execute" /\ phase' = "tick"
  /\ inService => ivrRead
  /\ inService' = FALSE /\ isv' = Spurious /\ ivrRead' = FALSE
  /\ UNCHANGED <<requests, timer, masks, reported>>

WriteTPR(p) ==
  /\ phase = "execute" /\ phase' = "tick"
  /\ tpr' = p
  /\ UNCHANGED <<requests, service, timer, psrI, ipsrI, reported>>

\* ssm/rsm psr.i, and rfi, which restores PSR from CR.IPSR.
WritePsrI(b) ==
  /\ phase = "execute" /\ phase' = "tick"
  /\ psrI' = b
  /\ UNCHANGED <<requests, service, timer, tpr, ipsrI, reported>>

Rfi == WritePsrI(ipsrI)

OtherInstruction ==
  /\ phase = "execute" /\ phase' = "tick"
  /\ UNCHANGED <<requests, service, timer, masks, reported>>

\* reset(): back to the initial registers, between two steps.
Reset ==
  /\ phase = "service" /\ UNCHANGED phase
  /\ pending' = [v \in Vectors |-> 0]
  /\ inService' = FALSE /\ isv' = Spurious /\ ivrRead' = FALSE
  /\ tpr' = 0 /\ psrI' = FALSE /\ ipsrI' = FALSE
  /\ itc' = 0 /\ itm' = 0 /\ itv' = [vector |-> 0, masked |-> FALSE]
  /\ configured' = FALSE /\ latched' = FALSE
  /\ raised' = [v \in Vectors |-> 0] /\ reported' = [v \in Vectors |-> 0]
  /\ armed' = 0 /\ fired' = 0 /\ adjusted' = 0

Service == ServicePendingInterrupt \/ NothingToService

Execute ==
  \/ ReadIVRInService \/ ReadIVRPolling \/ WriteEOI \/ Rfi \/ OtherInstruction
  \/ \E p \in TaskPriorities : WriteTPR(p)
  \/ \E b \in BOOLEAN : WritePsrI(b)
  \/ \E v \in [vector : TimerVectors, masked : BOOLEAN] : WriteITV(v)
  \/ \E m \in Time : WriteITM(m) \/ WriteITC(m)

Step == Service \/ Execute \/ AdvanceITC

Next == Step \/ Reset \/ \E v \in Vectors : QueueInterrupt(v)

\* The run loop keeps stepping the CPU.
Spec == Init /\ [][Next]_vars /\ WF_vars(Step)

----------------------------------------------------------------------------
(* Properties *)

\* Every register holds a value of its type.
TypeOK ==
  /\ phase \in {"service", "execute", "tick"}
  /\ pending \in [Vectors -> Nat] /\ raised \in [Vectors -> Nat]
  /\ reported \in [Vectors -> Nat]
  /\ inService \in BOOLEAN /\ isv \in Vectors \cup {Spurious} /\ ivrRead \in BOOLEAN
  /\ tpr \in 0 .. 255 /\ psrI \in BOOLEAN /\ ipsrI \in BOOLEAN
  /\ itc \in Time /\ itm \in Time
  /\ itv \in ITV
  /\ configured \in BOOLEAN /\ latched \in BOOLEAN
  /\ armed \in Nat /\ fired \in Nat /\ adjusted \in Nat

\* No interrupt is lost and none is reported twice: each request ever accepted
\* from a device or the timer is either still pending or was returned by exactly
\* one read of CR.IVR, whatever arrives between entering the handler
\* (servicePendingInterrupt) and the destructive read (readControlRegister).
NoRequestLost == \A v \in Vectors : raised[v] = pending[v] + reported[v]

\* The vector latched at entry is still backed by a pending request when the
\* handler comes to read it: CR.IVR never reports an interrupt nobody asked for.
InServiceBacked == inService /\ ~ivrRead => isv \in Vectors /\ pending[isv] > 0

\* The timer interrupts at most once for each write to CR.ITM, across masking,
\* unmasking and the ITC wrapping around.
TimerFiresOncePerITM == fired + (IF configured /\ ~latched THEN 1 ELSE 0) <= armed

\* An armed, unmasked timer goes off, unless the guest masks it, gives it no
\* vector, or arms it anew, or the CPU is reset (updateIntervalTimer's signed
\* compare, with the ITC wrapping around).
TimerEventuallyFires ==
  \A n \in 1 .. MaxArmed :
    (configured /\ ~latched /\ armed = n)
      ~> (latched \/ ~configured \/ armed # n \/ itv.masked \/ itv.vector <= Spurious)

Requests == INSTANCE InterruptRequests WITH
  Nobody <- Spurious, owed <- pending, handling <- isv, told <- ivrRead

\* Requests are reported one by one, and the handler that is entered is always
\* that of the highest one pending, whatever CR.TPR holds: the unit, with its
\* timer, its masks and the two ways of reading CR.IVR, implements
\* InterruptRequests.
ImplementsRequests == Requests!Spec
=============================================================================
