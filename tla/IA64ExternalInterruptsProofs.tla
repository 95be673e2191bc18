-------------------- MODULE IA64ExternalInterruptsProofs --------------------
(***************************************************************************)
(* Proofs about IA64ExternalInterrupts for any vectors, any range of the   *)
(* ITC and any number of requests.  NoRequestLost and InServiceBacked are  *)
(* inductive only together: that CR.IVR consumes a request which exists    *)
(* is InServiceBacked, and that nothing else consumes it is what the       *)
(* bookkeeping of NoRequestLost needs.                                     *)
(***************************************************************************)
EXTENDS IA64ExternalInterrupts, IntegerSetLemmas


IInv == TypeOK /\ NoRequestLost /\ InServiceBacked /\ TimerFiresOncePerITM

\* Device vectors fit a byte and are never the spurious vector.
LEMMA VectorsAreBytes == Vectors \subseteq 0 .. 255 /\ Spurious \notin Vectors
  BY InterruptAssumption DEF Spurious

\* A CR.ITV vector above the spurious one is a device vector.
LEMMA TimerVectorIsVector == \A x \in TimerVectors \cup {0} : x > Spurious => x \in Vectors
  BY InterruptAssumption DEF Spurious

\* Vectors are bytes, so one of them is the highest eligible one: the scan of
\* findHighestEligibleInterrupt() returns a pending request, or the spurious
\* vector when there is none.
LEMMA HighestEligibleIsPending ==
  ASSUME TypeOK
  PROVE  \/ HighestEligible = Spurious
         \/ /\ HighestEligible \in Vectors
            /\ pending[HighestEligible] > 0
            /\ \A v \in EligiblePending : HighestEligible >= v
<1>1. CASE EligiblePending = {}
  BY <1>1 DEF HighestEligible
<1>2. CASE EligiblePending # {}
  <2>1. EligiblePending \subseteq 0 .. 255
    <3>1. EligiblePending \subseteq Vectors
      BY DEF EligiblePending
    <3> QED
      BY <3>1, VectorsAreBytes
  <2>2. IsFiniteSet(EligiblePending)
    BY <2>1, ByteSets
  <2>3. \E m \in EligiblePending : \A n \in EligiblePending : m >= n
    <3>1. EligiblePending \subseteq Int
      BY <2>1
    <3> QED
      BY <1>2, <2>2, <3>1, GreatestElement
  <2>4. /\ HighestEligible \in EligiblePending
        /\ \A v \in EligiblePending : HighestEligible >= v
    BY <1>2, <2>3 DEF HighestEligible
  <2> QED
    BY <2>4 DEF EligiblePending
<1> QED
  BY <1>1, <1>2

\* What updateIntervalTimer() preserves: a firing adds one request and one
\* accepted request of the same vector, and uses up the armed compare.
LEMMA TimerUpdate ==
  ASSUME IInv,
         NEW c \in Time, NEW m \in Time, NEW v \in ITV,
         NEW l \in BOOLEAN, NEW f \in BOOLEAN,
         UpdateIntervalTimer(c, m, v, l, f)
  PROVE  /\ itc' \in Time /\ itm' \in Time /\ itv' \in ITV
         /\ configured' \in BOOLEAN /\ latched' \in BOOLEAN /\ fired' \in Nat
         /\ pending' \in [Vectors -> Nat] /\ raised' \in [Vectors -> Nat]
         /\ \A w \in Vectors : pending'[w] >= pending[w]
         /\ \A w \in Vectors : raised'[w] = pending'[w] + reported[w]
         /\ fired' + (IF configured' /\ ~latched' THEN 1 ELSE 0)
              = fired + (IF f /\ ~l THEN 1 ELSE 0)
<1> DEFINE fires == f /\ ~l /\ ~v.masked /\ Reached(c, m) /\ v.vector > Spurious
<1>1. /\ pending \in [Vectors -> Nat] /\ raised \in [Vectors -> Nat]
      /\ reported \in [Vectors -> Nat] /\ fired \in Nat
      /\ \A w \in Vectors : raised[w] = pending[w] + reported[w]
  BY DEF IInv, TypeOK, NoRequestLost
<1>2. /\ itc' = c /\ itm' = m /\ itv' = v /\ configured' = f
      /\ latched' = (l \/ fires)
      /\ pending' = IF fires THEN Counted(pending, v.vector) ELSE pending
      /\ raised' = IF fires THEN Counted(raised, v.vector) ELSE raised
      /\ fired' = IF fires THEN fired + 1 ELSE fired
  BY DEF UpdateIntervalTimer
<1>3. fires => v.vector \in Vectors
  <2>1. v.vector \in TimerVectors \cup {0}
    BY DEF ITV
  <2>2. fires => v.vector > Spurious
    OBVIOUS
  <2> HIDE DEF fires
  <2> QED
    BY <2>1, <2>2, TimerVectorIsVector
<1>4. fires \in BOOLEAN /\ (fires => f /\ ~l)
  OBVIOUS
<1> HIDE DEF fires
<1>5. CASE fires
  <2>1. /\ pending' = [pending EXCEPT ![v.vector] = @ + 1]
        /\ raised' = [raised EXCEPT ![v.vector] = @ + 1]
    BY <1>2, <1>5 DEF Counted
  <2>2. /\ pending' \in [Vectors -> Nat] /\ raised' \in [Vectors -> Nat]
        /\ \A w \in Vectors : pending'[w] >= pending[w]
        /\ \A w \in Vectors : raised'[w] = pending'[w] + reported[w]
    BY <1>1, <1>3, <1>5, <2>1
  <2>3. f /\ ~l /\ latched' = TRUE
    BY <1>2, <1>4, <1>5, Zenon
  <2>4. fired' = fired + 1 /\ fired' \in Nat
    BY <1>1, <1>2, <1>5
  <2>5. (IF configured' /\ ~latched' THEN 1 ELSE 0) = 0 /\ (IF f /\ ~l THEN 1 ELSE 0) = 1
    BY <2>3, Zenon
  <2>6. fired' + (IF configured' /\ ~latched' THEN 1 ELSE 0)
          = fired + (IF f /\ ~l THEN 1 ELSE 0)
    BY <1>1, <2>4, <2>5
  <2>7. configured' \in BOOLEAN /\ latched' \in BOOLEAN
    BY <1>2, <2>3, Zenon
  <2> QED
    BY <1>2, <2>2, <2>4, <2>6, <2>7
<1>6. CASE ~fires
  <2>1. latched' = l
    BY <1>2, <1>6, Zenon
  <2> QED
    BY <1>1, <1>2, <1>6, <2>1
<1> QED
  BY <1>4, <1>5, <1>6

\* The ITC's next value is again a value of the ITC.
LEMMA ITCWraps == \A c \in Time : (c + 1) % Modulus \in Time
  BY InterruptAssumption DEF Time, Modulus

\* The values of the registers after construction and after reset().
LEMMA InitialRegisters ==
  /\ 0 \in Time /\ 0 \in 0 .. 255 /\ [vector |-> 0, masked |-> FALSE] \in ITV
  /\ [v \in Vectors |-> 0] \in [Vectors -> Nat]
  BY InterruptAssumption DEF Time, Modulus, ITV

\* A CPU that has just been constructed satisfies the invariant.
LEMMA InitEstablishes == Init => IInv
<1> SUFFICES ASSUME Init
             PROVE  IInv
  OBVIOUS
<1>1. TypeOK
  BY InitialRegisters DEF Init, TypeOK
<1>2. NoRequestLost
  BY DEF Init, NoRequestLost
<1>3. InServiceBacked
  BY DEF Init, InServiceBacked
<1>4. TimerFiresOncePerITM
  BY DEF Init, TimerFiresOncePerITM
<1> QED
  BY <1>1, <1>2, <1>3, <1>4 DEF IInv

\* The invariant holds after every action.
LEMMA StepPreserves == IInv /\ [Next]_vars => IInv'
<1> SUFFICES ASSUME IInv, [Next]_vars
             PROVE  IInv'
  OBVIOUS
<1> USE DEF IInv, TypeOK, NoRequestLost, InServiceBacked, TimerFiresOncePerITM
<1>1. CASE ServicePendingInterrupt
  <2>1. HighestEligible \in Vectors /\ pending[HighestEligible] > 0
    BY <1>1, HighestEligibleIsPending DEF ServicePendingInterrupt, CanService
  <2> QED
    BY <1>1, <2>1 DEF ServicePendingInterrupt, requests, timer
<1>2. CASE NothingToService
  BY <1>2 DEF NothingToService, requests, service, timer, masks
<1>3. CASE ReadIVRInService
  <2>1. isv \in Vectors /\ pending[isv] > 0
    BY <1>3 DEF ReadIVRInService
  <2>2. /\ pending' = [pending EXCEPT ![isv] = @ - 1]
        /\ reported' = [reported EXCEPT ![isv] = @ + 1]
    BY <1>3, <2>1 DEF ReadIVRInService, Removed, Counted
  <2> QED
    BY <1>3, <2>1, <2>2 DEF ReadIVRInService, timer, masks
<1>4. CASE ReadIVRPolling
  <2>1. CASE HighestEligible = Spurious
    BY <1>4, <2>1 DEF ReadIVRPolling, timer, masks
  <2>2. CASE HighestEligible # Spurious
    <3>1. HighestEligible \in Vectors /\ pending[HighestEligible] > 0
      BY <2>2, HighestEligibleIsPending
    <3>2. /\ pending' = [pending EXCEPT ![HighestEligible] = @ - 1]
          /\ reported' = [reported EXCEPT ![HighestEligible] = @ + 1]
      BY <1>4, <2>2 DEF ReadIVRPolling, Removed, Counted
    <3> QED
      BY <1>4, <2>2, <3>1, <3>2 DEF ReadIVRPolling, timer, masks
  <2> QED
    BY <2>1, <2>2
<1>5. CASE WriteEOI
  BY <1>5 DEF WriteEOI, requests, timer, masks
<1>6. CASE Rfi \/ \E b \in BOOLEAN : WritePsrI(b)
  BY <1>6 DEF Rfi, WritePsrI, requests, service, timer
<1>7. CASE OtherInstruction
  BY <1>7 DEF OtherInstruction, requests, service, timer, masks
<1>8. ASSUME NEW p \in TaskPriorities, WriteTPR(p)
      PROVE  IInv'
  BY <1>8, InterruptAssumption DEF WriteTPR, requests, service, timer
<1>9. ASSUME NEW v \in [vector : TimerVectors, masked : BOOLEAN], WriteITV(v)
      PROVE  IInv'
  <2>1. v \in ITV
    BY DEF ITV
  <2>2. UpdateIntervalTimer(itc, itm, v, latched, configured)
    BY <1>9 DEF WriteITV
  <2> QED
    BY <1>9, <2>1, <2>2, TimerUpdate DEF WriteITV, service, masks
<1>10. ASSUME NEW m \in Time, WriteITM(m)
       PROVE  IInv'
  <2>1. UpdateIntervalTimer(itc, m, itv, FALSE, TRUE)
    BY <1>10 DEF WriteITM
  <2>2. /\ itc \in Time /\ itv \in ITV /\ FALSE \in BOOLEAN /\ TRUE \in BOOLEAN
        /\ fired \in Nat /\ armed \in Nat /\ fired <= armed
    OBVIOUS
  <2>3. (IF TRUE /\ ~FALSE THEN 1 ELSE 0) = 1
    OBVIOUS
  <2>4. TypeOK' /\ NoRequestLost' /\ InServiceBacked'
    <3>1. /\ itc' \in Time /\ itm' \in Time /\ itv' \in ITV
          /\ configured' \in BOOLEAN /\ latched' \in BOOLEAN /\ fired' \in Nat
          /\ pending' \in [Vectors -> Nat] /\ raised' \in [Vectors -> Nat]
          /\ \A w \in Vectors : pending'[w] >= pending[w]
          /\ \A w \in Vectors : raised'[w] = pending'[w] + reported[w]
      BY <2>1, <2>2, TimerUpdate
    <3> QED
      BY <1>10, <3>1 DEF WriteITM, service, masks
  <2>5. fired' + (IF configured' /\ ~latched' THEN 1 ELSE 0) = fired + 1
    BY <2>1, <2>2, <2>3, TimerUpdate
  <2>6. armed' = armed + 1
    BY <1>10 DEF WriteITM
  <2> QED
    <3>1. fired + 1 <= armed + 1
      BY <2>2
    <3>2. TimerFiresOncePerITM'
      BY <2>5, <2>6, <3>1, Zenon DEF TimerFiresOncePerITM
    <3> QED
      BY <2>4, <3>2, Zenon DEF IInv
<1>11. ASSUME NEW m \in Time, WriteITC(m)
       PROVE  IInv'
  BY <1>11 DEF WriteITC, requests, service, masks
<1>12. CASE AdvanceITC
  <2>1. UpdateIntervalTimer((itc + 1) % Modulus, itm, itv, latched, configured)
    BY <1>12 DEF AdvanceITC
  <2>2. (itc + 1) % Modulus \in Time
    BY ITCWraps
  <2> QED
    BY <1>12, <2>1, <2>2, TimerUpdate DEF AdvanceITC, service, masks
<1>13. CASE Reset
  <2>1. TypeOK'
    BY <1>13, InitialRegisters DEF Reset
  <2>2. NoRequestLost'
    BY <1>13 DEF Reset
  <2>3. InServiceBacked' /\ TimerFiresOncePerITM'
    BY <1>13 DEF Reset
  <2> QED
    BY <2>1, <2>2, <2>3
<1>14. ASSUME NEW v \in Vectors, QueueInterrupt(v)
       PROVE  IInv'
  BY <1>14 DEF QueueInterrupt, Counted, service, timer, masks
<1>15. CASE UNCHANGED vars
  BY <1>15 DEF vars, requests, service, timer, masks
<1> QED
  BY <1>1, <1>2, <1>3, <1>4, <1>5, <1>6, <1>7, <1>8, <1>9, <1>10, <1>11, <1>12,
     <1>13, <1>14, <1>15
     DEF Next, Step, Service, Execute

\* Every step keeps the invariant.
LEMMA Invariance == Spec => []IInv
<1>1. IInv /\ [Next]_vars => IInv'
  BY StepPreserves
<1> QED
  BY InitEstablishes, <1>1, PTL DEF Spec

\* Every register keeps a value of its type.
THEOREM TypeCorrect == Spec => []TypeOK
  BY Invariance, PTL DEF IInv

\* For any vectors, TPR values, timer programming and arrival of requests, no
\* external interrupt is lost and none reported twice.
THEOREM RequestsAreNotLost == Spec => []NoRequestLost
  BY Invariance, PTL DEF IInv

\* The vector an interrupt handler reads from CR.IVR is one that was requested
\* and not reported before.
THEOREM InServiceIsBacked == Spec => []InServiceBacked
  BY Invariance, PTL DEF IInv

\* One write to CR.ITM makes the interval timer interrupt at most once.
THEOREM OneInterruptPerITM == Spec => []TimerFiresOncePerITM
  BY Invariance, PTL DEF IInv

-----------------------------------------------------------------------------
(* The unit implements InterruptRequests. *)

(* Between handlers no vector is latched and none has been read. *)
ServiceAgrees ==
  /\ inService \in BOOLEAN
  /\ inService => isv \in Vectors
  /\ ~inService => isv = Spurious /\ ~ivrRead

LEMMA ServiceAgreesStep ==
  ASSUME IInv, ServiceAgrees, [Next]_vars
  PROVE  ServiceAgrees'
<1>1. CASE ServicePendingInterrupt
  <2>1. HighestEligible \in Vectors
    BY <1>1, HighestEligibleIsPending DEF ServicePendingInterrupt, CanService, IInv
  <2> QED
    BY <1>1, <2>1 DEF ServicePendingInterrupt, ServiceAgrees
<1>2. CASE ReadIVRPolling
  BY <1>2, HighestEligibleIsPending DEF ReadIVRPolling, ServiceAgrees, IInv
<1>3. CASE ReadIVRInService
  BY <1>3 DEF ReadIVRInService, ServiceAgrees
<1>4. CASE WriteEOI
  BY <1>4 DEF WriteEOI, ServiceAgrees
<1>5. CASE Reset
  BY <1>5 DEF Reset, ServiceAgrees
<1>6. CASE UNCHANGED service
  BY <1>6 DEF service, ServiceAgrees
<1> QED
  BY <1>1, <1>2, <1>3, <1>4, <1>5, <1>6
     DEF Next, Step, Service, Execute, NothingToService, WriteTPR, Rfi, WritePsrI, OtherInstruction,
         WriteITV, WriteITM, WriteITC, AdvanceITC, QueueInterrupt, vars

LEMMA ServiceAlwaysAgrees == Spec => [](IInv /\ ServiceAgrees)
<1>1. Init => ServiceAgrees
  BY DEF Init, ServiceAgrees
<1>2. IInv /\ ServiceAgrees /\ [Next]_vars => IInv' /\ ServiceAgrees'
  BY StepPreserves, ServiceAgreesStep
<1> QED
  BY InitEstablishes, <1>1, <1>2, PTL DEF Spec

\* A vector of a higher class is higher: CR.TPR masks from below, so that the
\* highest of what it lets through is the highest of all.
LEMMA HigherClass == \A v, w \in 0 .. 255, p \in Nat : v \div 16 > p /\ ~(w \div 16 > p) => v >= w
  OBVIOUS

LEMMA HighestOfAll ==
  ASSUME TypeOK, HighestEligible # Spurious
  PROVE  HighestEligible \in Vectors /\ Requests!Highest(HighestEligible)
<1> DEFINE h == HighestEligible
<1>1. h \in Vectors /\ pending[h] > 0 /\ \A v \in EligiblePending : h >= v
  BY HighestEligibleIsPending
<1>2. Eligible(h)
  <2>1. EligiblePending # {}
    BY DEF HighestEligible
  <2>2. PICK v \in EligiblePending : TRUE
    BY <2>1
  <2>3. v \in Vectors /\ Eligible(v) /\ h >= v
    BY <1>1, <2>2 DEF EligiblePending
  <2>4. h \in 0 .. 255 /\ v \in 0 .. 255 /\ tpr \div 16 \in Nat
    <3>1. tpr \div 16 \in Nat
      BY DEF TypeOK
    <3> QED
      BY <1>1, <2>3, <3>1, VectorsAreBytes
  <2> HIDE DEF h
  <2> QED
    BY <2>3, <2>4 DEF Eligible
<1>3. ASSUME NEW w \in Vectors, pending[w] > 0
      PROVE  h >= w
  <2>1. CASE Eligible(w)
    BY <1>1, <1>3, <2>1 DEF EligiblePending
  <2>2. CASE ~Eligible(w)
    <3>1. h \in 0 .. 255 /\ w \in 0 .. 255 /\ tpr \div 16 \in Nat
      BY <1>1, VectorsAreBytes DEF TypeOK
    <3> HIDE DEF h
    <3> QED
      BY <1>2, <2>2, <3>1, HigherClass DEF Eligible
  <2> QED
    BY <2>1, <2>2
<1> QED
  BY <1>1, <1>3 DEF Requests!Highest

\* The timer requests an interrupt or does nothing that is seen.
LEMMA TimerRequests ==
  ASSUME NEW c, NEW m, NEW v \in ITV, NEW l, NEW f, UpdateIntervalTimer(c, m, v, l, f),
         UNCHANGED service
  PROVE  [Requests!Next]_Requests!requestVars
<1>1. CASE pending' = pending
  BY <1>1 DEF service, Requests!requestVars
<1>2. CASE pending' # pending
  <2>1. v.vector > Spurious /\ pending' = [pending EXCEPT ![v.vector] = @ + 1]
    BY <1>2 DEF UpdateIntervalTimer, Counted
  <2>2. v.vector \in Vectors
    BY <2>1, TimerVectorIsVector DEF ITV
  <2>3. Requests!Request(v.vector)
    BY <2>1 DEF Requests!Request, service
  <2> QED
    BY <2>2, <2>3 DEF Requests!Next
<1> QED
  BY <1>1, <1>2

LEMMA RefinesStep ==
  ASSUME IInv, ServiceAgrees, [Next]_vars
  PROVE  [Requests!Next]_Requests!requestVars
<1> USE DEF Requests!Next
<1>0. TypeOK /\ Spurious \notin Vectors
  BY VectorsAreBytes DEF IInv
<1>1. CASE ServicePendingInterrupt
  <2>1. HighestEligible \in Vectors /\ Requests!Highest(HighestEligible)
    BY <1>0, <1>1, HighestOfAll DEF ServicePendingInterrupt, CanService
  <2>2. Requests!Enter(HighestEligible)
    BY <1>1, <2>1 DEF ServicePendingInterrupt, CanService, ServiceAgrees, requests, Requests!Enter
  <2> QED
    BY <2>1, <2>2
<1>2. CASE ReadIVRInService
  <2>1. isv \in Vectors /\ pending[isv] > 0
    BY <1>2 DEF ReadIVRInService, IInv, InServiceBacked
  <2>2. Requests!Answer
    BY <1>0, <1>2, <2>1 DEF ReadIVRInService, Removed, Requests!Answer, Requests!Tell
  <2> QED
    BY <2>2
<1>3. CASE ReadIVRPolling
  <2>1. CASE HighestEligible = Spurious
    BY <1>3, <2>1 DEF ReadIVRPolling, Requests!requestVars
  <2>2. CASE HighestEligible # Spurious
    <3>1. HighestEligible \in Vectors /\ Requests!Highest(HighestEligible)
      BY <1>0, <2>2, HighestOfAll
    <3>2. Requests!Poll(HighestEligible)
      BY <1>3, <2>2, <3>1
         DEF ReadIVRPolling, Removed, ServiceAgrees, Requests!Highest, Requests!Tell, Requests!Poll
    <3> QED
      BY <3>1, <3>2
  <2> QED
    BY <2>1, <2>2
<1>4. CASE WriteEOI
  <2>1. CASE ivrRead
    <3>1. Requests!Finish
      BY <1>4, <2>1 DEF WriteEOI, requests, Requests!Finish
    <3> QED
      BY <3>1
  <2>2. CASE ~ivrRead
    <3>1. ~inService /\ isv = Spurious
      BY <1>4, <2>2 DEF WriteEOI, ServiceAgrees
    <3>2. ivrRead \in BOOLEAN
      BY <1>0 DEF TypeOK
    <3> QED
      BY <1>4, <2>2, <3>1, <3>2 DEF WriteEOI, requests, Requests!requestVars
  <2> QED
    BY <2>1, <2>2
<1>5. ASSUME NEW v \in [vector : TimerVectors, masked : BOOLEAN], WriteITV(v)
      PROVE  [Requests!Next]_Requests!requestVars
  <2>1. v \in ITV
    BY DEF ITV
  <2> QED
    BY <1>5, <2>1, TimerRequests DEF WriteITV
<1>6. ASSUME NEW m \in Time, WriteITM(m)
      PROVE  [Requests!Next]_Requests!requestVars
  BY <1>0, <1>6, TimerRequests DEF WriteITM, TypeOK
<1>7. CASE AdvanceITC
  BY <1>0, <1>7, TimerRequests DEF AdvanceITC, TypeOK
<1>8. ASSUME NEW v \in Vectors, QueueInterrupt(v)
      PROVE  [Requests!Next]_Requests!requestVars
  <2>1. Requests!Request(v)
    BY <1>8 DEF QueueInterrupt, Counted, service, Requests!Request
  <2> QED
    BY <2>1
<1>9. CASE Reset
  <2>1. Requests!Forget
    BY <1>9 DEF Reset, Requests!Forget
  <2> QED
    BY <2>1
<1>10. CASE UNCHANGED <<pending, service>>
  BY <1>10 DEF service, Requests!requestVars
<1> QED
  BY <1>1, <1>2, <1>3, <1>4, <1>5, <1>6, <1>7, <1>8, <1>9, <1>10
     DEF Next, Step, Service, Execute, NothingToService, WriteTPR, Rfi, WritePsrI, OtherInstruction,
         WriteITC, requests, vars

\* The interrupt unit tells the guest of every request once, one at a time, and
\* enters a handler for none but the highest.
THEOREM ImplementsInterruptRequests == Spec => ImplementsRequests
<1>1. Init => Requests!Init
  BY DEF Init, Requests!Init
<1>2. IInv /\ ServiceAgrees /\ [Next]_vars => [Requests!Next]_Requests!requestVars
  BY RefinesStep
<1> QED
  BY ServiceAlwaysAgrees, <1>1, <1>2, PTL DEF Spec, ImplementsRequests, Requests!Spec
=============================================================================
