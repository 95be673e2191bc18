-------------------------- MODULE IntegerSetLemmas --------------------------
(***************************************************************************)
(* Finite nonempty sets of integers have a greatest and a least element:   *)
(* what makes the choices of findHighestEligibleInterrupt() and of         *)
(* findNextRunnableCPU() well defined whatever the vectors and the CPUs.   *)
(***************************************************************************)
EXTENDS Integers, FiniteSetTheorems, TLAPS

\* A loop that keeps the best candidate seen so far finds one when there is one
\* (IA64ISAPlugin::findHighestEligibleInterrupt).
LEMMA GreatestElement ==
  ASSUME NEW S, IsFiniteSet(S), S \subseteq Int, S # {}
  PROVE  \E m \in S : \A n \in S : m >= n
<1> DEFINE Above(v) == {w \in S : w > v}
           F == {Above(v) : v \in S}
           R == StrictSubsetOrdering(S)
<1>1. F \subseteq FiniteSubsetsOf(S)
  <2>1. \A v \in S : Above(v) \in SUBSET S
    OBVIOUS
  <2>2. \A v \in S : IsFiniteSet(Above(v))
    BY <2>1, FS_Subset
  <2> QED
    BY <2>1, <2>2 DEF FiniteSubsetsOf
<1>2. F # {}
  OBVIOUS
<1>3. IsWellFoundedOn(R, FiniteSubsetsOf(S))
  BY FS_StrictSubsetOrderingWellFounded
<1>4. \E T \in F : \A U \in F : <<U, T>> \notin R
  <2> HIDE DEF F, R
  <2> QED
    BY <1>1, <1>2, <1>3, WFMin
<1>5. PICK m \in S : \A U \in F : <<U, Above(m)>> \notin R
  BY <1>4
<1>6. ASSUME NEW n \in S, n > m
      PROVE  FALSE
  <2>1. Above(n) \subseteq Above(m)
    <3> SUFFICES ASSUME NEW w \in S, w > n
                 PROVE  w > m
      OBVIOUS
    <3>1. w \in Int /\ n \in Int /\ m \in Int
      OBVIOUS
    <3> QED
      BY <1>6, <3>1
  <2>2. n \in Above(m) /\ n \notin Above(n)
    BY <1>6
  <2>3. <<Above(n), Above(m)>> \in R
    BY <2>1, <2>2 DEF StrictSubsetOrdering
  <2> QED
    BY <1>5, <2>3
<1> QED
  BY <1>6

\* ... and a search that goes upwards finds the first
\* (SimpleCPUScheduler::findNextRunnableCPU).
LEMMA LeastElement ==
  ASSUME NEW S, IsFiniteSet(S), S \subseteq Int, S # {}
  PROVE  \E m \in S : \A n \in S : m <= n
<1> DEFINE Below(v) == {w \in S : w < v}
           F == {Below(v) : v \in S}
           R == StrictSubsetOrdering(S)
<1>1. F \subseteq FiniteSubsetsOf(S)
  <2>1. \A v \in S : Below(v) \in SUBSET S
    OBVIOUS
  <2>2. \A v \in S : IsFiniteSet(Below(v))
    BY <2>1, FS_Subset
  <2> QED
    BY <2>1, <2>2 DEF FiniteSubsetsOf
<1>2. F # {}
  OBVIOUS
<1>3. IsWellFoundedOn(R, FiniteSubsetsOf(S))
  BY FS_StrictSubsetOrderingWellFounded
<1>4. \E T \in F : \A U \in F : <<U, T>> \notin R
  <2> HIDE DEF F, R
  <2> QED
    BY <1>1, <1>2, <1>3, WFMin
<1>5. PICK m \in S : \A U \in F : <<U, Below(m)>> \notin R
  BY <1>4
<1>6. ASSUME NEW n \in S, n < m
      PROVE  FALSE
  <2>1. Below(n) \subseteq Below(m)
    <3> SUFFICES ASSUME NEW w \in S, w < n
                 PROVE  w < m
      OBVIOUS
    <3>1. w \in Int /\ n \in Int /\ m \in Int
      OBVIOUS
    <3> QED
      BY <1>6, <3>1
  <2>2. n \in Below(m) /\ n \notin Below(n)
    BY <1>6
  <2>3. <<Below(n), Below(m)>> \in R
    BY <2>1, <2>2 DEF StrictSubsetOrdering
  <2> QED
    BY <1>5, <2>3
<1> QED
  BY <1>6

\* Sets of byte-sized numbers (interrupt vectors) can be counted.
LEMMA ByteSets ==
  ASSUME NEW S, S \subseteq 0 .. 255
  PROVE  IsFiniteSet(S) /\ Cardinality(S) \in Nat
<1>1. 0 \in Int /\ 255 \in Int
  OBVIOUS
<1>2. IsFiniteSet(0 .. 255)
  BY <1>1, FS_Interval
<1>3. IsFiniteSet(S)
  BY <1>2, FS_Subset
<1> QED
  BY <1>3, FS_CardinalityType
=============================================================================
