----------------------- MODULE MachineSnapshotsProofs -----------------------
(***************************************************************************)
(* Proofs about MachineSnapshots, for any number of captures and moments   *)
(* and any chain of deltas: that a snapshot is what was taken as long as   *)
(* it resolves at all, and that the four ways of keeping a machine         *)
(* implement SnapshotStore.                                                *)
(***************************************************************************)
EXTENDS MachineSnapshots, IntegerSetLemmas, SequenceTheorems

-----------------------------------------------------------------------------
(* The invariant *)

(* What a delta stores: parts as they are, and predicates by their logical *)
(* numbers.                                                                *)
AreChanges(c) ==
  /\ DOMAIN c.parts \subseteq DeltaParts
  /\ \A p \in DOMAIN c.parts : c.parts[p] \in Nat
  /\ "rotation" \in DOMAIN c.parts => c.parts["rotation"] \in Logical
  /\ DOMAIN c.predicates \subseteq Logical
  /\ \A l \in DOMAIN c.predicates : c.predicates[l] \in Nat

(* The manager's records: what they are, that each was taken of a machine  *)
(* whose memory and registers were of one moment, and what they resolve to.*)
StoreTypes ==
  /\ issued \in Nat
  /\ DOMAIN full \cap DOMAIN delta = {}
  /\ Listed \subseteq 1 .. issued
  /\ \A id \in DOMAIN full : full[id] \in Record
  /\ \A id \in DOMAIN delta :
       /\ delta[id].parent \in 1 .. (id - 1)
       /\ AreChanges(delta[id].changes)

OrderInv ==
  /\ order \in Seq(Listed)
  /\ \A id \in Listed : \E i \in DOMAIN order : order[i] = id
  /\ \A i, j \in DOMAIN order : order[i] = order[j] => i = j

TakenInv ==
  /\ Listed \subseteq DOMAIN taken
  /\ \A id \in Listed : taken[id] \in State /\ taken[id].memory = taken[id].registers

StoreInv == StoreTypes /\ OrderInv /\ TakenInv /\ ResolvesToTaken

(* What is kept outside the manager is of one moment too. *)
HeldParts == {Recorded \ {"timer", "quantum"}, Recorded}

KeptInv ==
  /\ held # None => /\ held \in [parts : HeldParts, was : State]
                    /\ held.was.memory = held.was.registers
  /\ file # None => /\ file \in [whole : BOOLEAN, was : State]
                    /\ file.was.memory = file.was.registers

MachineInv == machine \in State /\ clock \in Nat /\ MemoryFitsRegisters

SnapshotInv == StoreInv /\ KeptInv /\ MachineInv

LEMMA InvariantParts == SnapshotInv => TypeOK /\ MemoryFitsRegisters /\ ResolvesToTaken
BY DEF SnapshotInv, StoreInv, StoreTypes, OrderInv, KeptInv, MachineInv, TypeOK

-----------------------------------------------------------------------------
(* The parts of a state *)

LEMMA PartNames ==
  /\ Plain \subseteq Parts /\ Predicates \subseteq Parts
  /\ Recorded \subseteq Parts /\ DeltaParts \subseteq Recorded
  /\ Predicates \subseteq Recorded /\ Predicates \cap DeltaParts = {}
  /\ {"nat", "rest"} \subseteq Recorded \ (DeltaParts \cup Predicates)
BY SnapshotAssumption DEF Parts, Plain, Recorded, DeltaParts

\* At any rotation, every predicate has a logical number.
LEMMA Mapped ==
  ASSUME NEW r \in Logical
  PROVE  /\ \A l \in Logical : MapPR(l, r) \in Logical /\ Predicate[MapPR(l, r)] \in Predicates
         /\ \A p \in Predicates : \E l \in Logical : Predicate[MapPR(l, r)] = p
<1>1. \A l \in Logical : MapPR(l, r) \in Logical
  BY SnapshotAssumption DEF MapPR, Logical
<1>2. ASSUME NEW i \in Logical
      PROVE  \E l \in Logical : MapPR(l, r) = i
  <2>1. NumPR \in Nat /\ r \in 0 .. (NumPR - 1) /\ i \in 0 .. (NumPR - 1)
    BY SnapshotAssumption DEF Logical
  <2>2. CASE i >= r
    <3>1. i - r \in Logical /\ MapPR(i - r, r) = i
      BY <2>1, <2>2 DEF MapPR, Logical
    <3> QED
      BY <3>1
  <2>3. CASE i < r
    <3>1. i + NumPR - r \in Logical /\ MapPR(i + NumPR - r, r) = i
      BY <2>1, <2>3 DEF MapPR, Logical
    <3> QED
      BY <3>1
  <2> QED
    BY <2>1, <2>2, <2>3
<1> QED
  BY <1>1, <1>2 DEF Predicates

\* What a delta writes to predicates, and what becomes of a record.
LEMMA WrittenPredicates ==
  ASSUME NEW base \in Record, NEW c, AreChanges(c)
  PROVE  /\ DOMAIN Written(base, c) \subseteq Predicates
         /\ \A p \in DOMAIN Written(base, c) :
              \E l \in DOMAIN c.predicates : /\ Predicate[MapPR(l, base.rotation)] = p
                                            /\ Written(base, c)[p] = c.predicates[l]
         /\ \A l \in DOMAIN c.predicates :
              Predicate[MapPR(l, base.rotation)] \in DOMAIN Written(base, c)
<1>1. \A l \in DOMAIN c.predicates : Predicate[MapPR(l, base.rotation)] \in Predicates
  BY Mapped DEF AreChanges, Record
<1> QED
  BY <1>1 DEF Written

LEMMA AppliedRecord ==
  ASSUME NEW base \in Record, NEW c, AreChanges(c)
  PROVE  /\ ApplyDelta(base, c) \in Record
         /\ \A p \in DeltaParts : ApplyDelta(base, c)[p] = IF p \in DOMAIN c.parts
                                                         THEN c.parts[p] ELSE base[p]
         /\ \A p \in Predicates : ApplyDelta(base, c)[p] = IF p \in DOMAIN Written(base, c)
                                                         THEN Written(base, c)[p] ELSE base[p]
<1> DEFINE applied == ApplyDelta(base, c)
           written == Written(base, c)
<1>1. DOMAIN written \subseteq Predicates /\ \A p \in DOMAIN written : written[p] \in Nat
  BY WrittenPredicates DEF AreChanges
<1>2. applied = [p \in Recorded |->
        CASE p \in DOMAIN c.parts -> c.parts[p]
          [] p = "nat" /\ "registers" \in DOMAIN c.parts -> 0
          [] p \in DOMAIN written -> written[p]
          [] OTHER -> base[p]]
  BY Zenon DEF ApplyDelta
<1> HIDE DEF applied, written
<1>3. DOMAIN c.parts \subseteq DeltaParts /\ "nat" \notin DeltaParts \cup Predicates
  BY PartNames DEF AreChanges
<1>4. ASSUME NEW p \in DeltaParts
      PROVE  applied[p] = IF p \in DOMAIN c.parts THEN c.parts[p] ELSE base[p]
  <2>1. p \in Recorded /\ p \notin DOMAIN written /\ p # "nat"
    BY <1>1, <1>3, PartNames
  <2> QED
    BY <1>2, <2>1
<1>5. ASSUME NEW p \in Predicates
      PROVE  applied[p] = IF p \in DOMAIN written THEN written[p] ELSE base[p]
  <2>1. p \in Recorded /\ p \notin DOMAIN c.parts /\ p # "nat"
    BY <1>1, <1>3, PartNames
  <2> QED
    BY <1>2, <2>1
<1>6. base \in [Recorded -> Nat] /\ base.rotation \in Logical
  BY DEF Record
<1>7. applied \in [Recorded -> Nat]
  <2>1. \A p \in DOMAIN c.parts : c.parts[p] \in Nat
    BY DEF AreChanges
  <2> SUFFICES ASSUME NEW p \in Recorded
               PROVE  applied[p] \in Nat
    BY <1>2
  <2>2. \/ applied[p] = c.parts[p] /\ p \in DOMAIN c.parts
        \/ applied[p] = 0
        \/ applied[p] = written[p] /\ p \in DOMAIN written
        \/ applied[p] = base[p]
    BY <1>2
  <2> QED
    BY <1>1, <1>6, <2>1, <2>2
<1>8. applied.rotation \in Logical
  BY <1>4, <1>6 DEF DeltaParts, AreChanges
<1> QED
  BY <1>4, <1>5, <1>7, <1>8 DEF Record, applied, written

-----------------------------------------------------------------------------
(* resolveSnapshot() *)

(* One call of it, when R is what its calls for the parents return. *)
Resolves(f, d, R, i) ==
  IF i \in DOMAIN f THEN f[i]
  ELSE IF i \in DOMAIN d /\ R[d[i].parent] # None
  THEN ApplyDelta(R[d[i].parent], d[i].changes)
  ELSE None

(* A parent is older than what was taken of it. *)
Parented(d) == \A i \in DOMAIN d : d[i].parent \in 1 .. (i - 1)

LEMMA ResolvesFrame ==
  ASSUME NEW f, NEW d, NEW R, NEW S, NEW i, Parented(d),
         \A j \in 1 .. (i - 1) : R[j] = S[j]
  PROVE  Resolves(f, d, R, i) = Resolves(f, d, S, i)
BY DEF Resolves, Parented

\* The recursion along the parents ends: up to any identifier there is a
\* function that does at each what one call does.
LEMMA ResolutionExists ==
  ASSUME NEW f, NEW d, NEW n \in Nat, Parented(d)
  PROVE  \E R : R = [i \in 1 .. n |-> Resolves(f, d, R, i)]
<1> DEFINE Exists(k) == \E R : R = [i \in 1 .. k |-> Resolves(f, d, R, i)]
           Without == {k \in 0 .. n : ~Exists(k)}
<1>1. Exists(0)
  <2> DEFINE R == [i \in 1 .. 0 |-> None]
  <2>1. R = [i \in 1 .. 0 |-> Resolves(f, d, R, i)]
    OBVIOUS
  <2> QED
    BY <2>1
<1>2. ASSUME NEW k \in 1 .. n, Exists(k - 1)
      PROVE  Exists(k)
  <2>1. PICK R : R = [i \in 1 .. (k - 1) |-> Resolves(f, d, R, i)]
    BY <1>2
  <2> DEFINE S == [i \in 1 .. k |-> IF i = k THEN Resolves(f, d, R, k) ELSE R[i]]
  <2>2. \A i \in 1 .. (k - 1) : S[i] = R[i]
    OBVIOUS
  <2>3. ASSUME NEW i \in 1 .. k
        PROVE  S[i] = Resolves(f, d, S, i)
    <3>1. \A j \in 1 .. (i - 1) : R[j] = S[j]
      BY <2>2
    <3>2. Resolves(f, d, R, i) = Resolves(f, d, S, i)
      BY <3>1, ResolvesFrame
    <3>3. S[i] = Resolves(f, d, R, i)
      <4>1. CASE i = k
        BY <4>1
      <4>2. CASE i # k
        <5>1. i \in 1 .. (k - 1)
          BY <4>2
        <5> QED
          BY <5>1, <2>1, <2>2
      <4> QED
        BY <4>1, <4>2
    <3> QED
      BY <3>2, <3>3
  <2>4. S = [i \in 1 .. k |-> Resolves(f, d, S, i)]
    BY <2>3
  <2> QED
    BY <2>4
<1>3. Without = {}
  <2> SUFFICES ASSUME Without # {}
               PROVE  FALSE
    OBVIOUS
  <2>1. IsFiniteSet(Without) /\ Without \subseteq Int
    <3>1. IsFiniteSet(0 .. n)
      BY FS_Interval
    <3> QED
      BY <3>1, FS_Subset
  <2>2. PICK m \in Without : \A k \in Without : m <= k
    <3> HIDE DEF Without
    <3> QED
      BY <2>1, LeastElement
  <2>3. m \in 1 .. n
    <3>1. m \in 0 .. n /\ ~Exists(m)
      OBVIOUS
    <3> HIDE DEF Exists
    <3>2. m # 0
      BY <1>1, <3>1
    <3> QED
      BY <3>1, <3>2
  <2>4. m - 1 \notin Without /\ m - 1 \in 0 .. n
    BY <2>2, <2>3
  <2> QED
    BY <1>2, <2>3, <2>4
<1> QED
  BY <1>3

LEMMA ResolutionStep ==
  ASSUME NEW f, NEW d, NEW n \in Nat, Parented(d), NEW i \in 1 .. n
  PROVE  Resolution(f, d, n)[i] = Resolves(f, d, Resolution(f, d, n), i)
<1> DEFINE Step(R) == [j \in 1 .. n |-> Resolves(f, d, R, j)]
<1>1. Resolution(f, d, n) =
        CHOOSE R : R = [j \in 1 .. n |->
          IF j \in DOMAIN f THEN f[j]
          ELSE IF j \in DOMAIN d
          THEN IF R[d[j].parent] = None THEN None
               ELSE ApplyDelta(R[d[j].parent], d[j].changes)
          ELSE None]
  BY Zenon DEF Resolution
<1>2. ASSUME NEW R, NEW j
      PROVE  (IF j \in DOMAIN f THEN f[j]
              ELSE IF j \in DOMAIN d
              THEN IF R[d[j].parent] = None THEN None
                   ELSE ApplyDelta(R[d[j].parent], d[j].changes)
              ELSE None) = Resolves(f, d, R, j)
  BY DEF Resolves
<1>3. Resolution(f, d, n) = CHOOSE R : R = Step(R)
  BY <1>1, <1>2
<1>4. \E R : R = Step(R)
  BY ResolutionExists
<1>5. Resolution(f, d, n) = Step(Resolution(f, d, n))
  BY <1>3, <1>4
<1> QED
  BY <1>5

\* What resolves is a full record.
LEMMA ResolutionType ==
  ASSUME NEW f, NEW d, NEW n \in Nat, Parented(d),
         \A i \in DOMAIN f : f[i] \in Record,
         \A i \in DOMAIN d : AreChanges(d[i].changes)
  PROVE  \A i \in 1 .. n : Resolution(f, d, n)[i] \in Record \cup {None}
<1> DEFINE R == Resolution(f, d, n)
           Odd == {i \in 1 .. n : R[i] \notin Record \cup {None}}
<1> SUFFICES ASSUME Odd # {}
             PROVE  FALSE
  OBVIOUS
<1> HIDE DEF R
<1>1. IsFiniteSet(Odd) /\ Odd \subseteq Int
  <2>1. IsFiniteSet(1 .. n)
    BY FS_Interval
  <2> QED
    BY <2>1, FS_Subset
<1>2. PICK m \in Odd : \A k \in Odd : m <= k
  <2> HIDE DEF Odd
  <2> QED
    BY <1>1, LeastElement
<1>3. R[m] = Resolves(f, d, R, m)
  BY ResolutionStep DEF R
<1>4. m \in DOMAIN d \ DOMAIN f /\ R[d[m].parent] # None
  BY <1>3 DEF Resolves
<1>5. d[m].parent \in 1 .. n /\ d[m].parent < m
  BY <1>4 DEF Parented
<1>6. R[d[m].parent] \in Record
  BY <1>2, <1>4, <1>5
<1>7. ApplyDelta(R[d[m].parent], d[m].changes) \in Record
  BY <1>4, <1>6, AppliedRecord
<1> QED
  BY <1>3, <1>4, <1>7 DEF Resolves

\* As long as records are only taken away, and new ones added above them, a
\* snapshot resolves to what it did, or to nothing.
LEMMA ResolutionShrinks ==
  ASSUME NEW f, NEW d, NEW n \in Nat, Parented(d), DOMAIN f \cap DOMAIN d = {},
         NEW g, NEW e, NEW o \in Nat, Parented(e),
         NEW m \in Nat, m <= n, m <= o,
         \A i \in 1 .. m : i \in DOMAIN g => i \in DOMAIN f /\ g[i] = f[i],
         \A i \in 1 .. m : i \in DOMAIN e => i \in DOMAIN d /\ e[i] = d[i]
  PROVE  \A i \in 1 .. m : Resolution(g, e, o)[i] \in {Resolution(f, d, n)[i], None}
<1> DEFINE R == Resolution(f, d, n)
           S == Resolution(g, e, o)
           Odd == {i \in 1 .. m : S[i] \notin {R[i], None}}
<1> SUFFICES ASSUME Odd # {}
             PROVE  FALSE
  OBVIOUS
<1> HIDE DEF R, S
<1>1. IsFiniteSet(Odd) /\ Odd \subseteq Int
  <2>1. IsFiniteSet(1 .. m)
    BY FS_Interval
  <2> QED
    BY <2>1, FS_Subset
<1>2. PICK k \in Odd : \A i \in Odd : k <= i
  <2> HIDE DEF Odd
  <2> QED
    BY <1>1, LeastElement
<1>3. R[k] = Resolves(f, d, R, k) /\ S[k] = Resolves(g, e, S, k)
  BY ResolutionStep DEF R, S
<1>4. CASE k \in DOMAIN g
  BY <1>3, <1>4 DEF Resolves
<1>5. CASE k \in DOMAIN e \ DOMAIN g /\ S[e[k].parent] # None
  <2>1. k \in DOMAIN d /\ k \notin DOMAIN f /\ e[k] = d[k]
    BY <1>5
  <2>2. d[k].parent \in 1 .. m /\ d[k].parent < k
    BY <2>1 DEF Parented
  <2>3. S[d[k].parent] = R[d[k].parent]
    BY <1>2, <1>5, <2>1, <2>2
  <2> QED
    BY <1>3, <1>5, <2>1, <2>3 DEF Resolves
<1>6. CASE k \notin DOMAIN g /\ ~(k \in DOMAIN e /\ S[e[k].parent] # None)
  BY <1>3, <1>6 DEF Resolves
<1> QED
  BY <1>4, <1>5, <1>6

\* A new snapshot does not change what the others resolve to.
LEMMA ResolutionGrows ==
  ASSUME NEW f, NEW d, NEW n \in Nat, Parented(d), DOMAIN f \cap DOMAIN d = {},
         NEW g, NEW e, Parented(e), DOMAIN g \cap DOMAIN e = {},
         \A i \in 1 .. n : /\ i \in DOMAIN f <=> i \in DOMAIN g
                           /\ i \in DOMAIN d <=> i \in DOMAIN e
                           /\ i \in DOMAIN f => f[i] = g[i]
                           /\ i \in DOMAIN d => d[i] = e[i]
  PROVE  \A i \in 1 .. n : Resolution(g, e, n + 1)[i] = Resolution(f, d, n)[i]
<1>1. \A i \in 1 .. n : Resolution(g, e, n + 1)[i] \in {Resolution(f, d, n)[i], None}
  BY ResolutionShrinks
<1>2. \A i \in 1 .. n : Resolution(f, d, n)[i] \in {Resolution(g, e, n + 1)[i], None}
  BY ResolutionShrinks
<1> QED
  BY <1>1, <1>2

-----------------------------------------------------------------------------
(* The identifiers *)

\* deleteSnapshot() leaves the other identifiers listed, each of them once.
LEMMA RemovedFirst ==
  ASSUME NEW T, NEW s \in Seq(T), NEW e,
         \A i, j \in DOMAIN s : s[i] = s[j] => i = j
  PROVE  /\ RemoveFirst(s, e) \in Seq(T \ {e})
         /\ \A i \in DOMAIN s : s[i] # e =>
              \E j \in DOMAIN RemoveFirst(s, e) : RemoveFirst(s, e)[j] = s[i]
         /\ \A i, j \in DOMAIN RemoveFirst(s, e) :
              RemoveFirst(s, e)[i] = RemoveFirst(s, e)[j] => i = j
<1> DEFINE n == Len(s)
           r == RemoveFirst(s, e)
<1>1. n \in Nat /\ DOMAIN s = 1 .. n /\ \A i \in 1 .. n : s[i] \in T
  OBVIOUS
<1>2. CASE \A i \in 1 .. n : s[i] # e
  <2>1. r = s
    BY <1>2 DEF RemoveFirst
  <2>2. s \in Seq(T \ {e})
    BY <1>1, <1>2
  <2> QED
    BY <1>1, <2>1, <2>2
<1>3. ASSUME NEW k \in 1 .. n, s[k] = e
      PROVE  /\ r = SubSeq(s, 1, k - 1) \o SubSeq(s, k + 1, n)
  <2>1. {i \in 1 .. n : s[i] = e} = {k}
    BY <1>1, <1>3
  <2>2. (CHOOSE x \in {k} : \A y \in {k} : x <= y) = k
    BY <1>3
  <2>3. SelectInSeq(s, LAMBDA v : v = e) = k
    BY <2>1, <2>2 DEF SelectInSeq, Min
  <2> QED
    BY <1>3, <2>3 DEF RemoveFirst, RemoveAt
<1>4. ASSUME NEW k \in 1 .. n, s[k] = e
      PROVE  /\ Len(r) = n - 1 /\ DOMAIN r = 1 .. (n - 1)
             /\ \A i \in 1 .. (n - 1) : r[i] = IF i < k THEN s[i] ELSE s[i + 1]
             /\ r \in Seq(T \ {e})
  <2>1. r = SubSeq(s, 1, k - 1) \o SubSeq(s, k + 1, n)
    BY <1>3, <1>4
  <2> HIDE DEF r
  <2> DEFINE before == SubSeq(s, 1, k - 1)
             after == SubSeq(s, k + 1, n)
  <2>2. /\ before \in Seq(T) /\ Len(before) = k - 1
        /\ \A i \in 1 .. (k - 1) : before[i] = s[i]
    <3>1. \A i \in 1 .. (k - 1) : s[i] \in T
      BY <1>1
    <3>2. 1 \in Int /\ k - 1 \in Int /\ (k - 1) - 1 + 1 = k - 1
      BY <1>1
    <3>3. /\ before \in Seq(T) /\ Len(before) = IF 1 <= k - 1 THEN (k - 1) - 1 + 1 ELSE 0
          /\ \A i \in 1 .. ((k - 1) - 1 + 1) : before[i] = s[1 + i - 1]
      BY <3>1, <3>2, SubSeqProperties
    <3> HIDE DEF before
    <3> QED
      BY <1>1, <3>2, <3>3
  <2>3. /\ after \in Seq(T) /\ Len(after) = n - k
        /\ \A i \in 1 .. (n - k) : after[i] = s[k + i]
    <3>1. \A i \in (k + 1) .. n : s[i] \in T
      BY <1>1
    <3>2. k + 1 \in Int /\ n \in Int /\ n - (k + 1) + 1 = n - k
      BY <1>1
    <3>3. /\ after \in Seq(T) /\ Len(after) = IF k + 1 <= n THEN n - (k + 1) + 1 ELSE 0
          /\ \A i \in 1 .. (n - (k + 1) + 1) : after[i] = s[(k + 1) + i - 1]
      BY <3>1, <3>2, SubSeqProperties
    <3> HIDE DEF after
    <3>4. Len(after) = n - k
      <4>0. Len(after) = IF k + 1 <= n THEN n - (k + 1) + 1 ELSE 0
        BY <3>3, Zenon
      <4> HIDE DEF before
      <4>1. CASE k = n
        BY <1>1, <3>3, <4>1
      <4>2. CASE k # n
        <5>1. k + 1 <= n
          <6>1. n \in Nat
            BY <1>1
          <6> QED
            BY <6>1, <4>2
        <5>2. Len(after) = n - (k + 1) + 1
          BY <4>0, <5>1, Zenon
        <5> QED
          BY <3>2, <5>2
      <4> QED
        BY <4>1, <4>2
    <3>5. ASSUME NEW i \in 1 .. (n - k)
          PROVE  after[i] = s[k + i]
      <4>1. (k + 1) + i - 1 = k + i
        BY <1>1
      <4> QED
        BY <3>2, <3>3, <4>1
    <3> QED
      BY <3>3, <3>4, <3>5
  <2> HIDE DEF before, after, n
  <2>4. /\ r \in Seq(T) /\ Len(r) = n - 1 /\ DOMAIN r = 1 .. (n - 1)
        /\ \A i \in 1 .. (n - 1) : r[i] = IF i < k THEN s[i] ELSE s[i + 1]
    <3>1. /\ r \in Seq(T) /\ Len(r) = Len(before) + Len(after)
          /\ \A i \in 1 .. Len(before) + Len(after) :
               r[i] = IF i <= Len(before) THEN before[i] ELSE after[i - Len(before)]
      BY <2>1, <2>2, <2>3, ConcatProperties DEF before, after
    <3>2. Len(r) = n - 1 /\ DOMAIN r = 1 .. (n - 1)
      BY <1>1, <2>2, <2>3, <3>1
    <3>3. ASSUME NEW i \in 1 .. (n - 1)
          PROVE  r[i] = IF i < k THEN s[i] ELSE s[i + 1]
      <4>1. CASE i < k
        BY <1>1, <2>2, <2>3, <3>1, <4>1
      <4>2. CASE i >= k
        <5>1. r[i] = after[i - (k - 1)]
          BY <1>1, <2>2, <2>3, <3>1, <4>2
        <5>2. i - (k - 1) \in 1 .. (n - k) /\ k + (i - (k - 1)) = i + 1
          BY <1>1, <4>2
        <5> QED
          BY <2>3, <4>2, <5>1, <5>2
      <4> QED
        BY <1>1, <4>1, <4>2
    <3> QED
      BY <3>1, <3>2, <3>3
  <2>5. \A i \in 1 .. (n - 1) : r[i] \in T \ {e}
    <3> SUFFICES ASSUME NEW i \in 1 .. (n - 1)
                 PROVE  r[i] \in T /\ r[i] # e
      OBVIOUS
    <3>1. i \in 1 .. n /\ i + 1 \in 1 .. n
      BY <1>1
    <3>2. s[i] \in T /\ s[i + 1] \in T
      BY <1>1, <3>1
    <3>3. i < k => s[i] # e
      BY <1>1, <1>4, <3>1
    <3>4. ~(i < k) => s[i + 1] # e
      BY <1>1, <1>4, <3>1
    <3> QED
      BY <2>4, <3>2, <3>3, <3>4
  <2> QED
    BY <2>4, <2>5
<1>5. CASE \E k \in 1 .. n : s[k] = e
  <2>1. PICK k \in 1 .. n : s[k] = e
    BY <1>5
  <2> HIDE DEF r, n
  <2>2. /\ DOMAIN r = 1 .. (n - 1) /\ r \in Seq(T \ {e})
        /\ \A i \in 1 .. (n - 1) : r[i] = IF i < k THEN s[i] ELSE s[i + 1]
    BY <1>4, <2>1
  <2>3. ASSUME NEW i \in DOMAIN s, s[i] # e
        PROVE  \E j \in DOMAIN r : r[j] = s[i]
    <3>1. CASE i < k
      BY <1>1, <2>1, <2>2, <3>1
    <3>2. CASE i > k
      <4>1. i - 1 \in 1 .. (n - 1) /\ ~(i - 1 < k)
        BY <1>1, <2>1, <3>2
      <4>2. r[i - 1] = s[i]
        BY <1>1, <2>2, <4>1
      <4> QED
        BY <2>2, <4>1, <4>2
    <3> QED
      BY <1>1, <2>1, <2>3, <3>1, <3>2
  <2>4. ASSUME NEW i \in DOMAIN r, NEW j \in DOMAIN r, r[i] = r[j]
        PROVE  i = j
    <3> DEFINE At(x) == IF x < k THEN x ELSE x + 1
    <3>1. i \in 1 .. (n - 1) /\ j \in 1 .. (n - 1)
      BY <2>2
    <3>2. At(i) \in 1 .. n /\ At(j) \in 1 .. n
      BY <1>1, <3>1
    <3>3. r[i] = s[At(i)] /\ r[j] = s[At(j)]
      BY <2>2, <3>1
    <3>4. At(i) = At(j)
      BY <1>1, <2>4, <3>2, <3>3
    <3> QED
      BY <1>1, <3>1, <3>4
  <2> QED
    BY <2>2, <2>3, <2>4 DEF r
<1> QED
  BY <1>2, <1>5

-----------------------------------------------------------------------------
(* The manager's records *)

LEMMA NewMachineState == NewMachine \in State
<1>1. NewMachine.rotation = 0 /\ 0 \in Logical
  BY SnapshotAssumption DEF NewMachine, Parts, Plain, Logical
<1> QED
  BY <1>1 DEF NewMachine, State

LEMMA InitInvariant == Init => SnapshotInv
<1> SUFFICES ASSUME Init
             PROVE  SnapshotInv
  OBVIOUS
<1>1. Listed = {} /\ full = <<>> /\ delta = <<>> /\ order = <<>> /\ issued = 0
  BY DEF Init, Listed
<1>2. StoreInv
  BY <1>1 DEF StoreInv, StoreTypes, OrderInv, TakenInv, ResolvesToTaken
<1>3. KeptInv
  BY DEF Init, KeptInv
<1>4. MachineInv
  BY NewMachineState DEF Init, NewMachine, MachineInv, MemoryFitsRegisters, Parts, Plain
<1> QED
  BY <1>2, <1>3, <1>4 DEF SnapshotInv

\* What a snapshot of the machine records, and the delta that turns another
\* record into it: the predicates only if neither was rotated since the other.
LEMMA CapturedRecord ==
  ASSUME machine \in State
  PROVE  /\ CaptureFullSnapshot \in Record
         /\ \A p \in Exact \cup Predicates \cup {"rest", "nat"} :
              CaptureFullSnapshot[p] = machine[p]
         /\ Exact \subseteq DeltaParts
<1>1. Predicates \cap (Fieldless \cup Unseen) = {}
  BY SnapshotAssumption DEF Fieldless, Unseen, Plain
<1>2. Exact \subseteq DeltaParts
  BY DEF Exact, DeltaParts
<1>3. \A p \in Exact \cup Predicates \cup {"rest", "nat"} :
        p \in Recorded /\ p \notin Fieldless \cup Unseen
  BY <1>1, <1>2, PartNames DEF Exact, Fieldless, Unseen
<1>4. \A p \in Exact \cup Predicates \cup {"rest", "nat"} : CaptureFullSnapshot[p] = machine[p]
  BY <1>3 DEF CaptureFullSnapshot
<1>5. CaptureFullSnapshot \in [Recorded -> Nat]
  BY PartNames DEF CaptureFullSnapshot, State
<1>6. CaptureFullSnapshot.rotation \in Logical
  BY <1>4 DEF Exact, State
<1> QED
  BY <1>2, <1>4, <1>5, <1>6 DEF Record

LEMMA DeltaOfRecord ==
  ASSUME NEW current \in Record, NEW parent \in Record
  PROVE  LET changes == ComputeDelta(current, parent)
             applied == ApplyDelta(parent, changes)
         IN /\ AreChanges(changes)
            /\ \A p \in DeltaParts : applied[p] = current[p]
            /\ "rotation" \notin DOMAIN changes.parts =>
                 \A p \in Predicates : applied[p] = current[p]
<1> DEFINE changes == ComputeDelta(current, parent)
           applied == ApplyDelta(parent, changes)
           turned  == {l \in Logical : PR(current, l) # PR(parent, l)}
<1>1. /\ changes.parts = [p \in {q \in DeltaParts : current[q] # parent[q]} |-> current[p]]
      /\ changes.predicates = [l \in turned |-> PR(current, l)]
  BY DEF ComputeDelta
<1>2. /\ current \in [Recorded -> Nat] /\ current.rotation \in Logical
      /\ parent \in [Recorded -> Nat] /\ parent.rotation \in Logical
  BY DEF Record
<1>3. AreChanges(changes)
  <2>1. \A p \in DOMAIN changes.parts : changes.parts[p] = current[p] /\ p \in DeltaParts
    BY <1>1
  <2>2. \A l \in turned : PR(current, l) \in Nat
    BY <1>2, Mapped, PartNames DEF PR
  <2> HIDE DEF changes
  <2> QED
    BY <1>1, <1>2, <2>1, <2>2, PartNames DEF AreChanges
<1> HIDE DEF changes
<1>4. \A p \in DeltaParts : applied[p] = current[p]
  BY <1>1, <1>3, AppliedRecord
<1>5. ASSUME "rotation" \notin DOMAIN changes.parts, NEW p \in Predicates
      PROVE  applied[p] = current[p]
  <2> DEFINE written == Written(parent, changes)
             rotation == parent.rotation
  <2>1. current.rotation = rotation
    BY <1>1, <1>5 DEF DeltaParts
  <2>2. applied[p] = IF p \in DOMAIN written THEN written[p] ELSE parent[p]
    BY <1>3, AppliedRecord
  <2>3. CASE p \in DOMAIN written
    <3>1. PICK l \in DOMAIN changes.predicates :
            /\ Predicate[MapPR(l, rotation)] = p
            /\ written[p] = changes.predicates[l]
      BY <1>3, <2>3, WrittenPredicates
    <3>2. written[p] = PR(current, l)
      BY <1>1, <3>1
    <3> QED
      BY <2>1, <2>2, <2>3, <3>1, <3>2 DEF PR
  <2>4. CASE p \notin DOMAIN written
    <3>1. PICK l \in Logical : Predicate[MapPR(l, rotation)] = p
      BY <1>2, Mapped
    <3>2. l \notin DOMAIN changes.predicates
      BY <1>3, <2>4, <3>1, WrittenPredicates
    <3>3. PR(current, l) = PR(parent, l)
      BY <1>1, <3>2
    <3> QED
      BY <2>1, <2>2, <2>4, <3>1, <3>3 DEF PR
  <2> HIDE DEF written
  <2> QED
    BY <2>3, <2>4
<1> QED
  BY <1>3, <1>4, <1>5 DEF changes

\* A snapshot that is made is listed above all others, of the machine as it
\* is, and changes none of what they resolve to.
MadeFull ==
  /\ full' = Keep(full, issued + 1, CaptureFullSnapshot)
  /\ delta' = delta
  /\ Store(issued + 1)

MadeDelta(parent) ==
  LET base == ResolveSnapshot(parent) IN
  /\ parent \in Listed
  /\ delta' = Keep(delta, issued + 1,
        [parent |-> parent, changes |-> IF base = None THEN NoChanges
                              ELSE ComputeDelta(CaptureFullSnapshot, base)])
  /\ full' = full
  /\ Store(issued + 1)

LEMMA ResolvedRecord ==
  ASSUME StoreTypes, NEW id \in Listed, ResolveSnapshot(id) # None
  PROVE  ResolveSnapshot(id) \in Record
<1>1. Parented(delta)
  BY DEF StoreTypes, Parented
<1>2. issued \in Nat /\ id \in 1 .. issued
  BY DEF StoreTypes
<1>3. \A i \in 1 .. issued : Resolution(full, delta, issued)[i] \in Record \cup {None}
  BY <1>1, <1>2, ResolutionType DEF StoreTypes
<1> QED
  BY <1>2, <1>3 DEF ResolveSnapshot

LEMMA MadeTypes ==
  ASSUME StoreTypes, OrderInv, TakenInv, MachineInv,
         MadeFull \/ \E parent \in Listed : MadeDelta(parent)
  PROVE  /\ StoreTypes' /\ OrderInv' /\ TakenInv'
         /\ Listed' = Listed \cup {issued + 1}
         /\ taken' = Keep(taken, issued + 1, machine)
<1> DEFINE id == issued + 1
<1>1. issued \in Nat /\ id \notin Listed /\ issued' = id
  <2>1. issued \in Nat /\ id \notin 1 .. issued
    BY DEF StoreTypes
  <2>2. issued' = id
    BY DEF Store, MadeFull, MadeDelta
  <2> QED
    BY <2>1, <2>2 DEF StoreTypes
<1>2. Listed' = Listed \cup {id}
  BY DEF MadeFull, MadeDelta, Listed, Keep
<1>3. StoreTypes'
  <2>1. DOMAIN full' \cap DOMAIN delta' = {}
    BY <1>1 DEF StoreTypes, MadeFull, MadeDelta, Listed, Keep
  <2>2. Listed' \subseteq 1 .. issued'
    BY <1>1, <1>2 DEF StoreTypes
  <2>3. ASSUME NEW x \in DOMAIN full'
        PROVE  full'[x] \in Record
    <3>1. CaptureFullSnapshot \in Record
      BY CapturedRecord DEF MachineInv
    <3> QED
      BY <2>3, <3>1 DEF MadeFull, MadeDelta, Keep, StoreTypes
  <2>4. ASSUME NEW x \in DOMAIN delta'
        PROVE  delta'[x].parent \in 1 .. (x - 1) /\ AreChanges(delta'[x].changes)
    <3>1. CASE x # id
      <4>1. x \in DOMAIN delta /\ delta'[x] = delta[x]
        BY <2>4, <3>1 DEF MadeFull, MadeDelta, Keep
      <4> QED
        BY <4>1 DEF StoreTypes
    <3>2. CASE x = id
      <4>1. PICK parent \in Listed : MadeDelta(parent)
        BY <1>1, <2>4, <3>2 DEF MadeFull, Listed
      <4> DEFINE base == ResolveSnapshot(parent)
                 changes == IF base = None THEN NoChanges ELSE ComputeDelta(CaptureFullSnapshot, base)
      <4>2. delta'[x] = [parent |-> parent, changes |-> changes]
        BY <3>2, <4>1 DEF MadeDelta, Keep
      <4>3. parent \in 1 .. (x - 1)
        BY <1>1, <3>2 DEF StoreTypes
      <4>4. AreChanges(changes)
        <5>1. CASE base = None
          BY <5>1 DEF NoChanges, AreChanges
        <5>2. CASE base # None
          <6>1. base \in Record /\ CaptureFullSnapshot \in Record
            BY <5>2, ResolvedRecord, CapturedRecord DEF MachineInv
          <6> QED
            BY <5>2, <6>1, DeltaOfRecord
        <5> QED
          BY <5>1, <5>2
      <4> QED
        BY <4>2, <4>3, <4>4
    <3> QED
      BY <3>1, <3>2
  <2> QED
    BY <1>1, <2>1, <2>2, <2>3, <2>4 DEF StoreTypes
<1>4. OrderInv'
  <2>1. order' = Append(order, id) /\ order \in Seq(Listed)
    BY DEF MadeFull, MadeDelta, Store, OrderInv
  <2>2. /\ order' \in Seq(Listed') /\ DOMAIN order = 1 .. Len(order) /\ Len(order) \in Nat
        /\ DOMAIN order' = 1 .. (Len(order) + 1)
        /\ \A i \in 1 .. Len(order) : order'[i] = order[i] /\ order[i] \in Listed
        /\ order'[Len(order) + 1] = id
    BY <1>2, <2>1
  <2>3. ASSUME NEW x \in Listed'
        PROVE  \E i \in DOMAIN order' : order'[i] = x
    <3>1. CASE x = id
      BY <2>2, <3>1
    <3>2. CASE x \in Listed
      BY <2>2, <3>2 DEF OrderInv
    <3> QED
      BY <1>2, <3>1, <3>2
  <2>4. ASSUME NEW i \in DOMAIN order', NEW j \in DOMAIN order', order'[i] = order'[j]
        PROVE  i = j
    BY <1>1, <2>2, <2>4 DEF OrderInv
  <2> QED
    BY <2>2, <2>3, <2>4 DEF OrderInv
<1>5. taken' = Keep(taken, id, machine)
  BY DEF MadeFull, MadeDelta, Store
<1>6. TakenInv'
  BY <1>2, <1>5 DEF TakenInv, Keep, MachineInv, MemoryFitsRegisters
<1> QED
  BY <1>2, <1>3, <1>4, <1>5, <1>6

\* ... which stay what they were.
LEMMA MadeResolves ==
  ASSUME StoreTypes, StoreTypes',
         MadeFull \/ \E parent \in Listed : MadeDelta(parent)
  PROVE  \A id \in Listed : id \in Listed' /\ ResolveSnapshot(id)' = ResolveSnapshot(id)
<1>1. issued \in Nat /\ issued' = issued + 1
  BY DEF StoreTypes, Store, MadeFull, MadeDelta
<1>2. Parented(delta) /\ Parented(delta')
  BY DEF StoreTypes, Parented
<1>3. \A i \in 1 .. issued : /\ i \in DOMAIN full <=> i \in DOMAIN full'
                             /\ i \in DOMAIN delta <=> i \in DOMAIN delta'
                             /\ i \in DOMAIN full => full[i] = full'[i]
                             /\ i \in DOMAIN delta => delta[i] = delta'[i]
  BY <1>1 DEF MadeFull, MadeDelta, Keep
<1>4. \A i \in 1 .. issued :
        Resolution(full', delta', issued + 1)[i] = Resolution(full, delta, issued)[i]
  <2>1. DOMAIN full \cap DOMAIN delta = {} /\ DOMAIN full' \cap DOMAIN delta' = {}
    BY DEF StoreTypes
  <2> HIDE DEF StoreTypes, MadeFull, MadeDelta
  <2> QED
    BY <1>1, <1>2, <1>3, <2>1, ResolutionGrows
<1>5. \A id \in Listed : id \in 1 .. issued /\ id \in 1 .. issued' /\ id \in Listed'
  BY <1>1 DEF StoreTypes, MadeFull, MadeDelta, Keep, Listed
<1> QED
  BY <1>1, <1>4, <1>5 DEF ResolveSnapshot

\* What ResolvesToTaken says of one snapshot.
AsTaken(id) ==
  /\ \A p \in Exact : ResolveSnapshot(id)[p] = taken[id][p]
  /\ id \in DOMAIN full \/ "rotation" \notin DOMAIN delta[id].changes.parts =>
       \A p \in Predicates : ResolveSnapshot(id)[p] = taken[id][p]
  /\ id \in DOMAIN full => \A p \in {"rest", "nat"} : ResolveSnapshot(id)[p] = taken[id][p]

LEMMA TakenAsTaken ==
  /\ ResolvesToTaken <=> \A id \in Listed : ResolveSnapshot(id) # None => AsTaken(id)
  /\ ResolvesToTaken' <=> \A id \in Listed' : ResolveSnapshot(id)' # None => AsTaken(id)'
BY DEF ResolvesToTaken, AsTaken

\* The new snapshot resolves, if at all, to the machine as it was.
LEMMA MadeInvariant ==
  ASSUME StoreInv, MachineInv,
         MadeFull \/ \E parent \in Listed : MadeDelta(parent)
  PROVE  StoreInv'
<1>0. PICK id : id = issued + 1
  OBVIOUS
<1>1. /\ StoreTypes' /\ OrderInv' /\ TakenInv'
      /\ Listed' = Listed \cup {id} /\ taken' = Keep(taken, id, machine)
  BY <1>0, MadeTypes DEF StoreInv
<1>2. \A x \in Listed : ResolveSnapshot(x)' = ResolveSnapshot(x)
  BY <1>1, MadeResolves DEF StoreInv
<1>3. issued \in Nat /\ issued' = id /\ id \notin Listed /\ id \in 1 .. id
  <2>1. issued \in Nat /\ id \notin 1 .. issued
    BY <1>0 DEF StoreInv, StoreTypes
  <2>2. issued' = id
    BY <1>0 DEF Store, MadeFull, MadeDelta
  <2>3. id \in 1 .. id
    BY <1>0, <2>1
  <2> QED
    BY <2>1, <2>2, <2>3 DEF StoreInv, StoreTypes
<1>4. ResolveSnapshot(id)' = Resolves(full', delta', Resolution(full', delta', id), id)
  <2>1. Parented(delta')
    BY <1>1 DEF StoreTypes, Parented
  <2>2. Resolution(full', delta', id)[id] = Resolves(full', delta', Resolution(full', delta', id), id)
    BY <1>3, <2>1, ResolutionStep
  <2> QED
    BY <1>3, <2>2 DEF ResolveSnapshot
<1>5. ASSUME ResolveSnapshot(id)' # None
      PROVE  AsTaken(id)'
  <2>1. taken'[id] = machine
    BY <1>1 DEF Keep
  <2> DEFINE resolved == ResolveSnapshot(id)'
             captured == CaptureFullSnapshot
  <2>2. /\ captured \in Record /\ Exact \subseteq DeltaParts
        /\ \A p \in Exact \cup Predicates \cup {"rest", "nat"} : captured[p] = taken'[id][p]
    BY <2>1, CapturedRecord DEF MachineInv
  <2>3. CASE MadeFull
    <3>1. resolved = captured
      BY <1>0, <1>4, <2>3 DEF Resolves, MadeFull, Keep
    <3> HIDE DEF captured, resolved
    <3>2. \A p \in Exact \cup Predicates \cup {"rest", "nat"} : resolved[p] = taken'[id][p]
      BY <2>2, <3>1
    <3> QED
      BY <3>2 DEF AsTaken, resolved
  <2>4. ASSUME NEW parent \in Listed, MadeDelta(parent)
        PROVE  AsTaken(id)'
    <3> DEFINE base == ResolveSnapshot(parent)
               changes == IF base = None THEN NoChanges ELSE ComputeDelta(CaptureFullSnapshot, base)
    <3>1. /\ id \in DOMAIN delta' /\ id \notin DOMAIN full'
          /\ delta'[id] = [parent |-> parent, changes |-> changes]
      BY <1>0, <1>3, <2>4 DEF MadeDelta, Keep, Listed
    <3>2. Resolution(full', delta', id)[parent] = base
      <4>1. ResolveSnapshot(parent)' = base
        BY <1>2
      <4>2. parent \in 1 .. id
        BY <1>0 DEF StoreInv, StoreTypes
      <4> QED
        BY <1>3, <4>1, <4>2 DEF ResolveSnapshot
    <3> HIDE DEF base, changes
    <3>3. base # None /\ resolved = ApplyDelta(base, changes)
      BY <1>4, <1>5, <3>1, <3>2 DEF Resolves
    <3>4. base \in Record /\ changes = ComputeDelta(captured, base)
      BY <3>3, ResolvedRecord DEF base, changes, StoreInv
    <3> HIDE DEF captured, resolved
    <3>5. /\ \A p \in DeltaParts : resolved[p] = captured[p]
          /\ "rotation" \notin DOMAIN changes.parts =>
               \A p \in Predicates : resolved[p] = captured[p]
      BY <2>2, <3>3, <3>4, DeltaOfRecord
    <3>6. delta'[id].changes = changes
      BY <3>1
    <3> QED
      BY <2>2, <3>1, <3>5, <3>6 DEF AsTaken, resolved
  <2> QED
    BY <2>3, <2>4
<1>6. ASSUME NEW x \in Listed, ResolveSnapshot(x)' # None
      PROVE  AsTaken(x)'
  <2>1. taken'[x] = taken[x]
    BY <1>1, <1>3, <1>6 DEF Keep, StoreInv, TakenInv
  <2>2. AsTaken(x)
    BY <1>2, <1>6, TakenAsTaken DEF StoreInv
  <2>3. /\ x \in DOMAIN full' <=> x \in DOMAIN full
        /\ x \in DOMAIN delta' => delta'[x] = delta[x]
        /\ x \in DOMAIN full \cup DOMAIN delta /\ x \notin DOMAIN full' => x \in DOMAIN delta'
    BY <1>0, <1>3 DEF MadeFull, MadeDelta, Keep
  <2> QED
    BY <1>2, <2>1, <2>2, <2>3 DEF AsTaken, Listed
<1>7. ResolvesToTaken'
  BY <1>1, <1>5, <1>6, TakenAsTaken
<1> QED
  BY <1>1, <1>7 DEF StoreInv

\* deleteSnapshot(): the others resolve to what they did or, if it was their
\* ancestor, to nothing.
LEMMA DeletedTypes ==
  ASSUME StoreTypes, OrderInv, TakenInv, NEW id \in Listed, DeleteSnapshot(id)
  PROVE  /\ StoreTypes' /\ OrderInv' /\ TakenInv'
         /\ Listed' = Listed \ {id}
<1>1. Listed' = Listed \ {id}
  BY DEF DeleteSnapshot, Drop, Listed
<1>2. StoreTypes'
  BY <1>1 DEF StoreTypes, DeleteSnapshot, Drop
<1>3. TakenInv'
  BY <1>1 DEF TakenInv, DeleteSnapshot
<1>4. OrderInv'
  <2>1. order' = RemoveFirst(order, id)
    BY DEF DeleteSnapshot
  <2>2. /\ order \in Seq(Listed)
        /\ \A i, j \in DOMAIN order : order[i] = order[j] => i = j
    BY DEF OrderInv
  <2>3. /\ order' \in Seq(Listed \ {id})
        /\ \A i \in DOMAIN order : order[i] # id => \E j \in DOMAIN order' : order'[j] = order[i]
        /\ \A i, j \in DOMAIN order' : order'[i] = order'[j] => i = j
    BY <2>1, <2>2, RemovedFirst
  <2> QED
    BY <1>1, <2>3 DEF OrderInv
<1> QED
  BY <1>1, <1>2, <1>3, <1>4

LEMMA DeletedResolves ==
  ASSUME StoreTypes, StoreTypes', NEW id \in Listed, DeleteSnapshot(id)
  PROVE  \A x \in Listed : ResolveSnapshot(x)' \in {ResolveSnapshot(x), None}
<1>1. issued \in Nat /\ issued' = issued
  BY DEF StoreTypes, DeleteSnapshot
<1>2. Parented(delta) /\ Parented(delta')
  BY DEF StoreTypes, Parented
<1>3. \A i \in 1 .. issued : /\ i \in DOMAIN full' => i \in DOMAIN full /\ full'[i] = full[i]
                             /\ i \in DOMAIN delta' => i \in DOMAIN delta /\ delta'[i] = delta[i]
  BY DEF DeleteSnapshot, Drop
<1>4. \A i \in 1 .. issued :
        Resolution(full', delta', issued)[i] \in {Resolution(full, delta, issued)[i], None}
  BY <1>1, <1>2, <1>3, ResolutionShrinks DEF StoreTypes
<1> QED
  BY <1>1, <1>4 DEF ResolveSnapshot, StoreTypes

LEMMA DeletedInvariant ==
  ASSUME StoreInv, NEW id \in Listed, DeleteSnapshot(id)
  PROVE  StoreInv'
<1>1. StoreTypes' /\ OrderInv' /\ TakenInv' /\ Listed' = Listed \ {id}
  BY DeletedTypes DEF StoreInv
<1>2. \A x \in Listed : ResolveSnapshot(x)' \in {ResolveSnapshot(x), None}
  BY <1>1, DeletedResolves DEF StoreInv
<1>3. taken' = taken
  BY DEF DeleteSnapshot
<1>4. ASSUME NEW x \in Listed', ResolveSnapshot(x)' # None
      PROVE  AsTaken(x)'
  <2>1. x \in Listed /\ ResolveSnapshot(x)' = ResolveSnapshot(x) /\ AsTaken(x)
    BY <1>1, <1>2, <1>4, TakenAsTaken DEF StoreInv
  <2>2. /\ x \in DOMAIN full' <=> x \in DOMAIN full
        /\ x \in DOMAIN delta' => delta'[x] = delta[x]
        /\ x \notin DOMAIN full' => x \in DOMAIN delta'
    BY <1>1, <1>4 DEF DeleteSnapshot, Drop, Listed
  <2> QED
    BY <1>3, <2>1, <2>2 DEF AsTaken
<1>5. ResolvesToTaken'
  BY <1>4, TakenAsTaken
<1> QED
  BY <1>1, <1>5 DEF StoreInv

LEMMA EmptiedInvariant ==
  ASSUME full' = <<>>, delta' = <<>>, order' = <<>>, issued' \in Nat
  PROVE  StoreInv' /\ Listed' = {}
<1>1. Listed' = {}
  BY DEF Listed
<1> QED
  BY <1>1 DEF StoreInv, StoreTypes, OrderInv, TakenInv, ResolvesToTaken

\* What the steps do to the manager.
LEMMA StoreSteps ==
  ASSUME [Next]_vars
  PROVE  \/ UNCHANGED storeVars
         \/ MadeFull \/ \E parent \in Listed : MadeDelta(parent)
         \/ \E id \in Listed : DeleteSnapshot(id)
         \/ full' = <<>> /\ delta' = <<>> /\ order' = <<>> /\ issued' \in {issued, 0}
<1>1. CreateFullSnapshot => MadeFull
  BY DEF CreateFullSnapshot, GenerateSnapshotId, MadeFull
<1>2. \A id \in Listed : CreateDeltaSnapshot(id) => MadeDelta(id)
  BY DEF CreateDeltaSnapshot, GenerateSnapshotId, MadeDelta
<1> QED
  BY <1>1, <1>2 DEF Next, vars, Execute, Set, RestoreFromSnapshot, Clear, CreateSnapshot,
     CaptureVMSnapshot, RestoreHeld, BeginCheckpoint, FinishCheckpoint, ReadCheckpoint, Crash

LEMMA StorePreserved == StoreInv /\ MachineInv /\ [Next]_vars => StoreInv'
<1> SUFFICES ASSUME StoreInv, MachineInv, [Next]_vars
             PROVE  StoreInv'
  OBVIOUS
<1>1. CASE UNCHANGED storeVars
  BY <1>1 DEF storeVars, StoreInv, StoreTypes, OrderInv, TakenInv, ResolvesToTaken, Listed, ResolveSnapshot
<1>2. issued \in Nat
  BY DEF StoreInv, StoreTypes
<1> QED
  BY <1>1, <1>2, StoreSteps, MadeInvariant, DeletedInvariant, EmptiedInvariant

-----------------------------------------------------------------------------
(* The machine, and what is kept outside the manager *)

LEMMA PutTogether ==
  ASSUME NEW S, NEW r, machine \in State, \A p \in S \cap Parts : r[p] \in Nat,
         "rotation" \in S => r.rotation \in Logical
  PROVE  With(S, r) \in State
<1>1. "rotation" \in Parts
  BY DEF Parts, Plain
<1>2. With(S, r) \in [Parts -> Nat]
  BY DEF With, State
<1>3. With(S, r).rotation \in Logical
  BY <1>1 DEF With, State
<1> QED
  BY <1>2, <1>3 DEF State

\* captureVMSnapshot() has all but the halted flags of the machine.
LEMMA DirectSnapshot ==
  ASSUME machine \in State
  PROVE  /\ With(Fieldless, NewMachine) \in State
         /\ \A p \in {"memory", "registers", "quantum"} :
              With(Fieldless, NewMachine)[p] = machine[p]
<1>1. With(Fieldless, NewMachine) \in State
  BY PutTogether DEF Fieldless, NewMachine
<1>2. \A p \in {"memory", "registers", "quantum"} : p \in Parts /\ p \notin Fieldless
  BY DEF Fieldless, Parts, Plain
<1> QED
  BY <1>1, <1>2 DEF With

LEMMA KeptPreserved == KeptInv /\ MachineInv /\ [Next]_vars => KeptInv'
<1> SUFFICES ASSUME KeptInv, MachineInv, [Next]_vars
             PROVE  KeptInv'
  OBVIOUS
<1>1. CASE UNCHANGED <<held, file>>
  BY <1>1 DEF KeptInv
<1>2. CASE CreateSnapshot
  BY <1>2 DEF CreateSnapshot, KeptInv, HeldParts, MachineInv, MemoryFitsRegisters
<1>6. CASE CaptureVMSnapshot
  <2>1. held' = [parts |-> Recorded, was |-> With(Fieldless, NewMachine)] /\ file' = file
    BY <1>6 DEF CaptureVMSnapshot
  <2>2. /\ With(Fieldless, NewMachine) \in State
        /\ With(Fieldless, NewMachine).memory = With(Fieldless, NewMachine).registers
    BY DirectSnapshot DEF MachineInv, MemoryFitsRegisters
  <2> QED
    BY <2>1, <2>2 DEF KeptInv, HeldParts
<1>3. CASE BeginCheckpoint
  BY <1>3 DEF BeginCheckpoint, KeptInv, MachineInv, MemoryFitsRegisters
<1>4. CASE FinishCheckpoint
  <2>1. file' = [file EXCEPT !.whole = TRUE] /\ held' = held /\ file.was = machine /\ file # None
    BY <1>4 DEF FinishCheckpoint
  <2>2. file # None /\ file.whole = FALSE
    BY <1>4 DEF FinishCheckpoint, KeptInv
  <2> QED
    BY <2>1, <2>2 DEF KeptInv, MachineInv, MemoryFitsRegisters
<1>5. CASE Crash
  BY <1>5 DEF Crash, KeptInv
<1> QED
  BY <1>1, <1>2, <1>3, <1>4, <1>5, <1>6 DEF Next, vars, Execute, Set, CreateFullSnapshot,
     CreateDeltaSnapshot, Store, RestoreFromSnapshot, DeleteSnapshot, Clear, RestoreHeld, ReadCheckpoint

\* A batch of instructions leaves rotation a rotation.
LEMMA ExecutedMachine ==
  ASSUME machine \in State, clock \in Nat, NEW batch \in Batches, Execute(batch)
  PROVE  /\ machine' \in State
         /\ machine'.memory = clock + 1 /\ machine'.registers = clock + 1
         /\ machine'.quantum = machine.quantum
<1>1. /\ machine \in [Parts -> Nat] /\ machine.rotation \in Logical
      /\ batch.writes \subseteq Predicates
  BY SnapshotAssumption DEF State, Batch
<1>2. /\ {"memory", "registers", "quantum", "rotation"} \subseteq Parts
      /\ {"memory", "registers", "quantum", "rotation"} \cap batch.writes = {}
  BY <1>1, SnapshotAssumption DEF Parts, Plain
<1>3. Rotate(machine.rotation) \in Logical
  BY <1>1, SnapshotAssumption DEF Rotate, Logical
<1>4. machine' = [p \in Parts |->
        CASE p \in Executed \cup batch.writes -> clock + 1
          [] p = "rotation" /\ batch.rotates -> Rotate(machine.rotation)
          [] p = "slot" -> IF batch.midway THEN clock + 1 ELSE 0
          [] OTHER -> machine[p]]
  BY DEF Execute
<1>5. /\ machine'.memory = clock + 1 /\ machine'.registers = clock + 1
      /\ machine'.quantum = machine.quantum
      /\ machine'.rotation \in {Rotate(machine.rotation), machine.rotation}
  BY <1>2, <1>4 DEF Executed
<1>6. \A p \in Parts : machine'[p] \in {clock + 1, 0, Rotate(machine.rotation), machine[p]}
  BY <1>4
<1>7. machine' \in [Parts -> Nat]
  <2>1. Logical \subseteq Nat
    BY SnapshotAssumption DEF Logical
  <2>2. clock + 1 \in Nat /\ 0 \in Nat
    OBVIOUS
  <2>4. Rotate(machine.rotation) \in Nat
    BY <1>3, <2>1, Zenon
  <2>3. ASSUME NEW p \in Parts
        PROVE  machine'[p] \in Nat
    <3>1. machine[p] \in Nat
      BY <1>1
    <3>2. {clock + 1, 0, Rotate(machine.rotation), machine[p]} \subseteq Nat
      BY <2>2, <2>4, <3>1, Zenon
    <3> QED
      BY <1>6, <3>2, Zenon
  <2> QED
    BY <1>4, <2>3
<1> QED
  BY <1>1, <1>3, <1>5, <1>7 DEF State

LEMMA MachinePreserved == SnapshotInv /\ [Next]_vars => MachineInv'
<1> SUFFICES ASSUME StoreInv, KeptInv, MachineInv, [Next]_vars
             PROVE  MachineInv'
  BY DEF SnapshotInv
<1> USE DEF MachineInv, MemoryFitsRegisters
<1>0. {"memory", "registers", "rotation"} \subseteq Parts
  BY DEF Parts, Plain
<1>1. CASE UNCHANGED <<machine, clock>>
  BY <1>1
<1>2. ASSUME NEW batch \in Batches, Execute(batch)
      PROVE  MachineInv'
  <2>1. machine' \in State /\ machine'.memory = clock + 1 /\ machine'.registers = clock + 1
    BY <1>2, ExecutedMachine
  <2> QED
    BY <1>2, <2>1 DEF Execute
<1>3. ASSUME NEW part \in {"quantum", "boot"}, Set(part)
      PROVE  MachineInv'
  <2>1. machine' = [machine EXCEPT ![part] = clock + 1] /\ clock' = clock + 1
    BY <1>3 DEF Set
  <2>2. part \notin {"memory", "registers", "rotation"}
    BY <1>3
  <2>3. machine' \in State
    <3>1. clock + 1 \in Nat /\ machine \in [Parts -> Nat]
      BY DEF State
    <3>2. machine'.rotation = machine.rotation
      BY <1>0, <2>1, <2>2, <3>1
    <3> QED
      BY <2>1, <3>1, <3>2 DEF State
  <2>4. machine'.memory = machine.memory /\ machine'.registers = machine.registers
    BY <1>0, <2>1, <2>2 DEF State
  <2> QED
    BY <2>1, <2>3, <2>4
<1>4. ASSUME NEW id \in Listed, RestoreFromSnapshot(id)
      PROVE  MachineInv'
  <2>1. ResolveSnapshot(id) \in Record
    BY <1>4, ResolvedRecord DEF RestoreFromSnapshot, StoreInv
  <2>2. machine' = With(Recorded, ResolveSnapshot(id)) /\ clock' = clock
    BY <1>4 DEF RestoreFromSnapshot
  <2>3. machine' \in State
    BY <2>1, <2>2, PartNames, PutTogether DEF Record
  <2>4. ResolveSnapshot(id).memory = ResolveSnapshot(id).registers
    <3>1. {"memory", "registers"} \subseteq Exact
      BY DEF Exact
    <3> QED
      BY <1>4, <3>1 DEF RestoreFromSnapshot, StoreInv, ResolvesToTaken, TakenInv
  <2>5. "memory" \in Recorded /\ "registers" \in Recorded
    BY DEF Recorded, Parts, Plain
  <2> QED
    BY <1>0, <2>2, <2>3, <2>4, <2>5 DEF With
<1>5. CASE RestoreHeld
  <2>1. /\ machine' = With(held.parts, held.was) /\ clock' = clock
        /\ held.parts \in HeldParts /\ held.was \in State /\ held.was.memory = held.was.registers
    BY <1>5 DEF RestoreHeld, KeptInv
  <2>2. "memory" \in held.parts /\ "registers" \in held.parts
    BY <2>1 DEF HeldParts, Recorded, Parts, Plain
  <2>3. machine' \in State
    BY <2>1, PutTogether DEF State
  <2> QED
    BY <1>0, <2>1, <2>2, <2>3 DEF With
<1>6. CASE ReadCheckpoint
  <2>1. /\ machine' = With(Parts, file.was) /\ clock' = clock
        /\ file.was \in State /\ file.was.memory = file.was.registers
    BY <1>6 DEF ReadCheckpoint, KeptInv
  <2>2. machine' \in State
    BY <2>1, PutTogether DEF State
  <2> QED
    BY <1>0, <2>1, <2>2 DEF With
<1>7. CASE Crash
  BY <1>0, <1>7, NewMachineState DEF Crash, NewMachine
<1> QED
  BY <1>1, <1>2, <1>3, <1>4, <1>5, <1>6, <1>7 DEF Next, vars, CreateFullSnapshot,
     CreateDeltaSnapshot, Store, DeleteSnapshot, Clear, CreateSnapshot, CaptureVMSnapshot,
     BeginCheckpoint, FinishCheckpoint

LEMMA InvariantPreserved == SnapshotInv /\ [Next]_vars => SnapshotInv'
BY StorePreserved, KeptPreserved, MachinePreserved DEF SnapshotInv

LEMMA Invariant == Spec => []SnapshotInv
BY InitInvariant, InvariantPreserved, PTL DEF Spec

\* Every variable keeps a value of its C++ type.
THEOREM TypeCorrect == Spec => []TypeOK
BY Invariant, InvariantParts, PTL

\* Whatever is put back, from whichever of the four and along whatever chain
\* of deltas, memory fits the registers that go with it; the rest, the NaT
\* bits and the slot need not.
THEOREM MemoryFitsAlways == Spec => []MemoryFitsRegisters
BY Invariant, InvariantParts, PTL

\* Deltas of deltas, however many, give the memory, registers, CFM and quantum
\* of the machine they were taken of, and its predicates unless they change
\* the CFM.
THEOREM SnapshotsAreTrue == Spec => []ResolvesToTaken
BY Invariant, InvariantParts, PTL

\* Nothing that is taken, deleted or restored makes a snapshot give something
\* else than it gave.
LEMMA GivesStep ==
  ASSUME StoreInv, MachineInv, [Next]_vars, NEW id \in Listed, id \in Listed'
  PROVE  ResolveSnapshot(id)' \in {ResolveSnapshot(id), None}
<1>1. CASE UNCHANGED storeVars
  BY <1>1 DEF storeVars, ResolveSnapshot
<1>2. CASE MadeFull \/ \E parent \in Listed : MadeDelta(parent)
  BY <1>2, MadeTypes, MadeResolves DEF StoreInv
<1>3. ASSUME NEW x \in Listed, DeleteSnapshot(x)
      PROVE  ResolveSnapshot(id)' \in {ResolveSnapshot(id), None}
  BY <1>3, DeletedTypes, DeletedResolves DEF StoreInv
<1>4. CASE full' = <<>> /\ delta' = <<>> /\ order' = <<>> /\ issued' \in {issued, 0}
  <2>1. issued' \in Nat
    BY <1>4 DEF StoreInv, StoreTypes
  <2> QED
    BY <1>4, <2>1, EmptiedInvariant
<1> QED
  BY <1>1, <1>2, <1>3, <1>4, StoreSteps

THEOREM SnapshotsLast == Spec => GivesWhatItGave
<1>1. SnapshotInv /\ [Next]_vars =>
        [\A id \in Listed : id \in Listed' =>
           ResolveSnapshot(id)' \in {ResolveSnapshot(id), None}]_vars
  BY GivesStep DEF SnapshotInv
<1> QED
  BY <1>1, Invariant, PTL DEF Spec, GivesWhatItGave

-----------------------------------------------------------------------------
(* The refinement of SnapshotStore *)

Main == Computed \cup Chosen

LEMMA MainParts ==
  /\ Main = {"memory", "registers", "quantum"} /\ Promised!State = Main
  /\ Main \subseteq Recorded /\ Recorded \subseteq Parts
BY PartNames DEF Main, Computed, Chosen, Recorded, Parts, Plain, Promised!State

LEMMA KeptWhole == \A r : Kept(r, Parts) = [p \in Main |-> r[p]]
BY MainParts DEF Kept, Main

LEMMA PresentState == Present = [p \in Main |-> machine[p]] /\ Present' = [p \in Main |-> machine'[p]]
BY KeptWhole DEF Present

\* A snapshot is usable if it resolves, and stands for what is kept of that.
LEMMA UsableSnapshots ==
  ASSUME StoreTypes
  PROVE  Usable = [id \in {x \in Listed : ResolveSnapshot(x) # None} |->
                     Kept(ResolveSnapshot(id), Parts)]
<1>1. \A id \in Listed : ResolveSnapshot(id) = Resolution(full, delta, issued)[id]
  BY DEF StoreTypes, ResolveSnapshot
<1> QED
  BY <1>1 DEF Usable

LEMMA RefinesInit == Init => Promised!Init
<1> SUFFICES ASSUME Init
             PROVE  Promised!Init
  OBVIOUS
<1>1. Usable = <<>>
  <2>1. Listed = {}
    BY DEF Init, Listed
  <2> QED
    BY <2>1 DEF Usable
<1>2. Present = Promised!Fresh
  BY MainParts, PresentState DEF Init, NewMachine, Promised!Fresh
<1> QED
  BY <1>1, <1>2 DEF Init, Promised!Init, InHands, OnDisk

\* The machine changes.
LEMMA RefinesChange ==
  ASSUME SnapshotInv,
         (\E batch \in Batches : Execute(batch)) \/ Set("quantum") \/ Set("boot")
  PROVE  Promised!Next
<1>1. clock' = clock + 1 /\ UNCHANGED <<storeVars, held, file>>
  BY DEF Execute, Set
<1>2. UNCHANGED Promised!kept
  BY <1>1 DEF Promised!kept, storeVars, Usable, Listed, InHands, OnDisk
<1>3. ASSUME NEW S \in {Computed, {}} \cup {{p} : p \in Chosen},
             \A p \in Main : machine'[p] = IF p \in S THEN clock + 1 ELSE machine[p]
      PROVE  Promised!Change(S)
  <2>1. Present' = [p \in Main |-> IF p \in S THEN clock + 1 ELSE Present[p]]
    BY <1>3, PresentState
  <2> QED
    BY <1>1, <1>2, <2>1, MainParts DEF Promised!Change
<1>4. machine \in State /\ Main \subseteq Parts
  BY MainParts DEF SnapshotInv, MachineInv
<1>5. ASSUME NEW batch \in Batches, Execute(batch)
      PROVE  Promised!Next
  <2>1. \A p \in Main : machine'[p] = IF p \in Computed THEN clock + 1 ELSE machine[p]
    BY <1>4, <1>5, ExecutedMachine, MainParts DEF Computed, SnapshotInv, MachineInv
  <2> QED
    BY <1>3, <2>1 DEF Promised!Next
<1>6. CASE Set("quantum")
  <2>1. machine' = [machine EXCEPT !["quantum"] = clock + 1]
    BY <1>6 DEF Set
  <2>2. \A p \in Main : machine'[p] = IF p \in {"quantum"} THEN clock + 1 ELSE machine[p]
    BY <1>4, <2>1 DEF State
  <2>3. {"quantum"} \in {{p} : p \in Chosen}
    BY DEF Chosen
  <2> QED
    BY <1>3, <2>2, <2>3 DEF Promised!Next
<1>7. CASE Set("boot")
  <2>1. machine' = [machine EXCEPT !["boot"] = clock + 1]
    BY <1>7 DEF Set
  <2>2. \A p \in Main : machine'[p] = IF p \in {} THEN clock + 1 ELSE machine[p]
    BY <1>4, <2>1, MainParts DEF State
  <2> QED
    BY <1>3, <2>2 DEF Promised!Next
<1> QED
  BY <1>5, <1>6, <1>7

\* A snapshot is made, full or of any chain of deltas.
LEMMA RefinesTake ==
  ASSUME SnapshotInv, MadeFull \/ \E parent \in Listed : MadeDelta(parent)
  PROVE  Promised!Take
<1>0. PICK id : id = issued + 1
  OBVIOUS
<1>1. /\ StoreInv' /\ Listed' = Listed \cup {id} /\ taken' = Keep(taken, id, machine)
      /\ \A x \in Listed : ResolveSnapshot(x)' = ResolveSnapshot(x)
  BY <1>0, MadeTypes, MadeResolves, MadeInvariant DEF SnapshotInv, StoreInv
<1>2. issued' = id /\ UNCHANGED <<machine, clock, held, file>>
  BY <1>0 DEF MadeFull, MadeDelta, Store
<1>3. id \notin Listed
  <2>1. issued \in Nat /\ Listed \subseteq 1 .. issued
    BY DEF SnapshotInv, StoreInv, StoreTypes
  <2> QED
    BY <1>0, <2>1
<1> DEFINE Usable2 == {x \in Listed : ResolveSnapshot(x) # None}
<1>4. Usable = [x \in Usable2 |-> Kept(ResolveSnapshot(x), Parts)]
  BY UsableSnapshots DEF SnapshotInv, StoreInv
<1>5. Usable' = [x \in {y \in Listed' : ResolveSnapshot(y)' # None} |->
                   Kept(ResolveSnapshot(x)', Parts)]
  <2>1. StoreTypes'
    BY <1>1 DEF StoreInv
  <2>2. \A x \in Listed' : ResolveSnapshot(x)' = Resolution(full', delta', issued')[x]
    BY <2>1 DEF StoreTypes, ResolveSnapshot
  <2> QED
    BY <2>2 DEF Usable
<1>6. CASE ResolveSnapshot(id)' = None
  <2>1. {y \in Listed' : ResolveSnapshot(y)' # None} = Usable2
    BY <1>1, <1>6
  <2>2. Usable' = Usable
    BY <1>1, <1>4, <1>5, <2>1
  <2> QED
    BY <1>0, <1>2, <2>2 DEF Promised!Take, Present, InHands, OnDisk
<1>7. CASE ResolveSnapshot(id)' # None
  <2>1. {y \in Listed' : ResolveSnapshot(y)' # None} = Usable2 \cup {id}
    BY <1>1, <1>7
  <2>2. Kept(ResolveSnapshot(id)', Parts) = Present
    <3>1. Main \subseteq Exact
      BY MainParts DEF Exact
    <3>2. \A p \in Main : ResolveSnapshot(id)'[p] = machine[p]
      BY <1>1, <1>7, <3>1 DEF StoreInv, ResolvesToTaken, Keep
    <3> QED
      BY <3>2, KeptWhole, PresentState
  <2>3. Usable' = [x \in DOMAIN Usable \cup {id} |-> IF x = id THEN Present ELSE Usable[x]]
    BY <1>1, <1>3, <1>4, <1>5, <2>1, <2>2
  <2> QED
    BY <1>0, <1>2, <2>3 DEF Promised!Take, Present, InHands, OnDisk
<1> QED
  BY <1>6, <1>7

\* Snapshots are deleted, with or without deltas taken of them.
LEMMA RefinesDelete ==
  ASSUME SnapshotInv, Clear \/ \E id \in Listed : DeleteSnapshot(id)
  PROVE  Promised!Lose
<1>1. UNCHANGED <<machine, clock, issued, held, file>>
  BY DEF Clear, DeleteSnapshot
<1>2. issued \in Nat /\ StoreTypes
  BY DEF SnapshotInv, StoreInv, StoreTypes
<1>3. /\ StoreTypes' /\ Listed' \subseteq Listed
      /\ \A x \in Listed' : ResolveSnapshot(x)' \in {ResolveSnapshot(x), None}
  <2>1. CASE Clear
    BY <1>2, <2>1, EmptiedInvariant DEF Clear, StoreInv
  <2>2. ASSUME NEW id \in Listed, DeleteSnapshot(id)
        PROVE  /\ StoreTypes' /\ Listed' \subseteq Listed
               /\ \A x \in Listed' : ResolveSnapshot(x)' \in {ResolveSnapshot(x), None}
    <3>1. StoreTypes' /\ Listed' = Listed \ {id}
      BY <2>2, DeletedTypes DEF SnapshotInv, StoreInv
    <3>2. \A x \in Listed : ResolveSnapshot(x)' \in {ResolveSnapshot(x), None}
      BY <1>2, <2>2, <3>1, DeletedResolves
    <3> QED
      BY <3>1, <3>2
  <2> QED
    BY <2>1, <2>2
<1> DEFINE Left == {x \in Listed' : ResolveSnapshot(x)' # None}
<1>4. Usable = [x \in {y \in Listed : ResolveSnapshot(y) # None} |->
                  Kept(ResolveSnapshot(x), Parts)]
  BY <1>2, UsableSnapshots
<1>5. Usable' = [x \in Left |-> Kept(ResolveSnapshot(x)', Parts)]
  <2>1. \A x \in Listed' : ResolveSnapshot(x)' = Resolution(full', delta', issued')[x]
    BY <1>3 DEF StoreTypes, ResolveSnapshot
  <2> QED
    BY <2>1 DEF Usable
<1>6. Left \in SUBSET DOMAIN Usable /\ Usable' = [x \in Left |-> Usable[x]]
  BY <1>3, <1>4, <1>5
<1> QED
  BY <1>1, <1>6 DEF Promised!Lose, Present, InHands, OnDisk

\* A caller takes a snapshot.
LEMMA RefinesHold ==
  ASSUME SnapshotInv, CreateSnapshot \/ CaptureVMSnapshot
  PROVE  Promised!Hold
<1>1. UNCHANGED <<machine, clock, storeVars, file>>
  BY DEF CreateSnapshot, CaptureVMSnapshot
<1>2. UNCHANGED <<Present, clock, OnDisk, issued, Usable>>
  BY <1>1 DEF Present, OnDisk, storeVars, Usable, Listed
<1>3. machine \in State
  BY DEF SnapshotInv, MachineInv
<1>4. PICK S \in HeldParts, r \in State :
        /\ held' = [parts |-> S, was |-> r]
        /\ \A p \in Main : r[p] = machine[p]
  <2>1. CASE CreateSnapshot
    BY <1>3, <2>1 DEF CreateSnapshot, HeldParts
  <2>2. CASE CaptureVMSnapshot
    BY <1>3, <2>2, DirectSnapshot, MainParts DEF CaptureVMSnapshot, HeldParts
  <2> QED
    BY <2>1, <2>2
<1>5. held' # None
  <2>1. S \in SUBSET Parts
    BY <1>4, PartNames DEF HeldParts
  <2> QED
    BY <1>4, <2>1, SnapshotAssumption
<1>6. S \cap Main \in {Computed, Promised!State}
  BY MainParts DEF HeldParts, Main, Computed, Chosen
<1>7. InHands' = [p \in S \cap Main |-> Present[p]]
  <2>1. InHands' = [p \in S \cap Main |-> r[p]]
    BY <1>4, <1>5 DEF InHands, Kept, Main
  <2> QED
    BY <1>4, <2>1, PresentState
<1> QED
  BY <1>2, <1>6, <1>7 DEF Promised!Hold

\* A checkpoint is begun, over the last one, and finished.
LEMMA RefinesCheckpoint ==
  ASSUME SnapshotInv, BeginCheckpoint \/ FinishCheckpoint
  PROVE  Promised!Lose \/ Promised!KeepForLater \/ UNCHANGED Promised!storeVars
<1>1. UNCHANGED <<machine, clock, storeVars, held>>
  BY DEF BeginCheckpoint, FinishCheckpoint
<1>2. UNCHANGED <<Present, clock, InHands, issued, Usable>>
  BY <1>1 DEF Present, InHands, storeVars, Usable, Listed
<1>3. CASE BeginCheckpoint
  <2>1. OnDisk' = <<>>
    BY <1>3 DEF BeginCheckpoint, OnDisk
  <2>2. Usable = [x \in DOMAIN Usable |-> Usable[x]]
    BY UsableSnapshots DEF SnapshotInv, StoreInv
  <2> QED
    BY <1>2, <2>1, <2>2 DEF Promised!Lose
<1>4. CASE FinishCheckpoint
  <2>1. /\ file \in [whole : BOOLEAN, was : State] /\ ~file.whole /\ file.was = machine
        /\ file' = [file EXCEPT !.whole = TRUE]
    BY <1>4 DEF FinishCheckpoint, SnapshotInv, KeptInv
  <2>2. file'.whole /\ file'.was = machine
    BY <2>1
  <2>3. CASE file' # None
    <3>1. OnDisk' = Present
      BY <2>2, <2>3 DEF OnDisk, Present
    <3> QED
      BY <1>2, <3>1 DEF Promised!KeepForLater
  <2>4. CASE file' = None
    <3>1. OnDisk' = <<>> /\ OnDisk = <<>>
      BY <2>1, <2>4 DEF OnDisk
    <3> QED
      BY <1>2, <3>1 DEF Promised!storeVars, Promised!kept
  <2> QED
    BY <2>3, <2>4
<1> QED
  BY <1>3, <1>4

\* Any of the four is put back.
LEMMA PutBackStep ==
  ASSUME NEW S, NEW r, NEW parts, machine' = With(S, r),
         UNCHANGED <<clock, storeVars, held, file>>, parts = Kept(r, S)
  PROVE  Promised!PutBack(parts)
<1>1. UNCHANGED <<clock, InHands, OnDisk, issued, Usable>>
  BY DEF InHands, OnDisk, storeVars, Usable, Listed
<1>2. DOMAIN parts = S \cap Main /\ \A p \in S \cap Main : parts[p] = r[p]
  BY DEF Kept, Main
<1>3. \A p \in Main : machine'[p] = IF p \in S THEN r[p] ELSE machine[p]
  BY MainParts DEF With
<1>4. Present' = [p \in Main |-> IF p \in DOMAIN parts THEN parts[p] ELSE Present[p]]
  BY <1>2, <1>3, PresentState
<1> QED
  BY <1>1, <1>4, MainParts DEF Promised!PutBack

LEMMA RefinesRestore ==
  ASSUME SnapshotInv,
         RestoreHeld \/ ReadCheckpoint \/ \E id \in Listed : RestoreFromSnapshot(id)
  PROVE  \/ \E id \in DOMAIN Usable : Promised!PutBack(Usable[id])
         \/ Promised!PutBack(InHands) \/ Promised!PutBack(OnDisk)
<1>1. UNCHANGED <<clock, storeVars, held, file>>
  BY DEF RestoreHeld, ReadCheckpoint, RestoreFromSnapshot
<1>2. CASE RestoreHeld
  <2>1. machine' = With(held.parts, held.was) /\ InHands = Kept(held.was, held.parts)
    BY <1>2 DEF RestoreHeld, InHands
  <2> QED
    BY <1>1, <2>1, PutBackStep
<1>3. CASE ReadCheckpoint
  <2>1. machine' = With(Parts, file.was) /\ OnDisk = Kept(file.was, Parts)
    BY <1>3 DEF ReadCheckpoint, OnDisk
  <2> QED
    BY <1>1, <2>1, PutBackStep
<1>4. ASSUME NEW id \in Listed, RestoreFromSnapshot(id)
      PROVE  \E x \in DOMAIN Usable : Promised!PutBack(Usable[x])
  <2>1. machine' = With(Recorded, ResolveSnapshot(id)) /\ ResolveSnapshot(id) # None
    BY <1>4 DEF RestoreFromSnapshot
  <2>2. id \in DOMAIN Usable /\ Usable[id] = Kept(ResolveSnapshot(id), Parts)
    BY <2>1, UsableSnapshots DEF SnapshotInv, StoreInv
  <2>3. Usable[id] = Kept(ResolveSnapshot(id), Recorded)
    BY <2>2, MainParts DEF Kept, Main
  <2> QED
    BY <1>1, <2>1, <2>2, <2>3, PutBackStep
<1> QED
  BY <1>2, <1>3, <1>4

\* The process ends.
LEMMA RefinesCrash == SnapshotInv /\ Crash => Promised!StartAgain
<1> SUFFICES ASSUME SnapshotInv, Crash
             PROVE  Promised!StartAgain
  OBVIOUS
<1>1. Usable' = <<>>
  BY DEF Crash, Usable, Listed
<1>2. Present' = Promised!Fresh
  BY MainParts, PresentState DEF Crash, NewMachine, Promised!Fresh
<1> QED
  BY <1>1, <1>2 DEF Crash, Promised!StartAgain, InHands, OnDisk

LEMMA RefinesStep == SnapshotInv /\ [Next]_vars => [Promised!Next]_Promised!storeVars
<1> SUFFICES ASSUME SnapshotInv, [Next]_vars
             PROVE  Promised!Next \/ UNCHANGED Promised!storeVars
  OBVIOUS
<1>1. CASE UNCHANGED vars
  BY <1>1 DEF vars, storeVars, Promised!storeVars, Promised!kept, Present, Usable, Listed,
     InHands, OnDisk
<1>2. CASE Next
  <2>1. CreateFullSnapshot => MadeFull
    BY DEF CreateFullSnapshot, GenerateSnapshotId, MadeFull
  <2>2. \A id \in Listed : CreateDeltaSnapshot(id) => MadeDelta(id)
    BY DEF CreateDeltaSnapshot, GenerateSnapshotId, MadeDelta
  <2>3. (\E batch \in Batches : Execute(batch)) \/ Set("quantum") \/ Set("boot") => Promised!Next
    BY RefinesChange
  <2>4. MadeFull \/ (\E id \in Listed : MadeDelta(id)) => Promised!Next
    BY RefinesTake DEF Promised!Next
  <2>5. Clear \/ (\E id \in Listed : DeleteSnapshot(id)) => Promised!Next
    BY RefinesDelete DEF Promised!Next
  <2>6. CreateSnapshot \/ CaptureVMSnapshot => Promised!Next
    BY RefinesHold DEF Promised!Next
  <2>7. BeginCheckpoint \/ FinishCheckpoint => Promised!Next \/ UNCHANGED Promised!storeVars
    BY RefinesCheckpoint DEF Promised!Next
  <2>8. RestoreHeld \/ ReadCheckpoint \/ (\E id \in Listed : RestoreFromSnapshot(id)) => Promised!Next
    BY RefinesRestore DEF Promised!Next
  <2>9. Crash => Promised!Next
    BY RefinesCrash DEF Promised!Next
  <2> QED
    BY <1>2, <2>1, <2>2, <2>3, <2>4, <2>5, <2>6, <2>7, <2>8, <2>9 DEF Next
<1> QED
  BY <1>1, <1>2

\* Full snapshots, deltas of deltas, the callers' snapshots and the checkpoint
\* file together do what a store of whole states would do.
THEOREM ImplementsSnapshotStore == Spec => ImplementsStore
BY Invariant, RefinesInit, RefinesStep, PTL DEF Spec, ImplementsStore, Promised!Spec
=============================================================================
