-------------------- MODULE IA64AddressTranslationProofs --------------------
(***************************************************************************)
(* Proofs about IA64AddressTranslation for any TLB, pages, page sizes and  *)
(* contexts.  Coherent is not inductive alone: a walk reads the table that *)
(* the entry of the hash page leads to, so that entry must lead to the     *)
(* context's own table (Rooted), and it is found by its page only if every *)
(* entry begins where its size says (Aligned).                             *)
(***************************************************************************)
EXTENDS IA64AddressTranslation, IntegerSetLemmas

Begins(e) == e # None => e.page = Base(e.page, e.size)

\* Every entry begins at a multiple of its size.
Aligned == (\A i \in Slots : Begins(dtlb[i])) /\ (\A i \in Registers : Begins(dtr[i]))

\* The hash page leads to the table of its context, in the tables, which do
\* not move, and in the translation registers.
Rooted ==
  /\ \A r \in Rids : tables[r][HashPage] = TableOf(r) /\ <<r, HashPage>> \notin stale
  /\ \A i \in Registers :
       dtr[i] # None /\ dtr[i].page = HashPage => dtr[i].pte = TableOf(dtr[i].rid)

IInv == TypeOK /\ NoTwins /\ Coherent /\ Aligned /\ Rooted

-----------------------------------------------------------------------------
(* Arithmetic and choice. *)

\* Aligning an aligned page leaves it, and a page is aligned to itself.
LEMMA BaseIdempotent ==
  ASSUME NEW p \in Nat, NEW n \in Nat \ {0}
  PROVE  Base(Base(p, n), n) = Base(p, n) /\ Base(p, 1) = p
<1> DEFINE q == p \div n
<1>1. q \in Nat
  OBVIOUS
<1>2. (q * n) \div n = q
  <2> HIDE DEF q
  <2> DEFINE a == q * n
             d == a \div n
  <2>1. a \in Nat
    BY <1>1
  <2>2. d \in Nat /\ n * d <= a /\ a < n * (d + 1)
    <3> HIDE DEF a
    <3> QED
      BY <2>1
  <2> HIDE DEF d
  <2>3. ~ d < q
    <3> SUFFICES ASSUME d < q
                 PROVE  FALSE
      OBVIOUS
    <3>1. \E k \in Nat : q = d + 1 + k
      <4>1. q - d - 1 \in Nat /\ q = d + 1 + (q - d - 1)
        BY <1>1, <2>2
      <4> QED
        BY <4>1
    <3>2. PICK k \in Nat : q = d + 1 + k
      BY <3>1
    <3>3. a = n * (d + 1) + n * k /\ n * k >= 0
      BY <2>2, <3>2
    <3> QED
      BY <2>1, <2>2, <3>3
  <2>4. ~ q < d
    <3> SUFFICES ASSUME q < d
                 PROVE  FALSE
      OBVIOUS
    <3>1. \E k \in Nat : d = q + 1 + k
      <4>1. d - q - 1 \in Nat /\ d = q + 1 + (d - q - 1)
        BY <1>1, <2>2
      <4> QED
        BY <4>1
    <3>2. PICK k \in Nat : d = q + 1 + k
      BY <3>1
    <3>3. n * d = a + n + n * k /\ n * k >= 0
      BY <1>1, <3>2
    <3> QED
      BY <2>1, <2>2, <3>3
  <2>5. d = q
    BY <1>1, <2>2, <2>3, <2>4
  <2> QED
    BY <2>5 DEF d
<1>3. p \div 1 = p /\ p * 1 = p
  OBVIOUS
<1> QED
  BY <1>2, <1>3 DEF Base

\* The first of a nonempty set of slots or registers is one of them.
LEMMA FirstIsElement ==
  ASSUME NEW n \in Nat, NEW S \in SUBSET (0 .. n - 1), S # {}
  PROVE  First(S) \in S
<1>1. IsFiniteSet(S) /\ S \subseteq Int
  <2>1. 0 \in Int /\ n - 1 \in Int
    OBVIOUS
  <2>2. IsFiniteSet(0 .. n - 1)
    BY <2>1, FS_Interval
  <2>3. S \subseteq 0 .. n - 1 /\ 0 .. n - 1 \subseteq Int
    OBVIOUS
  <2> QED
    BY <2>2, <2>3, FS_Subset
<1>2. \E m \in S : \A j \in S : m <= j
  BY <1>1, LeastElement
<1> QED
  BY <1>2 DEF First

\* A lookup that finds something finds an entry that covers the page, a
\* register's or the TLB's.
LEMMA FoundCovers ==
  ASSUME NEW page, Found(page) # None
  PROVE  /\ Covers(Found(page), page, rr.rid)
         /\ \/ \E i \in Registers : Found(page) = dtr[i]
            \/ \E i \in Slots : Found(page) = dtlb[i]
<1> DEFINE pinned == {i \in Registers : Covers(dtr[i], page, rr.rid)}
           cached == {i \in Slots : Covers(dtlb[i], page, rr.rid)}
<1>1. CASE pinned # {}
  <2>1. First(pinned) \in pinned
    BY <1>1, FirstIsElement, TranslationAssumption DEF Registers
  <2>2. Found(page) = dtr[First(pinned)]
    BY <1>1 DEF Found
  <2> QED
    BY <2>1, <2>2
<1>2. CASE pinned = {} /\ cached # {}
  <2>1. First(cached) \in cached
    BY <1>2, FirstIsElement, TranslationAssumption DEF Slots
  <2>2. Found(page) = dtlb[First(cached)]
    BY <1>2 DEF Found
  <2> QED
    BY <2>1, <2>2
<1> QED
  BY <1>1, <1>2 DEF Found

\* A walk reads the table of the running context.
LEMMA HashPageIsRooted ==
  ASSUME IInv, Found(HashPage) # None
  PROVE  Found(HashPage).pte = TableOf(rr.rid)
<1> DEFINE e == Found(HashPage)
<1>1. Covers(e, HashPage, rr.rid) /\ e \in Entry /\ e.page = Base(e.page, e.size)
  BY FoundCovers DEF IInv, TypeOK, Aligned, Begins
<1>2. e.page = HashPage /\ e.rid = rr.rid
  BY <1>1, TranslationAssumption DEF Covers, Entry
<1>3. CASE \E i \in Registers : e = dtr[i]
  BY <1>2, <1>3 DEF IInv, Rooted
<1>4. CASE \E i \in Slots : e = dtlb[i]
  BY <1>1, <1>2, <1>4 DEF IInv, Coherent, Rooted, Entry, TypeOK
<1> QED
  BY <1>3, <1>4, FoundCovers

\* The walker inserts what the running context's table says of the page.
LEMMA WalkedEntry ==
  ASSUME IInv, NEW page \in Pages, NEW access \in Accesses, Walk(page, access, TRUE) = "ok"
  PROVE  VhptEntry(page) = tables[rr.rid][page]
<1>1. Found(HashPage) # None
  BY DEF Walk, TlbMiss
<1> QED
  BY <1>1, HashPageIsRooted DEF VhptEntry, TableOf

-----------------------------------------------------------------------------
(* The invariant. *)

LEMMA InitInv == Init => IInv
<1> SUFFICES ASSUME Init
             PROVE  IInv
  OBVIOUS
<1> USE DEF Init
<1>1. TypeOK
  <2>1. next \in Slots
    BY TranslationAssumption DEF Slots
  <2>2. \A r \in Rids : TableOf(r) \in Pte
    BY TranslationAssumption DEF TableOf, Pte
  <2>3. tables \in [Rids -> [Pages -> Pte]]
    BY <2>2, TranslationAssumption
  <2> QED
    BY <2>1, <2>3 DEF TypeOK
<1>2. NoTwins /\ Coherent
  BY DEF NoTwins, Coherent
<1>3. Aligned
  BY DEF Aligned, Begins
<1>4. Rooted
  BY TranslationAssumption DEF Rooted
<1> QED
  BY <1>1, <1>2, <1>3, <1>4 DEF IInv

\* An insertion of what the tables say of an aligned page keeps the TLB free
\* of twins, coherent and aligned: the slot it takes is that of the one twin
\* there can be, or there is none.
LEMMA Insertion ==
  ASSUME IInv, NEW rid \in Rids, NEW page \in Pages, NEW size \in Sizes,
         page = Base(page, size),
         InsertDTLB(rid, page, size, tables[rid][page]),
         UNCHANGED <<tables, stale>>
  PROVE  /\ dtlb' \in [Slots -> Entry \cup {None}] /\ next' \in Slots
         /\ NoTwins' /\ Coherent'
         /\ \A i \in Slots : Begins(dtlb[i])'
<1> DEFINE e == [rid |-> rid, page |-> page, size |-> size, pte |-> tables[rid][page]]
<1>1. e \in Entry /\ e # None
  BY NoneAssumption DEF IInv, TypeOK, Entry
<1>2. PICK k \in Slots :
        /\ dtlb' = [dtlb EXCEPT ![k] = e]
        /\ \A j \in Slots \ {k} : j \notin SamePage(rid, page, size)
        /\ next' \in {next, After(next)}
  <2>1. CASE SamePage(rid, page, size) # {}
    <3>1. First(SamePage(rid, page, size)) \in SamePage(rid, page, size)
      BY <2>1, FirstIsElement, TranslationAssumption DEF SamePage, Slots
    <3>2. \A i, j \in SamePage(rid, page, size) : i = j
      BY DEF SamePage, Covers, IInv, NoTwins
    <3> QED
      BY <2>1, <3>1, <3>2 DEF InsertDTLB, Put, SamePage
  <2>2. CASE SamePage(rid, page, size) = {} /\ Empty # {}
    <3>1. First(Empty) \in Empty
      BY <2>2, FirstIsElement, TranslationAssumption DEF Empty, Slots
    <3> QED
      BY <2>2, <3>1 DEF InsertDTLB, Put, Empty
  <2>3. CASE SamePage(rid, page, size) = {} /\ Empty = {}
    BY <2>3 DEF InsertDTLB, Put, IInv, TypeOK
  <2> QED
    BY <2>1, <2>2, <2>3
<1>3. dtlb' \in [Slots -> Entry \cup {None}]
  BY <1>1, <1>2 DEF IInv, TypeOK
<1>4. next' \in Slots
  <2>1. next \in 0 .. NumDTLB - 1 /\ NumDTLB \in Nat \ {0}
    BY TranslationAssumption DEF IInv, TypeOK, Slots
  <2>2. (next + 1) % NumDTLB \in 0 .. NumDTLB - 1
    BY <2>1
  <2> QED
    BY <1>2, <2>1, <2>2 DEF After, Slots
<1>5. \A j \in Slots : dtlb'[j] = IF j = k THEN e ELSE dtlb[j]
  BY <1>2 DEF IInv, TypeOK
<1>6. NoTwins'
  <2>1. ASSUME NEW j \in Slots \ {k}, dtlb[j] # None,
               dtlb[j].rid = rid, dtlb[j].size = size,
               Base(dtlb[j].page, size) = Base(page, size)
        PROVE  FALSE
    BY <1>2, <2>1 DEF SamePage, Covers
  <2> QED
    BY <1>5, <2>1 DEF NoTwins, IInv
<1>7. Coherent'
  BY <1>5 DEF Coherent, IInv
<1>8. \A i \in Slots : Begins(dtlb[i])'
  BY <1>5 DEF Begins, IInv, Aligned
<1> QED
  BY <1>3, <1>4, <1>6, <1>7, <1>8

\* Every step of the CPU and of its guest preserves the invariant.
LEMMA StepInv == IInv /\ [Next]_vars => IInv'
<1> SUFFICES ASSUME IInv, [Next]_vars
             PROVE  IInv'
  OBVIOUS
<1> USE DEF guestVars, tlbVars
<1>1. ASSUME NEW p \in Pages, NEW a \in Accesses, WalkFinds(p, a)
      PROVE  IInv'
  <2>1. InsertDTLB(rr.rid, p, 1, tables[rr.rid][p])
    BY <1>1, WalkedEntry DEF WalkFinds
  <2>2. p = Base(p, 1) /\ rr.rid \in Rids /\ 1 \in Sizes
    BY BaseIdempotent, TranslationAssumption DEF IInv, TypeOK
  <2>3. UNCHANGED <<tables, stale, dtr, rr, ic>>
    BY <1>1 DEF WalkFinds
  <2>4. /\ dtlb' \in [Slots -> Entry \cup {None}] /\ next' \in Slots
        /\ NoTwins' /\ Coherent' /\ \A i \in Slots : Begins(dtlb[i])'
    BY <2>1, <2>2, <2>3, Insertion
  <2> QED
    BY <2>3, <2>4 DEF IInv, TypeOK, Aligned, Begins, Rooted
<1>2. ASSUME NEW p \in Pages, NEW a \in Accesses, NEW readable \in BOOLEAN,
             AccessFaults(p, a, readable)
      PROVE  IInv'
  BY <1>2 DEF AccessFaults, IInv, TypeOK, NoTwins, Coherent, Aligned, Begins, Rooted
<1>3. ASSUME NEW on \in BOOLEAN, SetCollection(on)
      PROVE  IInv'
  BY <1>3 DEF SetCollection, IInv, TypeOK, NoTwins, Coherent, Aligned, Begins, Rooted
<1>4. ASSUME NEW p \in Pages, NEW n \in Sizes
      PROVE  /\ Base(p, n) \in Pages
             /\ Base(p, n) = Base(Base(p, n), n)
  BY BaseIdempotent, TranslationAssumption
<1>5. ASSUME NEW p \in Pages, NEW n \in Sizes, ITC_D(p, n)
      PROVE  IInv'
  <2>1. InsertDTLB(rr.rid, Base(p, n), n, tables[rr.rid][Base(p, n)]) /\ rr.rid \in Rids
    BY <1>5 DEF ITC_D, IInv, TypeOK
  <2>2. UNCHANGED <<tables, stale, dtr, rr, ic>>
    BY <1>5 DEF ITC_D
  <2>3. /\ dtlb' \in [Slots -> Entry \cup {None}] /\ next' \in Slots
        /\ NoTwins' /\ Coherent' /\ \A i \in Slots : Begins(dtlb[i])'
    BY <1>4, <2>1, <2>2, Insertion
  <2> QED
    BY <2>2, <2>3 DEF IInv, TypeOK, Aligned, Begins, Rooted
<1>6. ASSUME NEW i \in Registers, NEW p \in Pages, NEW n \in Sizes, ITR_D(i, p, n)
      PROVE  IInv'
  <2> DEFINE e == [rid |-> rr.rid, page |-> Base(p, n), size |-> n,
                   pte |-> tables[rr.rid][Base(p, n)]]
  <2>1. e \in Entry /\ dtr' = [dtr EXCEPT ![i] = e]
    BY <1>4, <1>6 DEF ITR_D, IInv, TypeOK, Entry
  <2>2. UNCHANGED <<dtlb, next, ic, rr, tables, stale>>
    BY <1>6 DEF ITR_D
  <2>3. \A j \in Registers : dtr'[j] = IF j = i THEN e ELSE dtr[j]
    BY <2>1 DEF IInv, TypeOK
  <2>4. Rooted'
    <3>1. e.page = HashPage => e.pte = TableOf(e.rid)
      BY DEF IInv, TypeOK, Rooted
    <3>2. ASSUME NEW j \in Registers, dtr'[j] # None, dtr'[j].page = HashPage
          PROVE  dtr'[j].pte = TableOf(dtr'[j].rid)
      BY <2>3, <3>1, <3>2 DEF IInv, Rooted
    <3>3. \A r \in Rids : tables'[r][HashPage] = TableOf(r) /\ <<r, HashPage>> \notin stale'
      BY <2>2 DEF IInv, Rooted
    <3> QED
      BY <3>2, <3>3 DEF Rooted, TableOf
  <2>5. Aligned'
    BY <1>4, <2>2, <2>3 DEF IInv, Aligned, Begins
  <2> QED
    BY <2>1, <2>2, <2>4, <2>5 DEF IInv, TypeOK, NoTwins, Coherent
<1>7. ASSUME NEW p \in Pages, PTC_L(p)
      PROVE  IInv'
  <2>1. UNCHANGED <<next, dtr, ic, rr, tables>> /\ stale' = stale \ {<<rr.rid, p>>}
    BY <1>7 DEF PTC_L
  <2>2. \A i \in Slots :
          dtlb'[i] = IF Covers(dtlb[i], p, rr.rid) THEN None ELSE dtlb[i]
    BY <1>7 DEF PTC_L, PurgeDTLB
  <2>3. dtlb' \in [Slots -> Entry \cup {None}]
    BY <1>7 DEF PTC_L, PurgeDTLB, IInv, TypeOK
  <2>4. Coherent'
    <3> SUFFICES ASSUME NEW i \in Slots, dtlb'[i] # None,
                        dtlb'[i].pte # tables[dtlb'[i].rid][dtlb'[i].page]
                 PROVE  <<dtlb'[i].rid, dtlb'[i].page>> \in stale'
      BY <2>1 DEF Coherent
    <3>1. dtlb'[i] = dtlb[i] /\ ~ Covers(dtlb[i], p, rr.rid)
      BY <2>2
    <3>2. <<dtlb[i].rid, dtlb[i].page>> \in stale
      BY <3>1 DEF IInv, Coherent
    <3>3. <<dtlb[i].rid, dtlb[i].page>> # <<rr.rid, p>>
      BY <3>1 DEF Covers
    <3> QED
      BY <2>1, <3>1, <3>2, <3>3
  <2>5. NoTwins'
    BY <2>2 DEF IInv, NoTwins
  <2>6. Aligned' /\ Rooted'
    BY <2>1, <2>2 DEF IInv, Aligned, Begins, Rooted
  <2> QED
    BY <2>1, <2>3, <2>4, <2>5, <2>6 DEF IInv, TypeOK
<1>8. ASSUME NEW value \in [rid : Rids, ve : BOOLEAN], MOV_TO_RR(value)
      PROVE  IInv'
  BY <1>8 DEF MOV_TO_RR, IInv, TypeOK, NoTwins, Coherent, Aligned, Begins, Rooted
<1>9. ASSUME NEW r \in Rids, NEW p \in Pages, NEW t \in Contents, WritePte(r, p, t)
      PROVE  IInv'
  <2>1. /\ UNCHANGED <<dtlb, next, dtr, ic, rr>> /\ p # HashPage
        /\ stale' = stale \cup {<<r, p>>} /\ tables' = [tables EXCEPT ![r][p] = t]
    BY <1>9 DEF WritePte
  <2>2. tables' \in [Rids -> [Pages -> Pte]]
    <3>1. t \in Pte /\ tables \in [Rids -> [Pages -> Pte]]
      BY TranslationAssumption DEF IInv, TypeOK
    <3>2. [tables[r] EXCEPT ![p] = t] \in [Pages -> Pte]
      BY <3>1
    <3>3. tables' = [tables EXCEPT ![r] = [tables[r] EXCEPT ![p] = t]]
      BY <2>1
    <3> QED
      BY <3>1, <3>2, <3>3
  <2>3. \A s \in Rids, q \in Pages :
          tables'[s][q] = IF s = r /\ q = p THEN t ELSE tables[s][q]
    BY <2>1 DEF IInv, TypeOK
  <2>4. Coherent'
    BY <2>1, <2>3 DEF IInv, Coherent, TypeOK, Entry
  <2>5. Rooted'
    BY <2>1, <2>3, TranslationAssumption DEF IInv, Rooted
  <2> QED
    BY <2>1, <2>2, <2>4, <2>5 DEF IInv, TypeOK, NoTwins, Aligned, Begins
<1>10. CASE UNCHANGED vars
  BY <1>10 DEF vars, IInv, TypeOK, NoTwins, Coherent, Aligned, Begins, Rooted
<1> QED
  BY <1>1, <1>2, <1>3, <1>5, <1>6, <1>7, <1>8, <1>9, <1>10 DEF Next

LEMMA Invariance == Spec => []IInv
  BY InitInv, StepInv, PTL DEF Spec

-----------------------------------------------------------------------------
(* Theorems. *)

\* The translation state of a CPU always has the shape of CPUState's arrays.
THEOREM TypeCorrect == Spec => []TypeOK
<1>1. IInv => TypeOK
  BY DEF IInv
<1> QED
  BY <1>1, Invariance, PTL

\* However large the TLB, insertTranslationEntry() never leaves two slots
\* with the same page of a context at the same size.
THEOREM TwinFreedom == Spec => []NoTwins
<1>1. IInv => NoTwins
  BY DEF IInv
<1> QED
  BY <1>1, Invariance, PTL

\* What the TLB holds of a page is what the context's table says, until the
\* guest changes the table and for as long as it does not purge the page.
THEOREM Coherence == Spec => []Coherent
<1>1. IInv => Coherent
  BY DEF IInv
<1> QED
  BY <1>1, Invariance, PTL

\* A hit decides an access as a walk would, the accessed and dirty bits
\* apart.
THEOREM HitsAgree == Spec => []HitAgreesWithWalk
<1>1. IInv => HitAgreesWithWalk
  <2> SUFFICES ASSUME IInv, NEW p \in Pages, NEW a \in Accesses, NEW readable \in BOOLEAN,
                      NEW i \in Slots, Found(p) = dtlb[i], dtlb[i] # None,
                      Found(p).page = p, <<rr.rid, p>> \notin stale,
                      WalkOutcome(tables[rr.rid][p], a) \notin {"ACCESS_BIT", "DIRTY_BIT"}
               PROVE  Outcome(p, a, readable) = WalkOutcome(tables[rr.rid][p], a)
    BY DEF HitAgreesWithWalk
  <2>1. Found(p).rid = rr.rid
    BY FoundCovers DEF Covers
  <2>2. Found(p).pte = tables[rr.rid][p]
    BY <2>1 DEF IInv, Coherent
  <2>3. Outcome(p, a, readable) = HitOutcome(tables[rr.rid][p], a)
    BY <2>2 DEF Outcome
  <2> QED
    BY <2>3 DEF HitOutcome, WalkOutcome
<1> QED
  BY <1>1, Invariance, PTL
=============================================================================
