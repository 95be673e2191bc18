----------------------- MODULE IA64AddressTranslation -----------------------
(***************************************************************************)
(* Translation of data addresses on one CPU (IA64AddressTranslator and the *)
(* translation state of CPUState): data translation registers, the data    *)
(* TLB with its replacement, the walk of the short-format VHPT, the        *)
(* faults, and the instructions by which the guest manages all this:       *)
(* itr.d, itc.d, ptc.l, mov to rr.  Of PSR.ic, which decides what a miss   *)
(* is, it is told that a fault clears it; the context a fault saves is in  *)
(* IA64Interruption.                                                       *)
(*                                                                         *)
(* A virtual address is its page, counted in pages of the region's own     *)
(* size, and an entry covers "size" of them.  The VHPT is one page,        *)
(* HashPage, whose translation names the table it is read from: each       *)
(* context, that is each region identifier, has its own.  An entry's       *)
(* rights are the accesses they allow at the privilege level of the guest. *)
(* A load or store that crosses a page is two accesses in a row, and one   *)
(* with PSR.dt off changes nothing here.  What the guest writes is what    *)
(* its tables hold: it is the guest's part to purge what it changes, and   *)
(* "stale" is what it has not purged yet.                                  *)
(***************************************************************************)
EXTENDS Naturals, FiniteSets

CONSTANTS
  Rids,        \* region identifiers, one context each
  Pages,       \* pages of the region
  Identity,    \* those of the regions and aliases that need no table
  HashPage,    \* the page that maps the VHPT
  Sizes,       \* pages an entry covers
  NumDTLB,     \* NUM_DATA_TLB_ENTRIES
  NumDTR,      \* NUM_TRANSLATION_REGISTERS
  Frames,      \* page frames; a table's frame has the name of its context
  Contents,    \* what the guest writes in its tables
  MaxUnpurged, \* bound: pages changed and not purged
  None         \* no entry

Accesses == {"READ", "WRITE", "NON_ACCESS"}

\* The translation part of a PTE, of a TLB entry and of a register.
Pte == [present : BOOLEAN, accessed : BOOLEAN, dirty : BOOLEAN,
        rights : SUBSET Accesses, frame : Frames]

\* The page at which the entry of this size that holds page begins.
Base(page, size) == (page \div size) * size

ASSUME TranslationAssumption ==
  /\ NumDTLB \in Nat \ {0} /\ NumDTR \in Nat
  /\ Sizes \subseteq Nat \ {0} /\ 1 \in Sizes
  /\ Pages \subseteq Nat /\ HashPage \in Pages /\ Identity \subseteq Pages
  /\ \A p \in Pages, n \in Sizes : Base(p, n) \in Pages
  /\ \A n \in Sizes : Base(HashPage, n) = HashPage
  /\ Rids \subseteq Frames /\ Contents \subseteq Pte
  /\ MaxUnpurged \in Nat

Slots == 0 .. NumDTLB - 1
Registers == 0 .. NumDTR - 1
Entry == [rid : Rids, page : Pages, size : Sizes, pte : Pte]

ASSUME NoneAssumption == None \notin Entry

VARIABLES
  dtlb,   \* the data TLB
  next,   \* dtlbReplacementIndex_
  dtr,    \* the data translation registers
  rr,     \* the region register: region identifier, and VHPT walker enabled
  ic,     \* PSR.ic: an interruption collects its context
  tables, \* the guest's page tables
  stale   \* ghost: pages of a context changed since they were last purged

tlbVars == <<dtlb, next, dtr>>
guestVars == <<rr, tables, stale>>
vars == <<tlbVars, ic, guestVars>>

\* The entry by which the guest maps the table of a context.
TableOf(rid) == [present |-> TRUE, accessed |-> TRUE, dirty |-> TRUE,
                 rights |-> Accesses, frame |-> rid]

Init ==
  /\ dtlb = [i \in Slots |-> None] /\ next = 0
  /\ dtr = [i \in Registers |-> None]
  /\ rr \in [rid : Rids, ve : {FALSE}]
  /\ ic = FALSE
  /\ tables \in {[r \in Rids |-> [p \in Pages |->
                    IF p = HashPage THEN TableOf(r) ELSE t]] : t \in Contents}
  /\ stale = {}

-----------------------------------------------------------------------------
(* Looking an address up. *)

\* Mutant: the region identifier is not compared.
CoversAnyContext(e, page, rid) ==
  e # None /\ Base(e.page, e.size) = Base(page, e.size)

Covers(e, page, rid) ==
  e # None /\ e.rid = rid /\ Base(e.page, e.size) = Base(page, e.size)

First(S) == CHOOSE i \in S : \A j \in S : i <= j

\* The registers come before the TLB, and in each the first entry decides.
Found(page) ==
  LET pinned == {i \in Registers : Covers(dtr[i], page, rr.rid)}
      cached == {i \in Slots : Covers(dtlb[i], page, rr.rid)}
  IN  IF pinned # {} THEN dtr[First(pinned)]
      ELSE IF cached # {} THEN dtlb[First(cached)]
      ELSE None

\* A cached translation is checked for presence and rights only.
HitOutcome(pte, access) ==
  IF ~pte.present THEN "PAGE_NOT_PRESENT"
  ELSE IF access \notin pte.rights THEN "ACCESS_RIGHTS"
  ELSE "ok"

WalkOutcome(pte, access) ==
  IF ~pte.present THEN "PAGE_NOT_PRESENT"
  ELSE IF access # "NON_ACCESS" /\ ~pte.accessed THEN "ACCESS_BIT"
  ELSE IF access = "WRITE" /\ ~pte.dirty THEN "DIRTY_BIT"
  ELSE IF access \notin pte.rights THEN "ACCESS_RIGHTS"
  ELSE "ok"

\* The entry of the VHPT for page, read where the hash page is mapped to.
VhptEntry(page) == tables[Found(HashPage).pte.frame][page]

TlbMiss == IF ic THEN "TLB_MISS" ELSE "NESTED_TLB_MISS"

\* The walk for a page that neither a register nor the TLB maps.  Memory may
\* refuse to be read where the hash page is mapped to.
Walk(page, access, readable) ==
  IF ~rr.ve THEN TlbMiss
  ELSE IF ~ic THEN "NESTED_TLB_MISS"
  ELSE IF Found(HashPage) = None THEN "VHPT_MISS"
  ELSE IF HitOutcome(Found(HashPage).pte, "READ") # "ok"
    THEN HitOutcome(Found(HashPage).pte, "READ")
  ELSE IF ~readable THEN "NESTED_TLB_MISS"
  ELSE WalkOutcome(VhptEntry(page), access)

\* TranslateDataAddress(): the fault it throws, or "ok".
Outcome(page, access, readable) ==
  IF Found(page) # None THEN HitOutcome(Found(page).pte, access)
  ELSE IF page \in Identity THEN "ok"
  ELSE Walk(page, access, readable)

-----------------------------------------------------------------------------
(* Inserting and purging. *)

\* The slots that hold the very page an insertion is for.
SamePage(rid, page, size) ==
  {i \in Slots : Covers(dtlb[i], page, rid) /\ dtlb[i].size = size}

Empty == {i \in Slots : dtlb[i] = None}

Put(i, rid, page, size, pte) ==
  dtlb' = [dtlb EXCEPT ![i] = [rid |-> rid, page |-> page, size |-> size, pte |-> pte]]

\* Mutant: the replacement index does not wrap.
AfterUnwrapped(i) == i + 1

After(i) == (i + 1) % NumDTLB

\* Mutant: the first empty slot is taken before the rest is searched.
InsertDTLBInHaste(rid, page, size, pte) ==
  \/ /\ Empty # {}
     /\ Put(First(Empty), rid, page, size, pte)
     /\ UNCHANGED next
  \/ /\ Empty = {} /\ SamePage(rid, page, size) # {}
     /\ Put(First(SamePage(rid, page, size)), rid, page, size, pte)
     /\ UNCHANGED next
  \/ /\ SamePage(rid, page, size) = {} /\ Empty = {}
     /\ Put(next, rid, page, size, pte)
     /\ next' = After(next)

\* The slot of the same page, or the first empty one, or the next in turn.
InsertDTLB(rid, page, size, pte) ==
  \/ /\ SamePage(rid, page, size) # {}
     /\ Put(First(SamePage(rid, page, size)), rid, page, size, pte)
     /\ UNCHANGED next
  \/ /\ SamePage(rid, page, size) = {} /\ Empty # {}
     /\ Put(First(Empty), rid, page, size, pte)
     /\ UNCHANGED next
  \/ /\ SamePage(rid, page, size) = {} /\ Empty = {}
     /\ Put(next, rid, page, size, pte)
     /\ next' = After(next)

\* Mutant: the search ends at the first entry purged.
PurgeDTLBOnce(page) ==
  LET covering == {i \in Slots : Covers(dtlb[i], page, rr.rid)}
  IN  dtlb' = [i \in Slots |-> IF covering # {} /\ i = First(covering)
                               THEN None ELSE dtlb[i]]

\* Every entry that holds page goes; the range the purge asks for is not
\* looked at.
PurgeDTLB(page) ==
  dtlb' = [i \in Slots |-> IF Covers(dtlb[i], page, rr.rid) THEN None ELSE dtlb[i]]

-----------------------------------------------------------------------------
(* Loads, stores and probes.  One that hits changes nothing. *)

\* The walker finds the page, and the translation is inserted.
WalkFinds(page, access) ==
  /\ Found(page) = None /\ page \notin Identity
  /\ Walk(page, access, TRUE) = "ok"
  /\ InsertDTLB(rr.rid, page, 1, VhptEntry(page))
  /\ UNCHANGED <<dtr, ic, guestVars>>

\* The dispatch of every fault turns the collection off.
AccessFaults(page, access, readable) ==
  /\ Outcome(page, access, readable) # "ok"
  /\ ic' = FALSE
  /\ UNCHANGED <<tlbVars, guestVars>>

-----------------------------------------------------------------------------
(* Instructions of the guest. *)

\* rfi, ssm and rsm as far as PSR.ic goes.
SetCollection(on) ==
  /\ ic' = on
  /\ UNCHANGED <<tlbVars, guestVars>>

\* itc.d: the guest inserts what its table says of the page.
ITC_D(page, size) ==
  LET start == Base(page, size)
  IN  /\ InsertDTLB(rr.rid, start, size, tables[rr.rid][start])
      /\ UNCHANGED <<dtr, ic, guestVars>>

\* itr.d: nothing looks for an entry that overlaps the new one.
ITR_D(i, page, size) ==
  LET start == Base(page, size)
  IN  /\ dtr' = [dtr EXCEPT ![i] = [rid |-> rr.rid, page |-> start, size |-> size,
                                    pte |-> tables[rr.rid][start]]]
      /\ UNCHANGED <<dtlb, next, ic, guestVars>>

\* ptc.l: the translation registers stay.
PTC_L(page) ==
  /\ PurgeDTLB(page)
  /\ stale' = stale \ {<<rr.rid, page>>}
  /\ UNCHANGED <<next, dtr, ic, rr, tables>>

\* mov to rr: another context, or the walker on or off; nothing is purged.
MOV_TO_RR(value) ==
  /\ rr' = value
  /\ UNCHANGED <<tlbVars, ic, tables, stale>>

\* The guest changes a table; the TLB does not see it.  It never does so
\* for a page that needs none, nor moves a table.
WritePte(rid, page, pte) ==
  /\ page \notin Identity \cup {HashPage}
  /\ pte # tables[rid][page]
  /\ stale' = stale \cup {<<rid, page>>}
  /\ Cardinality(stale') <= MaxUnpurged
  /\ tables' = [tables EXCEPT ![rid][page] = pte]
  /\ UNCHANGED <<tlbVars, ic, rr>>

Next ==
  \/ \E p \in Pages, a \in Accesses :
       WalkFinds(p, a) \/ \E readable \in BOOLEAN : AccessFaults(p, a, readable)
  \/ \E on \in BOOLEAN : SetCollection(on)
  \/ \E p \in Pages, n \in Sizes :
       ITC_D(p, n) \/ \E i \in Registers : ITR_D(i, p, n)
  \/ \E p \in Pages : PTC_L(p)
  \/ \E value \in [rid : Rids, ve : BOOLEAN] : MOV_TO_RR(value)
  \/ \E r \in Rids, p \in Pages, t \in Contents : WritePte(r, p, t)

Spec == Init /\ [][Next]_vars

-----------------------------------------------------------------------------
(* Properties. *)

\* The TLB, its replacement index, the registers and the tables hold what
\* CPUState's arrays can hold.
TypeOK ==
  /\ dtlb \in [Slots -> Entry \cup {None}]
  /\ next \in Slots
  /\ dtr \in [Registers -> Entry \cup {None}]
  /\ rr \in [rid : Rids, ve : BOOLEAN]
  /\ ic \in BOOLEAN
  /\ tables \in [Rids -> [Pages -> Pte]]
  /\ stale \subseteq Rids \X Pages

\* Whatever mixture of walks, insertions, purges and context switches filled
\* the TLB, no two of its slots hold the same page of a context at the same
\* size (insertTranslationEntry()), so that a purged or replaced translation
\* has no twin further down that the next lookup would find.
NoTwins ==
  \A i, j \in Slots :
    /\ dtlb[i] # None /\ dtlb[j] # None
    /\ dtlb[i].rid = dtlb[j].rid /\ dtlb[i].size = dtlb[j].size
    /\ Base(dtlb[i].page, dtlb[i].size) = Base(dtlb[j].page, dtlb[j].size)
    => i = j

\* A cached translation is what the table of its own context says of its
\* page, unless the guest has changed the table and not purged the page
\* since: a purge reaches every slot and every size that holds the page, and
\* a walk under one context never caches an entry of another's table, though
\* the table is itself reached through the TLB.
Coherent ==
  \A i \in Slots : dtlb[i] # None =>
    \/ dtlb[i].pte = tables[dtlb[i].rid][dtlb[i].page]
    \/ <<dtlb[i].rid, dtlb[i].page>> \in stale

\* A page found in the TLB, and purged since it was last changed, gives an
\* access the outcome a walk of the context's table would give it, whether or
\* not the table could be read now, but for the accessed and dirty bits, which
\* TranslateDataAddress() looks at only when it walks.
HitAgreesWithWalk ==
  \A p \in Pages, a \in Accesses, readable \in BOOLEAN :
    LET pte == tables[rr.rid][p]
    IN  /\ \E i \in Slots : Found(p) = dtlb[i] /\ dtlb[i] # None
        /\ Found(p).page = p /\ <<rr.rid, p>> \notin stale
        /\ \A i \in Registers : Found(p) # dtr[i]
        /\ WalkOutcome(pte, a) \notin {"ACCESS_BIT", "DIRTY_BIT"}
        => Outcome(p, a, readable) = WalkOutcome(pte, a)

=============================================================================
