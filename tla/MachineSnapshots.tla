-------------------------- MODULE MachineSnapshots --------------------------
(***************************************************************************)
(* The four ways a VirtualMachine's state is kept and put back: the full   *)
(* and delta snapshots of VMSnapshotManager, the snapshot a caller holds   *)
(* (captureVMSnapshot), the debugger's snapshot, and the checkpoint file   *)
(* of VMCheckpointCodec, which outlives the process.                       *)
(*                                                                         *)
(* The state is divided into parts that differ in which of the four keep   *)
(* them and how.  The value of a part is the moment it last changed at; 0  *)
(* is the value it has in a machine that was just made.                    *)
(*   "memory"     memory, the CPUs' execution states, counters and which   *)
(*                of them is active                                        *)
(*   "registers"  values of the general and branch registers, IP and PSR   *)
(*   "nat"        the NaT bit of a general register                        *)
(*   "rotation"   CFM: by how much the rotating predicates are renamed     *)
(*   Predicate[i] one of those predicates, by its physical number          *)
(*   "rest"       application, floating-point, control and translation     *)
(*                registers, the page table and the CPUs' enabled flags    *)
(*   "slot"       the plugin's slot and the bundle it has decoded: 0 at a  *)
(*                bundle boundary                                          *)
(*   "halted"     the CPUs' own halted flags and call inputs               *)
(*   "cycles"     the machine's count of cycles                            *)
(*   "timer"      the timer, the console and the interrupt controller      *)
(*   "quantum"    the scheduler's quantum                                  *)
(*   "boot"       the boot state, the scheduler's position and the         *)
(*                plugin's pending interrupts                              *)
(* The CPU's own slot and bundle, which a machine with plugins never uses, *)
(* the plugin's stack of interrupted frames, which none of the four keeps, *)
(* and VMState, which is in VirtualMachine, are left out.                  *)
(***************************************************************************)
EXTENDS Naturals, Sequences, FiniteSets, SequencesExt

CONSTANTS
  NumCPUs,       \* CPUs of the machine
  NumPR,         \* rotating predicates of a CPU: 48
  Predicate,     \* their names as parts of the state
  Batches,       \* what a batch of instructions may do to predicates and slot
  MaxTime,       \* bound on the moments at which something changes
  MaxCaptures,   \* bound on the snapshots and checkpoints ever begun
  None

Logical == 0 .. NumPR - 1
Predicates == {Predicate[i] : i \in Logical}
Plain == {"memory", "registers", "nat", "rotation", "rest", "slot", "halted",
          "cycles", "timer", "quantum", "boot"}
Parts == Plain \cup Predicates
State == {m \in [Parts -> Nat] : m.rotation \in Logical}

(* The predicates a batch writes, and whether it rotates them once and ends in *)
(* the middle of a bundle.                                                     *)
Batch == [writes : SUBSET Predicates, rotates : BOOLEAN, midway : BOOLEAN]

ASSUME SnapshotAssumption ==
  /\ NumCPUs \in Nat \ {0} /\ NumPR \in Nat \ {0}
  /\ {MaxTime, MaxCaptures} \subseteq Nat
  /\ Predicates \cap Plain = {}
  /\ Batches \subseteq Batch
  /\ \A i, j \in Logical : Predicate[i] = Predicate[j] => i = j
  /\ None \notin [parts : SUBSET Parts, was : State]

VARIABLES
  machine,   \* the machine
  clock,     \* moments so far
  captures,  \* snapshots and checkpoints so far
  full,      \* fullSnapshots_: identifier to record
  delta,     \* deltaSnapshots_: identifier to parent and changed parts
  order,     \* snapshotOrder_
  issued,    \* identifiers handed out
  taken,     \* ghost: the machine each identifier was taken of
  held,      \* a snapshot in a caller's hands
  file       \* the checkpoint file

storeVars == <<full, delta, order, issued, taken>>
vars == <<machine, clock, captures, storeVars, held, file>>

NewMachine == [p \in Parts |-> 0]

Init ==
  /\ machine = NewMachine
  /\ clock = 0 /\ captures = 0
  /\ full = <<>> /\ delta = <<>> /\ order = <<>>
  /\ issued = 0
  /\ taken = <<>>
  /\ held = None
  /\ file = None

Listed == DOMAIN full \cup DOMAIN delta

Keep(f, k, v) == [x \in DOMAIN f \cup {k} |-> IF x = k THEN v ELSE f[x]]
Drop(f, k) == [x \in DOMAIN f \ {k} |-> f[x]]

Captures == captures < MaxCaptures /\ captures' = captures + 1

(* The machine with the parts of S as they are in r. *)
With(S, r) == [p \in Parts |-> IF p \in S THEN r[p] ELSE machine[p]]

(* MapPR() of the rotating predicates, and one of them as a program sees it. *)
MapPR(l, rotation) == IF l + rotation < NumPR THEN l + rotation ELSE l + rotation - NumPR
PR(r, l) == r[Predicate[MapPR(l, r.rotation)]]

\* RotateRegisters()
Rotate(rotation) == IF rotation = 0 THEN NumPR - 1 ELSE rotation - 1

-----------------------------------------------------------------------------
(* The machine changes. *)

Executed == {"memory", "registers", "nat", "rest", "halted", "cycles", "timer"}

\* A batch of instructions.
Execute(batch) ==
  /\ clock < MaxTime
  /\ clock' = clock + 1
  /\ machine' = [p \in Parts |->
       CASE p \in Executed \cup batch.writes -> clock + 1
         [] p = "rotation" /\ batch.rotates -> Rotate(machine.rotation)
         [] p = "slot" -> IF batch.midway THEN clock + 1 ELSE 0
         [] OTHER -> machine[p]]
  /\ UNCHANGED <<captures, storeVars, held, file>>

\* setQuantumSize() and the boot state machine.
Set(part) ==
  /\ clock < MaxTime
  /\ clock' = clock + 1
  /\ machine' = [machine EXCEPT ![part] = clock + 1]
  /\ UNCHANGED <<captures, storeVars, held, file>>

-----------------------------------------------------------------------------
(* VMSnapshotManager. *)

Recorded == Parts \ {"slot", "boot"}

\* A VMStateSnapshot has no field for the halted flags; captureFullSnapshot()
\* cannot see the devices or the count of cycles either.  What restores it
\* has the defaults.
Fieldless == {"halted"}
Unseen == {"cycles", "timer"}

CaptureFullSnapshot ==
  [p \in Recorded |-> IF p \in Fieldless \cup Unseen THEN 0 ELSE machine[p]]

\* The parts that are compared and stored as they are.  Predicates are compared
\* by their logical numbers, each record's under its own CFM; "nat", "rest" and
\* "halted" are not compared.
DeltaParts == {"memory", "registers", "rotation", "cycles", "timer", "quantum"}

ComputeDelta(current, parent) ==
  LET changed == {p \in DeltaParts : current[p] # parent[p]}
      turned  == {l \in Logical : PR(current, l) # PR(parent, l)}
  IN [parts |-> [p \in changed |-> current[p]],
      predicates |-> [l \in turned |-> PR(current, l)]]

\* Predicates are written while the CFM is still that of the base, and what is
\* written to a general register takes its NaT bit away.
Written(base, changes) ==
  [p \in {Predicate[MapPR(l, base.rotation)] : l \in DOMAIN changes.predicates} |->
     changes.predicates[CHOOSE l \in DOMAIN changes.predicates :
                          Predicate[MapPR(l, base.rotation)] = p]]

ApplyDelta(base, changes) ==
  LET written == Written(base, changes)
  IN [p \in Recorded |->
        CASE p \in DOMAIN changes.parts -> changes.parts[p]
          [] p = "nat" /\ "registers" \in DOMAIN changes.parts -> 0
          [] p \in DOMAIN written -> written[p]
          [] OTHER -> base[p]]

NoChanges == [parts |-> <<>>, predicates |-> <<>>]

\* What each of the first n identifiers stands for, along its parents, or
\* None, when f are the full snapshots and d the deltas.
Resolution(f, d, n) ==
  LET Resolved[i \in 1 .. n] ==
        IF i \in DOMAIN f THEN f[i]
        ELSE IF i \in DOMAIN d
        THEN LET base == Resolved[d[i].parent]
             IN IF base = None THEN None ELSE ApplyDelta(base, d[i].changes)
        ELSE None
  IN Resolved

ResolveSnapshot(id) ==
  IF id \in 1 .. issued THEN Resolution(full, delta, issued)[id] ELSE None

\* Mutant: identifiers number the snapshots there are.
GenerateSnapshotIdCounted == Cardinality(Listed) + 1

\* Made of the system's time and a number that counts unnamed snapshots only:
\* no two are the same as long as the clock moves between them.
GenerateSnapshotId == issued + 1

Store(id) ==
  /\ order' = Append(order, id)
  /\ issued' = issued + 1
  /\ taken' = Keep(taken, id, machine)
  /\ UNCHANGED <<machine, clock, held, file>>

CreateFullSnapshot ==
  /\ Captures
  /\ LET id == GenerateSnapshotId IN
     /\ full' = Keep(full, id, CaptureFullSnapshot)
     /\ Store(id)
  /\ UNCHANGED delta

\* Mutant: the difference to a delta is taken to be that to its own parent.
CreateDeltaSnapshotOfRoot(parent) ==
  /\ Captures
  /\ parent \in Listed
  /\ LET id == GenerateSnapshotId
         root == ResolveSnapshot(IF parent \in DOMAIN delta THEN delta[parent].parent
                                                           ELSE parent)
     IN /\ delta' = Keep(delta, id,
             [parent |-> parent, changes |-> IF root = None THEN NoChanges
                                   ELSE ComputeDelta(CaptureFullSnapshot, root)])
        /\ Store(id)
  /\ UNCHANGED full

\* The parent must be listed, not resolvable: of an orphan, which resolves
\* to nothing, the delta is worth as little as its parent.
CreateDeltaSnapshot(parent) ==
  /\ Captures
  /\ parent \in Listed
  /\ LET id == GenerateSnapshotId
         base == ResolveSnapshot(parent)
     IN /\ delta' = Keep(delta, id,
             [parent |-> parent, changes |-> IF base = None THEN NoChanges
                                   ELSE ComputeDelta(CaptureFullSnapshot, base)])
        /\ Store(id)
  /\ UNCHANGED full

\* VirtualMachine::restoreFromSnapshot(): nothing happens if the snapshot
\* does not resolve.  The plugin's slot and the boot state are not touched.
RestoreFromSnapshot(id) ==
  /\ ResolveSnapshot(id) # None
  /\ machine' = With(Recorded, ResolveSnapshot(id))
  /\ UNCHANGED <<clock, captures, storeVars, held, file>>

\* Mutant: the identifier stays in the list.
DeleteSnapshotStillListed(id) ==
  /\ id \in Listed
  /\ full' = Drop(full, id)
  /\ delta' = Drop(delta, id)
  /\ UNCHANGED <<machine, clock, captures, order, issued, taken, held, file>>

\* Mutant: deltas taken of the snapshot are given its parent.
DeleteSnapshotRebased(id) ==
  /\ id \in Listed
  /\ full' = Drop(full, id)
  /\ delta' = [x \in DOMAIN delta \ {id} |->
                 IF delta[x].parent = id /\ id \in DOMAIN delta
                 THEN [delta[x] EXCEPT !.parent = delta[id].parent] ELSE delta[x]]
  /\ order' = RemoveFirst(order, id)
  /\ UNCHANGED <<machine, clock, captures, issued, taken, held, file>>

\* Deltas taken of the snapshot stay behind.
DeleteSnapshot(id) ==
  /\ id \in Listed
  /\ full' = Drop(full, id)
  /\ delta' = Drop(delta, id)
  /\ order' = RemoveFirst(order, id)
  /\ UNCHANGED <<machine, clock, captures, issued, taken, held, file>>

Clear ==
  /\ full' = <<>> /\ delta' = <<>> /\ order' = <<>>
  /\ UNCHANGED <<machine, clock, captures, issued, taken, held, file>>

-----------------------------------------------------------------------------
(* A snapshot in a caller's hands: of the debugger, or the direct one. *)

CreateSnapshot ==
  /\ Captures
  /\ held' = [parts |-> Recorded \ {"timer", "quantum"}, was |-> machine]
  /\ UNCHANGED <<machine, clock, storeVars, file>>

CaptureVMSnapshot ==
  /\ Captures
  /\ held' = [parts |-> Recorded, was |-> With(Fieldless, NewMachine)]
  /\ UNCHANGED <<machine, clock, storeVars, file>>

RestoreHeld ==
  /\ held # None
  /\ machine' = With(held.parts, held.was)
  /\ UNCHANGED <<clock, captures, storeVars, held, file>>

-----------------------------------------------------------------------------
(* The checkpoint file. *)

\* Refused in the middle of a bundle.  Opening the file truncates it; a write
\* that fails, or whose process ends there, leaves it so.
BeginCheckpoint ==
  /\ Captures
  /\ machine.slot = 0
  /\ file' = [whole |-> FALSE, was |-> machine]
  /\ UNCHANGED <<machine, clock, storeVars, held>>

FinishCheckpoint ==
  /\ file # None /\ ~file.whole
  /\ file.was = machine
  /\ file' = [file EXCEPT !.whole = TRUE]
  /\ UNCHANGED <<machine, clock, captures, storeVars, held>>

\* Mutant: the sections that are there are restored as they are read.
ReadCheckpointAsItComes ==
  /\ file # None
  /\ machine' = With(IF file.whole THEN Parts ELSE {"memory"}, file.was)
  /\ UNCHANGED <<clock, captures, storeVars, held, file>>

\* Everything is read and checked before the machine is touched, and only a
\* machine of one CPU is.
ReadCheckpoint ==
  /\ file # None /\ file.whole
  /\ NumCPUs = 1
  /\ machine' = With(Parts, file.was)
  /\ UNCHANGED <<clock, captures, storeVars, held, file>>

\* The process ends, perhaps in the middle of a write: the file is left.
Crash ==
  /\ machine' = NewMachine
  /\ full' = <<>> /\ delta' = <<>> /\ order' = <<>> /\ taken' = <<>>
  /\ issued' = 0
  /\ held' = None
  /\ UNCHANGED <<clock, captures, file>>

Next ==
  \/ \E batch \in Batches : Execute(batch)
  \/ Set("quantum") \/ Set("boot")
  \/ CreateFullSnapshot
  \/ \E id \in Listed : \/ CreateDeltaSnapshot(id)
                        \/ RestoreFromSnapshot(id)
                        \/ DeleteSnapshot(id)
  \/ Clear
  \/ CreateSnapshot \/ CaptureVMSnapshot \/ RestoreHeld
  \/ BeginCheckpoint \/ FinishCheckpoint \/ ReadCheckpoint
  \/ Crash

Spec == Init /\ [][Next]_vars

-----------------------------------------------------------------------------
Record == {r \in [Recorded -> Nat] : r.rotation \in Logical}

TypeOK ==
  /\ machine \in State
  /\ clock \in Nat
  /\ issued \in Nat
  /\ DOMAIN full \cap DOMAIN delta = {}
  /\ order \in Seq(Listed)
  /\ \A id \in Listed : \E i \in DOMAIN order : order[i] = id
  /\ \A i, j \in DOMAIN order : order[i] = order[j] => i = j
  /\ Listed \subseteq 1 .. issued
  /\ \A id \in DOMAIN full : full[id] \in Record
  /\ \A id \in DOMAIN delta : delta[id].parent \in 1 .. (id - 1)
  /\ held # None => held.was \in State
  /\ file # None => file.was \in State

(***************************************************************************)
(* Memory, the values of the general and branch registers, IP and PSR      *)
(* always come from the same moment: whichever of the four put them back,  *)
(* along whatever chain of deltas, and with whatever a crash left of a     *)
(* checkpoint.  It is these that are together, and not the whole machine:  *)
(* the slot and the decoded bundle are in the checkpoint only, and a delta *)
(* has the rest, the NaT bits and rotated predicates of other moments.     *)
(***************************************************************************)
MemoryFitsRegisters == machine.memory = machine.registers

(***************************************************************************)
(* A snapshot that can be restored is what was taken, as far as its kind   *)
(* goes: deltas of deltas, taken before and after restores that turned     *)
(* parts back to what they were, give the memory, registers, CFM and       *)
(* quantum of the moment of capture; they give the predicates too, unless  *)
(* the delta changes the CFM; and a full snapshot gives all registers.     *)
(***************************************************************************)
Exact == {"memory", "registers", "rotation", "quantum"}

ResolvesToTaken ==
  \A id \in Listed :
    LET resolved == ResolveSnapshot(id) IN
    resolved # None =>
      /\ \A p \in Exact : resolved[p] = taken[id][p]
      /\ id \in DOMAIN full \/ "rotation" \notin DOMAIN delta[id].changes.parts =>
           \A p \in Predicates : resolved[p] = taken[id][p]
      /\ id \in DOMAIN full => \A p \in {"rest", "nat"} : resolved[p] = taken[id][p]

(***************************************************************************)
(* docs/VM_SNAPSHOT_IMPLEMENTATION.md of a delta that is restored: "VM is  *)
(* now exactly as it was after 1000 cycles" (154), with "Predicate         *)
(* registers" among what a delta compares (203).  Not so, when they were   *)
(* rotated between the parent and the delta.                               *)
(***************************************************************************)
PredicatesAsTaken ==
  \A id \in Listed :
    LET resolved == ResolveSnapshot(id) IN
    resolved # None => \A l \in Logical : PR(resolved, l) = PR(taken[id], l)

(***************************************************************************)
(* A snapshot gives what it always gave, or nothing any more: none of its  *)
(* ancestors, once deleted, is replaced by another, so that an orphan is   *)
(* never restored on top of a stranger's state.                            *)
(***************************************************************************)
GivesWhatItGave ==
  [][\A id \in Listed : id \in Listed' =>
       ResolveSnapshot(id)' \in {ResolveSnapshot(id), None}]_vars

(***************************************************************************)
(* The four ways of keeping a machine do what one store that puts whole    *)
(* states away would do, for the parts that every one of them keeps as     *)
(* they are: memory and registers, and the quantum but for the debugger's. *)
(* A snapshot is in the store as long as it resolves, and the checkpoint   *)
(* when its file is whole.                                                 *)
(***************************************************************************)
Computed == {"memory", "registers"}
Chosen == {"quantum"}
Kept(r, S) == [p \in S \cap (Computed \cup Chosen) |-> r[p]]

Present == Kept(machine, Parts)
Usable ==
  LET resolved == Resolution(full, delta, issued)
      resolvable == {id \in Listed : resolved[id] # None}
  IN [id \in resolvable |-> Kept(resolved[id], Parts)]
InHands == IF held = None THEN <<>> ELSE Kept(held.was, held.parts)
OnDisk == IF file # None /\ file.whole THEN Kept(file.was, Parts) ELSE <<>>

Promised == INSTANCE SnapshotStore WITH
  present <- Present, now <- clock, snapshots <- Usable, held <- InHands, checkpoint <- OnDisk

ImplementsStore == Promised!Spec
=============================================================================
