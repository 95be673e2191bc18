--------------------------- MODULE VMManagerProofs ---------------------------
(***************************************************************************)
(* Proofs about VMManager for any machines, any number of execution loops  *)
(* and any number of snapshots: its types, what is settled between calls,  *)
(* that identifiers are never given twice, and that it implements          *)
(* VMLifecycle and, for each of its machines, MachineLife.                 *)
(***************************************************************************)
EXTENDS VMManager, FiniteSetTheorems, TLAPS

\* A call in progress is about a machine that is there.
ControlSane ==
  \/ control = Free
  \/ \E m \in vms : control \in {[op |-> "start", m |-> m], [op |-> "stop", m |-> m]}

\* No thread is inside a machine that is gone.
RunnersHaveMachines == \A l \in Loops : InRun(l) => loop[l].m \in vms

\* Every identifier anywhere was given, by a counter that only goes up.
Given(x, count) == x = None \/ (x \in Nat /\ x < count)

IdentifiersGiven ==
  \A m \in Machines :
    /\ Given(metadata[m].active, snapshotCounter)
    /\ IsFiniteSet(snapshots[m])
    /\ \A s \in snapshots[m] : s.id < snapshotCounter /\ Given(s.vm.active, snapshotCounter)

IInv == TypeOK /\ ControlSane /\ RunnersHaveMachines /\ SettledBetweenCalls
        /\ IdentifiersGiven

States == [state : {"STOPPED", "RUNNING", "ERROR"}, ready : BOOLEAN]
Places == {"idle", "test", "call", "admitted", "inside", "after"}
LoopRecord == [at : Places, m : Machines \cup {None}, cancelled : BOOLEAN, ran : BOOLEAN]

-----------------------------------------------------------------------------
(* What the helpers of the calls preserve. *)

\* Writing a state leaves everything else of the metadata alone.
LEMMA SetStateEffect ==
  ASSUME TypeOK, NEW m \in Machines, NEW s \in VMState, SetState(m, s)
  PROVE  /\ metadata' \in [Machines -> Metadata]
         /\ \A n \in Machines :
              /\ metadata'[n].state = IF n = m THEN s ELSE metadata[n].state
              /\ metadata'[n].active = metadata[n].active
<1>1. metadata \in [Machines -> Metadata]
  BY DEF TypeOK
<1>2. metadata' = [metadata EXCEPT ![m] = [metadata[m] EXCEPT !.state = s]]
  BY DEF SetState
<1>3. [metadata[m] EXCEPT !.state = s] \in Metadata
  BY <1>1 DEF Metadata
<1>4. /\ [metadata[m] EXCEPT !.state = s].state = s
      /\ [metadata[m] EXCEPT !.state = s].active = metadata[m].active
  BY <1>1 DEF Metadata
<1> QED
  BY <1>1, <1>2, <1>3, <1>4

\* A machine that is reset is one.
LEMMA ResetTyped ==
  ASSUME TypeOK, NEW m \in Machines, NEW ok \in BOOLEAN, ResetMachine(m, ok)
  PROVE  machine' \in [Machines -> States]
BY DEF TypeOK, ResetMachine, Fresh, States

LEMMA HaltTyped ==
  ASSUME TypeOK, NEW m \in Machines, machine' = [machine EXCEPT ![m] = Halted(@)]
  PROVE  machine' \in [Machines -> States]
BY DEF TypeOK, Halted, States

\* Nor does execution, or a state that is written, make anything else of one.
LEMMA StatesWritten ==
  ASSUME NEW v \in States, NEW s \in {"RUNNING", "STOPPED"}
  PROVE  Executed \subseteq States /\ [v EXCEPT !.state = s] \in States
BY DEF Executed, States

\* A new task is not inside a machine, and changes no thread that is.
LEMMA SpawnEffect ==
  ASSUME TypeOK, NEW m \in Machines, Spawn(m)
  PROVE  /\ loop' \in [Loops -> LoopRecord] /\ token' \in [Machines -> Loops \cup {None}]
         /\ \A l \in Loops : /\ InRun(l)' <=> InRun(l)
                             /\ InRun(l) => loop'[l].m = loop[l].m
<1>1. PICK l \in Loops :
        /\ loop[l].at = "idle"
        /\ loop' = [loop EXCEPT ![l] = [Idle EXCEPT !.at = "test", !.m = m]]
        /\ token' = [x \in Machines |-> IF x = m THEN l
                                        ELSE IF token[x] = l THEN None ELSE token[x]]
  BY DEF Spawn
<1>2. /\ [Idle EXCEPT !.at = "test", !.m = m] \in LoopRecord
      /\ [Idle EXCEPT !.at = "test", !.m = m].at = "test"
  BY DEF Idle, LoopRecord, Places
<1>3. loop \in [Loops -> LoopRecord]
  BY DEF TypeOK, LoopRecord, Places
<1>4. loop' \in [Loops -> LoopRecord]
  BY <1>1, <1>2, <1>3
<1>5. token' \in [Machines -> Loops \cup {None}]
  BY <1>1 DEF TypeOK
<1> QED
  BY <1>1, <1>2, <1>3, <1>4, <1>5 DEF InRun

\* Nor does a cancellation move a thread.
LEMMA CancelEffect ==
  ASSUME TypeOK, NEW m \in Machines, CancelTask(m)
  PROVE  /\ loop' \in [Loops -> LoopRecord] /\ token' \in [Machines -> Loops \cup {None}]
         /\ \A l \in Loops : /\ InRun(l)' <=> InRun(l)
                             /\ loop'[l].m = loop[l].m
<1>1. loop \in [Loops -> LoopRecord]
  BY DEF TypeOK, LoopRecord, Places
<1>2. \A l \in Loops : [loop[l] EXCEPT !.cancelled = TRUE] \in LoopRecord
  BY <1>1 DEF LoopRecord
<1>3. loop' \in [Loops -> LoopRecord]
  BY <1>1, <1>2 DEF CancelTask
<1>4. \A l \in Loops : loop'[l].at = loop[l].at /\ loop'[l].m = loop[l].m
  BY <1>1 DEF CancelTask, LoopRecord
<1>5. token' \in [Machines -> Loops \cup {None}]
  BY DEF CancelTask, TypeOK
<1> QED
  BY <1>3, <1>4, <1>5 DEF InRun
\* The states in which a machine may be left between calls.
Lasting == VMState \ {"STOPPING", "SNAPSHOTTING", "CREATED"}

\* What is common to the calls that are one step and leave the snapshots
\* alone, and to the steps of the loops.
LEMMA CallInv ==
  ASSUME IInv, UNCHANGED <<snapshots, snapshotCounter, control>>,
         created' \subseteq Machines, vms' \subseteq created', vms \subseteq vms',
         metadata' \in [Machines -> Metadata], machine' \in [Machines -> States],
         loop' \in [Loops -> LoopRecord], token' \in [Machines -> Loops \cup {None}],
         \A n \in vms' : \/ metadata'[n].state \in Lasting
                         \/ n \in vms /\ metadata'[n].state = metadata[n].state,
         \A n \in Machines : metadata'[n].active = metadata[n].active,
         \A l \in Loops : InRun(l)' => loop'[l].m \in vms'
  PROVE  IInv'
<1>1. TypeOK'
  BY DEF IInv, TypeOK, LoopRecord, Places, States
<1>2. ControlSane'
  BY DEF IInv, ControlSane, Free
<1>3. RunnersHaveMachines'
  BY DEF RunnersHaveMachines
<1>4. SettledBetweenCalls'
  BY DEF IInv, SettledBetweenCalls, State, Lasting
<1>5. IdentifiersGiven'
  BY DEF IInv, IdentifiersGiven, Given
<1> QED
  BY <1>1, <1>2, <1>3, <1>4, <1>5 DEF IInv

\* ... for a call that writes a state.
LEMMA StateCallInv ==
  ASSUME IInv, UNCHANGED <<vms, created, snapshots, snapshotCounter, control>>,
         NEW m \in Machines, NEW s \in Lasting, SetState(m, s),
         machine' \in [Machines -> States],
         loop' \in [Loops -> LoopRecord], token' \in [Machines -> Loops \cup {None}],
         \A l \in Loops : InRun(l)' => loop'[l].m \in vms'
  PROVE  IInv'
<1>1. /\ metadata' \in [Machines -> Metadata]
      /\ \A n \in Machines :
           /\ metadata'[n].state = IF n = m THEN s ELSE metadata[n].state
           /\ metadata'[n].active = metadata[n].active
  BY SetStateEffect DEF IInv, Lasting
<1>2. created' \subseteq Machines /\ vms' \subseteq created' /\ vms \subseteq vms'
  BY DEF IInv, TypeOK
<1>3. \A n \in vms' : \/ metadata'[n].state \in Lasting
                      \/ n \in vms /\ metadata'[n].state = metadata[n].state
  <2> SUFFICES ASSUME NEW n \in vms'
               PROVE  \/ metadata'[n].state \in Lasting
                      \/ n \in vms /\ metadata'[n].state = metadata[n].state
    OBVIOUS
  <2>1. n \in Machines /\ n \in vms
    BY <1>2
  <2> QED
    BY <1>1, <2>1
<1> QED
  BY <1>1, <1>2, <1>3, CallInv

\* ... and for one that leaves the metadata alone.
LEMMA QuietCallInv ==
  ASSUME IInv, UNCHANGED <<vms, created, metadata, snapshots, snapshotCounter, control>>,
         machine' \in [Machines -> States],
         loop' \in [Loops -> LoopRecord], token' \in [Machines -> Loops \cup {None}],
         \A l \in Loops : InRun(l)' => loop'[l].m \in vms'
  PROVE  IInv'
<1>1. metadata' \in [Machines -> Metadata] /\ vms' \subseteq created' /\ created' \subseteq Machines
  BY DEF IInv, TypeOK
<1> QED
  BY <1>1, CallInv

\* What IInv says of the threads and the machines, in the terms above.
LEMMA Unmoved ==
  ASSUME IInv
  PROVE  /\ vms \subseteq Machines
         /\ machine \in [Machines -> States]
         /\ loop \in [Loops -> LoopRecord] /\ token \in [Machines -> Loops \cup {None}]
         /\ \A l \in Loops : InRun(l) => loop[l].m \in vms
BY DEF IInv, TypeOK, LoopRecord, Places, States, RunnersHaveMachines

-----------------------------------------------------------------------------
(* The invariant. *)

LEMMA InitInv == Init => IInv
<1> SUFFICES ASSUME Init
             PROVE  IInv
  OBVIOUS
<1> USE DEF Init
<1>1. TypeOK
  <2>1. NewMetadata \in Metadata
    BY DEF NewMetadata, Metadata, VMState
  <2> QED
    BY <2>1 DEF TypeOK, Fresh, Idle, Free
<1>2. ControlSane /\ RunnersHaveMachines
  BY DEF ControlSane, RunnersHaveMachines, InRun, Idle
<1>3. SettledBetweenCalls
  BY DEF SettledBetweenCalls
<1>4. IdentifiersGiven
  BY FS_EmptySet DEF IdentifiersGiven, Given, NewMetadata
<1> QED
  BY <1>1, <1>2, <1>3, <1>4 DEF IInv

LEMMA CreateInv ==
  ASSUME IInv, NEW m \in Machines, CreateVM(m)
  PROVE  IInv'
<1>1. /\ metadata' \in [Machines -> Metadata]
      /\ \A n \in Machines :
           /\ metadata'[n].state = IF n = m THEN "STOPPED" ELSE metadata[n].state
           /\ metadata'[n].active = metadata[n].active
  BY SetStateEffect DEF IInv, CreateVM, VMState
<1>2. /\ created' = created \cup {m} /\ vms' = vms \cup {m}
      /\ UNCHANGED <<machine, snapshots, snapshotCounter, loop, token, control>>
  BY DEF CreateVM, loopVars
<1>3. vms \subseteq created /\ created \subseteq Machines
  BY DEF IInv, TypeOK
<1>4. /\ machine' \in [Machines -> States]
      /\ loop' \in [Loops -> LoopRecord] /\ token' \in [Machines -> Loops \cup {None}]
      /\ \A l \in Loops : InRun(l)' => loop'[l].m \in vms'
  BY <1>2, Unmoved DEF InRun
<1>5. \A n \in vms' : \/ metadata'[n].state \in Lasting
                      \/ n \in vms /\ metadata'[n].state = metadata[n].state
  <2> SUFFICES ASSUME NEW n \in vms'
               PROVE  \/ metadata'[n].state \in Lasting
                      \/ n \in vms /\ metadata'[n].state = metadata[n].state
    OBVIOUS
  <2>1. n \in Machines /\ (n = m \/ n \in vms)
    BY <1>2, <1>3
  <2>2. "STOPPED" \in Lasting
    BY DEF Lasting, VMState
  <2> QED
    BY <1>1, <2>1, <2>2
<1>6. created' \subseteq Machines /\ vms' \subseteq created' /\ vms \subseteq vms'
  BY <1>2, <1>3
<1> QED
  BY <1>1, <1>2, <1>4, <1>5, <1>6, CallInv

LEMMA DeleteInv ==
  ASSUME IInv, NEW m \in Machines, DeleteVM(m)
  PROVE  IInv'
<1>1. /\ vms' = vms \ {m} /\ control = Free
      /\ \A l \in Loops : loop[l].m = m => ~InRun(l)
      /\ snapshots' = [snapshots EXCEPT ![m] = {}]
      /\ metadata' = [metadata EXCEPT ![m] = NewMetadata]
      /\ machine' = [machine EXCEPT ![m] = Fresh]
      /\ UNCHANGED <<created, snapshotCounter, loop, token, control>>
  BY DEF DeleteVM, Ready, loopVars
<1>2. TypeOK'
  <2>1. NewMetadata \in Metadata
    BY DEF NewMetadata, Metadata, VMState
  <2> QED
    BY <1>1, <2>1 DEF IInv, TypeOK, Fresh
<1>3. ControlSane'
  BY <1>1 DEF ControlSane, Free
<1>4. RunnersHaveMachines'
  BY <1>1 DEF IInv, RunnersHaveMachines, InRun
<1>5. SettledBetweenCalls'
  BY <1>1 DEF IInv, TypeOK, SettledBetweenCalls, State
<1>6. IdentifiersGiven'
  <2>1. NewMetadata.active = None
    BY DEF NewMetadata
  <2> QED
    BY <1>1, <2>1, FS_EmptySet DEF IInv, TypeOK, IdentifiersGiven, Given
<1> QED
  BY <1>2, <1>3, <1>4, <1>5, <1>6 DEF IInv
\* A start or a stop that begins leaves the machine in the middle of a call,
\* and the call on record.
LEMMA BeginInv ==
  ASSUME IInv, NEW m \in Machines, StartVM(m) \/ StopVM(m)
  PROVE  IInv'
<1> DEFINE s == IF StartVM(m) THEN "STARTING" ELSE "STOPPING"
<1>1. /\ control = Free /\ m \in vms /\ SetState(m, s)
      /\ control' = IF StartVM(m) THEN [op |-> "start", m |-> m] ELSE [op |-> "stop", m |-> m]
      /\ UNCHANGED <<vms, created, snapshots, snapshotCounter>>
  BY DEF StartVM, StopVM, Ready
<1>2. /\ metadata' \in [Machines -> Metadata]
      /\ \A n \in Machines :
           /\ metadata'[n].state = IF n = m THEN s ELSE metadata[n].state
           /\ metadata'[n].active = metadata[n].active
  BY <1>1, SetStateEffect DEF IInv, VMState
<1>3. machine' \in [Machines -> States]
  <2>1. CASE StartVM(m)
    BY <2>1, ResetTyped, Unmoved DEF StartVM, IInv
  <2>2. CASE StopVM(m)
    BY <2>2, HaltTyped DEF StopVM, IInv
  <2> QED
    BY <2>1, <2>2
<1>4. /\ loop' \in [Loops -> LoopRecord] /\ token' \in [Machines -> Loops \cup {None}]
      /\ \A l \in Loops : InRun(l)' => loop'[l].m \in vms
  <2>1. CASE StartVM(m)
    BY <2>1, Unmoved DEF StartVM, InRun, loopVars
  <2>2. CASE StopVM(m)
    BY <2>2, CancelEffect, Unmoved DEF StopVM, IInv
  <2> QED
    BY <2>1, <2>2
<1>5. control' \in [op : {"none", "start", "stop"}, m : Machines \cup {None}]
  BY <1>1
<1>6. TypeOK'
  BY <1>1, <1>2, <1>3, <1>4, <1>5 DEF IInv, TypeOK, LoopRecord, Places, States
<1>7. ControlSane' /\ RunnersHaveMachines'
  BY <1>1, <1>4 DEF ControlSane, RunnersHaveMachines
<1>8. SettledBetweenCalls'
  <2>1. \A n \in vms : State(n) \notin {"STOPPING", "SNAPSHOTTING", "CREATED"}
    BY <1>1 DEF IInv, SettledBetweenCalls, Free
  <2>2. \A n \in vms : n \in Machines
    BY Unmoved
  <2> QED
    BY <1>1, <1>2, <2>1, <2>2 DEF SettledBetweenCalls, State
<1>9. IdentifiersGiven'
  BY <1>1, <1>2 DEF IInv, IdentifiersGiven, Given
<1> QED
  BY <1>6, <1>7, <1>8, <1>9 DEF IInv

\* ... and when it is over the record is empty, and the machine in a state in
\* which it may be left.
LEMMA EndInv ==
  ASSUME IInv, NEW m \in Machines, StartReturns(m) \/ StopReturns(m)
  PROVE  IInv'
<1>1. /\ control' = Free /\ control.m = m /\ control # Free
      /\ UNCHANGED <<vms, created, machine, snapshots, snapshotCounter>>
  BY DEF StartReturns, StopReturns, Free
<1>2. /\ metadata' \in [Machines -> Metadata]
      /\ \A n \in Machines :
           /\ \/ metadata'[n].state = metadata[n].state
                 /\ (n = m => control = [op |-> "start", m |-> m])
              \/ n = m /\ metadata'[n].state \in {"RUNNING", "ERROR", "STOPPED"}
           /\ metadata'[n].active = metadata[n].active
  <2>1. CASE StartReturns(m)
    <3>1. CASE UNCHANGED metadata
      BY <2>1, <3>1 DEF StartReturns, IInv, TypeOK
    <3>2. ASSUME NEW s \in {"RUNNING", "ERROR"}, SetState(m, s)
          PROVE  <1>2!1 /\ <1>2!2
      <4>1. s \in VMState
        BY DEF VMState
      <4> QED
        BY <3>2, <4>1, SetStateEffect DEF IInv
    <3> QED
      BY <2>1, <3>1, <3>2 DEF StartReturns
  <2>2. CASE StopReturns(m)
    <3>1. SetState(m, "STOPPED") /\ "STOPPED" \in VMState
      BY <2>2 DEF StopReturns, VMState
    <3> QED
      BY <3>1, SetStateEffect DEF IInv
  <2> QED
    BY <2>1, <2>2
<1>3. /\ loop' \in [Loops -> LoopRecord] /\ token' \in [Machines -> Loops \cup {None}]
      /\ \A l \in Loops : InRun(l)' => loop'[l].m \in vms
  <2>1. CASE StartReturns(m)
    BY <2>1, SpawnEffect, Unmoved DEF StartReturns, IInv
  <2>2. CASE StopReturns(m)
    BY <2>2, Unmoved DEF StopReturns, InRun, loopVars
  <2> QED
    BY <2>1, <2>2
<1>4. TypeOK'
  BY <1>1, <1>2, <1>3 DEF IInv, TypeOK, LoopRecord, Places, States, Free
<1>5. ControlSane' /\ RunnersHaveMachines'
  BY <1>1, <1>3 DEF ControlSane, RunnersHaveMachines
<1>6. SettledBetweenCalls'
  <2> SUFFICES ASSUME NEW n \in vms', State(n)' \in {"STOPPING", "SNAPSHOTTING", "CREATED"}
               PROVE  FALSE
    BY DEF SettledBetweenCalls
  <2>1. n \in Machines /\ n \in vms
    BY <1>1, Unmoved
  <2>2. metadata'[n].state = metadata[n].state /\ (n = m => control = [op |-> "start", m |-> m])
    BY <1>2, <2>1 DEF State
  <2>3. control = [op |-> "stop", m |-> n]
    BY <2>1, <2>2 DEF IInv, SettledBetweenCalls, State
  <2> QED
    BY <1>1, <2>2, <2>3
<1>7. IdentifiersGiven'
  BY <1>1, <1>2 DEF IInv, IdentifiersGiven, Given
<1> QED
  BY <1>4, <1>5, <1>6, <1>7 DEF IInv

\* The calls that take, put back and delete snapshots.
LEMMA SnapshotInv ==
  ASSUME IInv, NEW m \in Machines, SnapshotVM(m) \/ RestoreSnapshot(m) \/ DeleteSnapshot(m)
  PROVE  IInv'
<1>1. /\ m \in vms /\ UNCHANGED <<vms, created, loop, token, control>>
      /\ control = Free
  BY DEF SnapshotVM, RestoreSnapshot, DeleteSnapshot, Ready, loopVars
<1>2. /\ metadata \in [Machines -> Metadata]
      /\ snapshots \in [Machines -> SUBSET [id : Nat, vm : Metadata]]
      /\ snapshotCounter \in Nat /\ machine \in [Machines -> States]
      /\ IsFiniteSet(snapshots[m]) /\ Given(metadata[m].active, snapshotCounter)
      /\ \A s \in snapshots[m] : s.id < snapshotCounter /\ Given(s.vm.active, snapshotCounter)
  BY DEF IInv, TypeOK, IdentifiersGiven, States
<1>3. /\ metadata' \in [Machines -> Metadata] /\ machine' \in [Machines -> States]
      /\ snapshots' \in [Machines -> SUBSET [id : Nat, vm : Metadata]]
      /\ snapshotCounter' \in Nat /\ snapshotCounter' >= snapshotCounter
      /\ \A n \in Machines \ {m} : metadata'[n] = metadata[n] /\ snapshots'[n] = snapshots[n]
      /\ metadata'[m].state \in {metadata[m].state, "STOPPED", "ERROR"}
      /\ IsFiniteSet(snapshots'[m]) /\ Given(metadata'[m].active, snapshotCounter')
      /\ \A s \in snapshots'[m] : s.id < snapshotCounter' /\ Given(s.vm.active, snapshotCounter')
  <2>1. CASE SnapshotVM(m)
    <3> DEFINE kept == [metadata[m] EXCEPT !.state = "SNAPSHOTTING"]
               taken == [id |-> snapshotCounter, vm |-> kept]
               stored == snapshots[m] \cup {taken}
    <3>1. kept \in Metadata /\ kept.active = metadata[m].active
      BY <1>2 DEF Metadata, VMState
    <3>2. taken \in [id : Nat, vm : Metadata]
      BY <1>2, <3>1
    <3>3. IsFiniteSet(stored) /\ Cardinality(stored) \in Nat
      BY <1>2, FS_AddElement, FS_CardinalityType
    <3>4. /\ snapshots' = [snapshots EXCEPT ![m] = stored]
          /\ metadata' = [metadata EXCEPT ![m] = [metadata[m] EXCEPT !.snapshotCount = Cardinality(stored)]]
          /\ snapshotCounter' = snapshotCounter + 1 /\ machine' = machine
      BY <2>1 DEF SnapshotVM
    <3> DEFINE new == [metadata[m] EXCEPT !.snapshotCount = Cardinality(stored)]
    <3>5. new \in Metadata /\ new.state = metadata[m].state /\ new.active = metadata[m].active
      BY <1>2, <3>3 DEF Metadata
    <3>6. /\ Given(metadata[m].active, snapshotCounter')
          /\ \A s \in stored : s.id < snapshotCounter' /\ Given(s.vm.active, snapshotCounter')
      <4>1. snapshotCounter \in Nat /\ snapshotCounter' = snapshotCounter + 1
        BY <1>2, <3>4
      <4>2. \A x : Given(x, snapshotCounter) => Given(x, snapshotCounter')
        BY <4>1 DEF Given
      <4>3. taken.id < snapshotCounter' /\ Given(taken.vm.active, snapshotCounter')
        <5>1. taken.id = snapshotCounter /\ taken.vm.active = metadata[m].active
          BY <3>1
        <5> HIDE DEF taken, kept
        <5> QED
          BY <1>2, <4>1, <4>2, <5>1
      <4>4. \A s \in snapshots[m] : s.id \in Nat /\ s.id < snapshotCounter
        BY <1>2
      <4>5. \A s \in snapshots[m] : s.id < snapshotCounter' /\ Given(s.vm.active, snapshotCounter')
        BY <1>2, <4>1, <4>2, <4>4
      <4> HIDE DEF taken, kept
      <4> QED
        BY <1>2, <4>2, <4>3, <4>5
    <3> HIDE DEF stored, new
    <3> QED
      BY <1>2, <3>2, <3>3, <3>4, <3>5, <3>6 DEF Given, stored, new
  <2>2. CASE RestoreSnapshot(m)
    <3>1. PICK s \in snapshots[m], ok \in BOOLEAN :
            /\ ResetMachine(m, ok)
            /\ metadata' = [metadata EXCEPT ![m] =
                              [s.vm EXCEPT !.active = s.id,
                                           !.state = IF ok THEN "STOPPED" ELSE "ERROR"]]
      BY <2>2 DEF RestoreSnapshot
    <3>2. UNCHANGED <<snapshots, snapshotCounter>>
      BY <2>2 DEF RestoreSnapshot
    <3>3. s \in [id : Nat, vm : Metadata]
      BY <1>2
    <3> DEFINE new == [s.vm EXCEPT !.active = s.id, !.state = IF ok THEN "STOPPED" ELSE "ERROR"]
    <3>4. new \in Metadata /\ new.state \in {"STOPPED", "ERROR"} /\ new.active = s.id
      BY <3>3 DEF Metadata, VMState
    <3>5. machine' \in [Machines -> States]
      BY <3>1, ResetTyped DEF IInv
    <3>6. metadata' = [metadata EXCEPT ![m] = new]
      BY <3>1
    <3>7. Given(s.id, snapshotCounter)
      BY <1>2, <3>3 DEF Given
    <3> HIDE DEF new
    <3>8. metadata' \in [Machines -> Metadata] /\ metadata'[m] = new
      BY <1>2, <3>4, <3>6
    <3> QED
      BY <1>2, <3>2, <3>4, <3>5, <3>6, <3>7, <3>8
  <2>3. CASE DeleteSnapshot(m)
    <3>1. PICK s \in snapshots[m] :
            /\ snapshots' = [snapshots EXCEPT ![m] = @ \ {s}]
            /\ metadata' = [metadata EXCEPT ![m].snapshotCount = Cardinality(snapshots[m] \ {s})]
      BY <2>3 DEF DeleteSnapshot
    <3>2. UNCHANGED <<machine, snapshotCounter>>
      BY <2>3 DEF DeleteSnapshot
    <3>3. IsFiniteSet(snapshots[m] \ {s}) /\ Cardinality(snapshots[m] \ {s}) \in Nat
      BY <1>2, FS_RemoveElement, FS_CardinalityType
    <3> DEFINE new == [metadata[m] EXCEPT !.snapshotCount = Cardinality(snapshots[m] \ {s})]
    <3>4. new \in Metadata /\ new.state = metadata[m].state /\ new.active = metadata[m].active
      BY <1>2, <3>3 DEF Metadata
    <3>5. metadata' = [metadata EXCEPT ![m] = new]
      BY <3>1
    <3> HIDE DEF new
    <3> QED
      BY <1>2, <3>1, <3>2, <3>3, <3>4, <3>5 DEF Given
  <2> QED
    BY <2>1, <2>2, <2>3
<1>4. TypeOK'
  BY <1>1, <1>3 DEF IInv, TypeOK, States
<1>5. ControlSane' /\ RunnersHaveMachines'
  BY <1>1 DEF IInv, ControlSane, RunnersHaveMachines, InRun
<1>6. SettledBetweenCalls'
  <2>1. \A n \in vms : n \in Machines /\ State(n) \notin {"STOPPING", "SNAPSHOTTING", "CREATED"}
    BY <1>1, Unmoved DEF IInv, SettledBetweenCalls, Free
  <2>2. \A n \in vms : metadata'[n].state \in {metadata[n].state, "STOPPED", "ERROR"}
    BY <1>3, <2>1
  <2> QED
    BY <1>1, <2>1, <2>2 DEF SettledBetweenCalls, State
<1>7. IdentifiersGiven'
  <2> SUFFICES ASSUME NEW n \in Machines
               PROVE  /\ Given(metadata'[n].active, snapshotCounter')
                      /\ IsFiniteSet(snapshots'[n])
                      /\ \A s \in snapshots'[n] : s.id < snapshotCounter' /\ Given(s.vm.active, snapshotCounter')
    BY DEF IdentifiersGiven
  <2>1. CASE n = m
    BY <1>3, <2>1
  <2>2. CASE n # m
    <3>1. /\ Given(metadata[n].active, snapshotCounter) /\ IsFiniteSet(snapshots[n])
          /\ \A s \in snapshots[n] : s \in [id : Nat, vm : Metadata] /\ s.id < snapshotCounter
                                      /\ Given(s.vm.active, snapshotCounter)
      BY <1>2 DEF IInv, IdentifiersGiven
    <3> QED
      BY <1>2, <1>3, <2>2, <3>1 DEF Given
  <2> QED
    BY <2>1, <2>2
<1> QED
  BY <1>4, <1>5, <1>6, <1>7 DEF IInv
\* A step of an execution loop: only the check of runVM() lets it in, and the
\* machine it is then inside is there.
LEMMA LoopInv ==
  ASSUME IInv, NEW l \in Loops, LoopStep(l)
  PROVE  IInv'
<1>1. /\ vms \subseteq Machines /\ machine \in [Machines -> States]
      /\ loop \in [Loops -> LoopRecord] /\ token \in [Machines -> Loops \cup {None}]
      /\ \A k \in Loops : InRun(k) => loop[k].m \in vms
  BY Unmoved
<1>2. /\ UNCHANGED <<vms, created, snapshots, snapshotCounter, token, control>>
      /\ (InRun(l) => loop[l].m \in Machines)
  BY <1>1 DEF LoopStep, LoopTest, RunChecks, RunEnters, RunStops, RunExecutes, RunReturns,
              machineVars
<1>3. /\ loop' \in [Loops -> LoopRecord]
      /\ \A k \in Loops : InRun(k)' => loop'[k].m \in vms
  <2>1. PICK r \in LoopRecord :
          /\ loop' = [loop EXCEPT ![l] = r]
          /\ r.m = loop[l].m \/ r.at = "idle"
          /\ r.at \in {"admitted", "inside", "after"} => InRun(l) \/ loop[l].m \in vms
    <3>1. loop[l] \in LoopRecord
      BY <1>1
    <3>2. ASSUME NEW place \in Places
          PROVE  /\ [loop[l] EXCEPT !.at = place] \in LoopRecord
                 /\ [loop[l] EXCEPT !.at = place].m = loop[l].m
                 /\ [loop[l] EXCEPT !.at = place].at = place
      BY <3>1 DEF LoopRecord
    <3>3. Idle \in LoopRecord /\ Idle.at = "idle"
      BY DEF Idle, LoopRecord, Places
    <3>4. CASE LoopTest(l)
      BY <3>2, <3>3, <3>4 DEF LoopTest, Go, End, Places
    <3>5. CASE RunChecks(l)
      BY <3>2, <3>3, <3>5 DEF RunChecks, Go, End, Places
    <3>6. CASE RunEnters(l)
      BY <3>2, <3>6 DEF RunEnters, Go, Places, InRun
    <3>7. CASE RunStops(l)
      BY <3>2, <3>7 DEF RunStops, Go, Places, InRun
    <3>8. CASE RunExecutes(l)
      <4>1. PICK counted \in BOOLEAN : loop' = [loop EXCEPT ![l] = [loop[l] EXCEPT !.ran = counted]]
        BY <3>8 DEF RunExecutes
      <4>2. /\ [loop[l] EXCEPT !.ran = counted] \in LoopRecord
            /\ [loop[l] EXCEPT !.ran = counted].m = loop[l].m
        BY <3>1 DEF LoopRecord
      <4> QED
        BY <3>8, <4>1, <4>2 DEF RunExecutes, InRun
    <3>9. CASE RunReturns(l)
      <4>1. loop' = [loop EXCEPT ![l] = IF loop[l].ran
                       THEN [loop[l] EXCEPT !.at = "test", !.ran = FALSE] ELSE Idle]
        BY <3>9 DEF RunReturns
      <4>2. /\ [loop[l] EXCEPT !.at = "test", !.ran = FALSE] \in LoopRecord
            /\ [loop[l] EXCEPT !.at = "test", !.ran = FALSE].at = "test"
            /\ [loop[l] EXCEPT !.at = "test", !.ran = FALSE].m = loop[l].m
        BY <3>1 DEF LoopRecord, Places
      <4> QED
        BY <3>3, <4>1, <4>2
    <3> QED
      BY <3>4, <3>5, <3>6, <3>7, <3>8, <3>9 DEF LoopStep
  <2>2. \A k \in Loops : loop'[k] = IF k = l THEN r ELSE loop[k]
    BY <1>1, <2>1
  <2>3. loop' \in [Loops -> LoopRecord]
    BY <1>1, <2>1
  <2> QED
    BY <1>1, <2>1, <2>2, <2>3 DEF InRun
<1>4. machine' \in [Machines -> States]
  <2>1. CASE UNCHANGED machine
    BY <1>1, <2>1
  <2>2. CASE machine' # machine
    <3>1. PICK v : machine' = [machine EXCEPT ![loop[l].m] = v]
                   /\ (v \in Executed \/ v \in {[machine[loop[l].m] EXCEPT !.state = s] :
                                                s \in {"RUNNING", "STOPPED"}})
      BY <2>2 DEF LoopStep, LoopTest, RunChecks, RunEnters, RunStops, RunExecutes, RunReturns,
                  machineVars
    <3>2. InRun(l)
      BY <2>2 DEF LoopStep, LoopTest, RunChecks, RunEnters, RunStops, RunExecutes, RunReturns,
                  machineVars, InRun
    <3>3. machine[loop[l].m] \in States
      BY <1>1, <1>2, <3>2
    <3>4. v \in States
      BY <3>1, <3>3, StatesWritten
    <3> QED
      BY <1>1, <3>1, <3>4
  <2> QED
    BY <2>1, <2>2
<1>5. CASE UNCHANGED metadata
  BY <1>1, <1>2, <1>3, <1>4, <1>5, QuietCallInv
<1>6. CASE SetState(loop[l].m, "ERROR") /\ InRun(l)
  <2>1. "ERROR" \in Lasting
    BY DEF Lasting, VMState
  <2> QED
    BY <1>1, <1>2, <1>3, <1>4, <1>6, <2>1, StateCallInv
<1> QED
  BY <1>5, <1>6 DEF LoopStep, LoopTest, RunChecks, RunEnters, RunStops, RunExecutes, RunReturns,
                    machineVars, InRun

LEMMA StepInv == IInv /\ [Next]_vars => IInv'
<1> SUFFICES ASSUME IInv, [Next]_vars
             PROVE  IInv'
  OBVIOUS
<1>1. /\ vms \subseteq Machines /\ machine \in [Machines -> States]
      /\ loop \in [Loops -> LoopRecord] /\ token \in [Machines -> Loops \cup {None}]
      /\ \A l \in Loops : InRun(l) => loop[l].m \in vms
  BY Unmoved
<1>2. {"STOPPED", "ERROR", "RUNNING", "PAUSED", "TERMINATED"} \subseteq Lasting
  BY DEF Lasting, VMState
<1>3. ASSUME NEW m \in Machines, PauseVM(m) \/ ResumeVM(m)
      PROVE  IInv'
  <2>1. PICK s \in Lasting : SetState(m, s)
    BY <1>2, <1>3 DEF PauseVM, ResumeVM
  <2>2. UNCHANGED <<vms, created, machine, snapshots, snapshotCounter, loop, token, control>>
    BY <1>3 DEF PauseVM, ResumeVM, loopVars
  <2> QED
    BY <1>1, <2>1, <2>2, StateCallInv DEF InRun
<1>4. ASSUME NEW m \in Machines, ResetVM(m) \/ TerminateVM(m)
      PROVE  IInv'
  <2>1. /\ \E s \in Lasting : SetState(m, s)
        /\ UNCHANGED <<vms, created, snapshots, snapshotCounter, loop, token, control>>
    BY <1>2, <1>4 DEF ResetVM, TerminateVM, loopVars
  <2>2. machine' \in [Machines -> States]
    BY <1>4, ResetTyped, HaltTyped DEF ResetVM, TerminateVM, IInv
  <2> QED
    BY <1>1, <2>1, <2>2, StateCallInv DEF InRun
<1>5. ASSUME NEW m \in Machines, StartResetFails(m)
      PROVE  IInv'
  <2>1. /\ SetState(m, "ERROR") /\ ResetMachine(m, FALSE) /\ Spawn(m)
        /\ UNCHANGED <<vms, created, snapshots, snapshotCounter, control>>
    BY <1>5 DEF StartResetFails
  <2>2. machine' \in [Machines -> States]
    BY <2>1, ResetTyped DEF IInv
  <2>3. /\ loop' \in [Loops -> LoopRecord] /\ token' \in [Machines -> Loops \cup {None}]
        /\ \A l \in Loops : InRun(l)' => loop'[l].m \in vms'
    BY <1>1, <2>1, SpawnEffect DEF IInv
  <2> QED
    BY <1>2, <2>1, <2>2, <2>3, StateCallInv
<1>6. ASSUME NEW m \in Machines, StartRefused(m) \/ StopRefused(m)
      PROVE  IInv'
  <2>1. UNCHANGED <<vms, created, metadata, machine, snapshots, snapshotCounter, control>>
    BY <1>6 DEF StartRefused, StopRefused, machineVars
  <2>2. /\ loop' \in [Loops -> LoopRecord] /\ token' \in [Machines -> Loops \cup {None}]
        /\ \A l \in Loops : InRun(l)' => loop'[l].m \in vms'
    BY <1>1, <1>6, <2>1, SpawnEffect, CancelEffect DEF StartRefused, StopRefused, IInv
  <2> QED
    BY <1>1, <2>1, <2>2, QuietCallInv
<1>7. ASSUME NEW m \in Machines, StepVM(m)
      PROVE  IInv'
  <2>1. UNCHANGED <<vms, created, metadata, snapshots, snapshotCounter, loop, token, control>>
    BY <1>7 DEF StepVM, loopVars
  <2>2. machine' \in [Machines -> States]
    <3>1. machine[m] \in States
      BY <1>1
    <3>2. PICK v : /\ machine' = [machine EXCEPT ![m] = v]
                   /\ v \in Executed \/ v = [machine[m] EXCEPT !.state = "STOPPED"]
      BY <1>7 DEF StepVM
    <3>3. v \in States
      BY <3>1, <3>2, StatesWritten
    <3> QED
      BY <1>1, <3>2, <3>3
  <2> QED
    BY <1>1, <2>1, <2>2, QuietCallInv DEF InRun
<1>8. CASE UNCHANGED vars
  BY <1>1, <1>8, QuietCallInv DEF vars, InRun
<1> QED
  BY <1>3, <1>4, <1>5, <1>6, <1>7, <1>8, CreateInv, DeleteInv, BeginInv, EndInv, SnapshotInv,
     LoopInv DEF Next, ControlStep

LEMMA Invariance == Spec => []IInv
  BY InitInv, StepInv, PTL DEF Spec
-----------------------------------------------------------------------------
(* Refinement.  What VMLifecycle sees of the manager: *)

Phases == [m \in Machines |-> Phase(m)]
Pending == IF control = Free THEN <<>> ELSE <<control.op, control.m>>
Admitted == [l \in Loops |-> IF InRun(l) THEN {loop[l].m} ELSE {}]

\* The phase of a machine that is there, by the state of its metadata.
PhaseOf(s) ==
  CASE s = "STOPPED" -> "stopped"
    [] s = "RUNNING" -> "running"
    [] s = "PAUSED" -> "paused"
    [] s = "TERMINATED" -> "terminated"
    [] s = "ERROR" -> "failed"
    [] OTHER -> "changing"

LEMMA PhaseOfStates ==
  /\ PhaseOf("STOPPED") = "stopped" /\ PhaseOf("RUNNING") = "running"
  /\ PhaseOf("PAUSED") = "paused" /\ PhaseOf("TERMINATED") = "terminated"
  /\ PhaseOf("ERROR") = "failed" /\ PhaseOf("STARTING") = "changing"
  /\ PhaseOf("STOPPING") = "changing"
BY DEF PhaseOf

LEMMA PhaseThere ==
  ASSUME IInv, NEW m \in vms
  PROVE  Phase(m) = PhaseOf(State(m))
BY DEF IInv, TypeOK, Phase, PhaseOf

\* A call that writes one state changes one phase.
LEMMA OnePhase ==
  ASSUME IInv, NEW m \in vms, NEW s \in VMState, UNCHANGED <<vms, created>>,
         \A n \in Machines :
           metadata'[n].state = IF n = m THEN s ELSE metadata[n].state
  PROVE  Phases' = [Phases EXCEPT ![m] = PhaseOf(s)]
<1>1. m \in Machines /\ m \in created
  BY Unmoved DEF IInv, TypeOK
<1>2. \A n \in Machines : Phase(n)' = IF n = m THEN PhaseOf(s) ELSE Phase(n)
  BY <1>1 DEF Phase, PhaseOf, State
<1> QED
  BY <1>1, <1>2 DEF Phases

\* A call that writes none changes none.
LEMMA NoPhase ==
  ASSUME UNCHANGED <<vms, created>>,
         \A n \in vms : metadata'[n].state = metadata[n].state
  PROVE  Phases' = Phases
<1>1. \A n \in Machines : Phase(n)' = Phase(n)
  BY DEF Phase, State
<1> QED
  BY <1>1 DEF Phases

\* Threads that stay where they are stay admitted.
LEMMA SameAdmitted ==
  ASSUME \A l \in Loops : /\ InRun(l)' <=> InRun(l)
                          /\ InRun(l) => loop'[l].m = loop[l].m
  PROVE  Admitted' = Admitted
BY DEF Admitted

LEMMA RefinesInit == Init => Lifecycle!Init
<1> SUFFICES ASSUME Init
             PROVE  Lifecycle!Init
  OBVIOUS
<1>1. \A m \in Machines : Phase(m) = "unborn"
  BY DEF Init, Phase
<1>2. \A l \in Loops : ~ InRun(l)
  BY DEF Init, InRun, Idle
<1>3. control = Free
  BY DEF Init
<1> QED
  BY <1>1, <1>2, <1>3 DEF Lifecycle!Init, Lifecycle!Unborn
\* A call that is one step changes one phase while nothing is in progress.
LEMMA ChangeStep ==
  ASSUME IInv, NEW m \in Machines, NEW from, NEW p, control = Free, control' = Free,
         Admitted' = Admitted, Phases' = [Phases EXCEPT ![m] = p], Phase(m) \in from
  PROVE  Lifecycle!Change(m, from, p)
BY DEF Lifecycle!Change, Lifecycle!Become, Phases, Pending, Admitted

\* Steps VMLifecycle does not see.
LEMMA Stutter ==
  ASSUME Phases' = Phases, Pending' = Pending, Admitted' = Admitted
  PROVE  UNCHANGED Lifecycle!lifecycleVars
BY DEF Lifecycle!lifecycleVars, Phases, Pending, Admitted

\* The calls that create and delete.
LEMMA RefinesCreateDelete ==
  ASSUME IInv, NEW m \in Machines, CreateVM(m) \/ DeleteVM(m)
  PROVE  Lifecycle!Create(m) \/ Lifecycle!Delete(m)
<1>1. control = Free /\ control' = Free /\ UNCHANGED loop
  BY DEF CreateVM, DeleteVM, Ready, loopVars
<1>2. Admitted' = Admitted
  BY <1>1 DEF Admitted, InRun
<1>3. CASE CreateVM(m)
  <2>1. \A n \in Machines :
          metadata'[n].state = IF n = m THEN "STOPPED" ELSE metadata[n].state
    BY <1>3, SetStateEffect DEF CreateVM, IInv, VMState
  <2>2. m \notin created /\ created' = created \cup {m} /\ vms' = vms \cup {m}
    BY <1>3 DEF CreateVM
  <2>3. \A n \in Machines : Phase(n)' = IF n = m THEN "stopped" ELSE Phase(n)
    BY <2>1, <2>2 DEF Phase, State
  <2>4. Phases' = [Phases EXCEPT ![m] = "stopped"] /\ Phase(m) = "unborn"
    BY <2>2, <2>3 DEF Phases, Phase
  <2> QED
    BY <1>1, <1>2, <2>4, ChangeStep DEF Lifecycle!Create, Lifecycle!Unborn
<1>4. CASE DeleteVM(m)
  <2>1. /\ m \in vms /\ State(m) \notin {"RUNNING", "PAUSED"}
        /\ \A l \in Loops : loop[l].m = m => ~InRun(l)
        /\ vms' = vms \ {m} /\ created' = created
        /\ \A n \in Machines \ {m} : metadata'[n] = metadata[n]
    BY <1>4 DEF DeleteVM, Ready, IInv, TypeOK
  <2>2. m \in created
    BY <2>1 DEF IInv, TypeOK
  <2>3. \A n \in Machines : Phase(n)' = IF n = m THEN "gone" ELSE Phase(n)
    BY <2>1, <2>2 DEF Phase, State
  <2>4. Phases' = [Phases EXCEPT ![m] = "gone"]
    BY <2>3 DEF Phases
  <2>5. Phase(m) \in Lifecycle!Living \ {"running", "paused"}
    BY <2>1, <2>2 DEF Phase, Lifecycle!Living, Lifecycle!Phases, Lifecycle!Unborn, Lifecycle!Gone
  <2>6. Lifecycle!Change(m, Lifecycle!Living \ {"running", "paused"}, "gone")
    BY <1>1, <1>2, <2>4, <2>5, ChangeStep
  <2>7. \A l \in Loops : m \notin Admitted[l]
    BY <2>1 DEF Admitted
  <2> QED
    BY <2>6, <2>7 DEF Lifecycle!Delete, Lifecycle!Gone, Admitted
<1> QED
  BY <1>3, <1>4

\* The calls that begin a start or a stop, and the steps that end it.
LEMMA RefinesBegin ==
  ASSUME IInv, NEW m \in Machines, StartVM(m) \/ StopVM(m)
  PROVE  Lifecycle!BeginStart(m) \/ Lifecycle!BeginStop(m)
<1> DEFINE s == IF StartVM(m) THEN "STARTING" ELSE "STOPPING"
<1>1. /\ control = Free /\ m \in vms /\ SetState(m, s) /\ s \in VMState
      /\ control' = IF StartVM(m) THEN [op |-> "start", m |-> m] ELSE [op |-> "stop", m |-> m]
      /\ UNCHANGED <<vms, created>>
  BY DEF StartVM, StopVM, Ready, VMState
<1>2. Phases' = [Phases EXCEPT ![m] = "changing"]
  <2>1. \A n \in Machines : metadata'[n].state = IF n = m THEN s ELSE metadata[n].state
    BY <1>1, SetStateEffect DEF IInv
  <2>2. PhaseOf(s) = "changing"
    BY PhaseOfStates
  <2> HIDE DEF s
  <2> QED
    BY <1>1, <2>1, <2>2, OnePhase
<1>3. Admitted' = Admitted
  <2>1. CASE StartVM(m)
    BY <2>1 DEF StartVM, loopVars, Admitted, InRun
  <2>2. CASE StopVM(m)
    BY <2>2, CancelEffect, SameAdmitted DEF StopVM, IInv
  <2> QED
    BY <2>1, <2>2
<1>4. Phase(m) = PhaseOf(State(m)) /\ State(m) # "CREATED"
  BY <1>1, PhaseThere DEF IInv, SettledBetweenCalls, Free
<1>5. CASE StartVM(m)
  <2>1. Phase(m) \in {"stopped", "terminated"}
    BY <1>4, <1>5, PhaseOfStates DEF StartVM, CanStart
  <2>2. Pending = <<>> /\ Pending' = <<"start", m>>
    BY <1>1, <1>5 DEF Pending, Free
  <2> QED
    BY <1>2, <1>3, <2>1, <2>2
    DEF Lifecycle!BeginStart, Lifecycle!Begin, Lifecycle!Become, Phases, Pending, Admitted
<1>6. CASE StopVM(m) /\ ~ StartVM(m)
  <2>1. Phase(m) \in {"running", "paused"}
    BY <1>4, <1>6, PhaseOfStates DEF StopVM, CanStop
  <2>2. Pending = <<>> /\ Pending' = <<"stop", m>>
    BY <1>1, <1>6 DEF Pending, Free
  <2> QED
    BY <1>2, <1>3, <2>1, <2>2
    DEF Lifecycle!BeginStop, Lifecycle!Begin, Lifecycle!Become, Phases, Pending, Admitted
<1> QED
  BY <1>5, <1>6

LEMMA RefinesEnd ==
  ASSUME IInv, NEW m \in Machines, StartReturns(m) \/ StopReturns(m)
  PROVE  Lifecycle!FinishStart(m) \/ Lifecycle!FinishStop(m)
<1>1. /\ control' = Free /\ UNCHANGED <<vms, created>>
      /\ \/ StartReturns(m) /\ control = [op |-> "start", m |-> m]
         \/ StopReturns(m) /\ control = [op |-> "stop", m |-> m]
  BY DEF StartReturns, StopReturns
<1>2. m \in vms
  BY <1>1 DEF IInv, ControlSane, Free
<1>3. Admitted' = Admitted
  BY SpawnEffect, SameAdmitted DEF StartReturns, StopReturns, IInv, loopVars, InRun
<1>4. Pending' = <<>>
  BY <1>1 DEF Pending
<1>5. ASSUME NEW s \in VMState, SetState(m, s)
      PROVE  Phases' = [Phases EXCEPT ![m] = PhaseOf(s)]
  <2>1. \A n \in Machines : metadata'[n].state = IF n = m THEN s ELSE metadata[n].state
    BY <1>5, SetStateEffect DEF IInv
  <2> QED
    BY <1>1, <1>2, <2>1, OnePhase
<1>6. CASE StartReturns(m) /\ control = [op |-> "start", m |-> m]
  <2>1. Pending = <<"start", m>>
    BY <1>6 DEF Pending, Free
  <2>2. \E p \in {"running", "failed", Phases[m]} : Phases' = [Phases EXCEPT ![m] = p]
    <3>1. CASE SetState(m, "RUNNING")
      BY <1>5, <3>1, PhaseOfStates DEF VMState
    <3>2. CASE SetState(m, "ERROR")
      BY <1>5, <3>2, PhaseOfStates DEF VMState
    <3>3. CASE UNCHANGED metadata
      BY <1>1, <1>2, <3>3, NoPhase, Unmoved DEF Phases
    <3> QED
      BY <1>6, <3>1, <3>2, <3>3 DEF StartReturns
  <2> QED
    BY <1>3, <1>4, <2>1, <2>2
    DEF Lifecycle!FinishStart, Lifecycle!Finish, Phases, Pending, Admitted
<1>7. CASE StopReturns(m) /\ control = [op |-> "stop", m |-> m]
  <2>1. Pending = <<"stop", m>>
    BY <1>7 DEF Pending, Free
  <2>2. Phases' = [Phases EXCEPT ![m] = "stopped"]
    BY <1>5, <1>7, PhaseOfStates DEF StopReturns, VMState
  <2> QED
    BY <1>3, <1>4, <2>1, <2>2
    DEF Lifecycle!FinishStop, Lifecycle!Finish, Phases, Pending, Admitted
<1> QED
  BY <1>1, <1>6, <1>7
\* The calls that are one step and write one state.
LEMMA RefinesChange ==
  ASSUME IInv, NEW m \in Machines,
         \/ PauseVM(m) \/ ResumeVM(m) \/ TerminateVM(m)
         \/ ResetVM(m) \/ StartResetFails(m) \/ RestoreSnapshot(m)
  PROVE  \/ Lifecycle!Pause(m) \/ Lifecycle!Resume(m) \/ Lifecycle!Terminate(m)
         \/ Lifecycle!Reset(m) \/ Lifecycle!Restore(m)
<1>1. /\ control = Free /\ control' = Free /\ m \in vms
      /\ UNCHANGED <<vms, created>>
  BY DEF PauseVM, ResumeVM, TerminateVM, ResetVM, StartResetFails, RestoreSnapshot, Ready
<1>2. Admitted' = Admitted
  <2>1. CASE StartResetFails(m)
    BY <2>1, SpawnEffect, SameAdmitted DEF StartResetFails, IInv
  <2>2. CASE UNCHANGED loop
    BY <2>2 DEF Admitted, InRun
  <2> QED
    BY <2>1, <2>2 DEF PauseVM, ResumeVM, TerminateVM, ResetVM, RestoreSnapshot, loopVars
<1>3. Phase(m) = PhaseOf(State(m)) /\ m \in created
  BY <1>1, PhaseThere DEF IInv, TypeOK
<1>4. Phase(m) \in Lifecycle!Living
  BY <1>1, <1>3 DEF Phase, PhaseOf, Lifecycle!Living, Lifecycle!Phases, Lifecycle!Unborn,
                    Lifecycle!Gone
<1>5. ASSUME NEW s \in VMState, SetState(m, s)
      PROVE  Phases' = [Phases EXCEPT ![m] = PhaseOf(s)]
  <2>1. \A n \in Machines : metadata'[n].state = IF n = m THEN s ELSE metadata[n].state
    BY <1>5, SetStateEffect DEF IInv
  <2> QED
    BY <1>1, <2>1, OnePhase
<1>6. {"RUNNING", "PAUSED", "STOPPED", "ERROR", "TERMINATED"} \subseteq VMState
  BY DEF VMState
<1>7. CASE PauseVM(m)
  <2>1. Phases' = [Phases EXCEPT ![m] = "paused"] /\ Phase(m) \in {"running"}
    BY <1>3, <1>5, <1>6, <1>7, PhaseOfStates DEF PauseVM
  <2> QED
    BY <1>1, <1>2, <2>1, ChangeStep DEF Lifecycle!Pause
<1>8. CASE ResumeVM(m)
  <2>1. Phases' = [Phases EXCEPT ![m] = "running"] /\ Phase(m) \in {"paused"}
    BY <1>3, <1>5, <1>6, <1>8, PhaseOfStates DEF ResumeVM
  <2> QED
    BY <1>1, <1>2, <2>1, ChangeStep DEF Lifecycle!Resume
<1>9. CASE TerminateVM(m)
  <2>1. Phases' = [Phases EXCEPT ![m] = "terminated"]
    BY <1>5, <1>6, <1>9, PhaseOfStates DEF TerminateVM
  <2> QED
    BY <1>1, <1>2, <1>4, <2>1, ChangeStep DEF Lifecycle!Terminate
<1>10. CASE SetState(m, "ERROR")
  <2>1. Phases' = [Phases EXCEPT ![m] = "failed"]
    BY <1>5, <1>6, <1>10, PhaseOfStates
  <2> QED
    BY <1>1, <1>2, <1>4, <2>1, ChangeStep DEF Lifecycle!Reset
<1>11. CASE SetState(m, "RUNNING") /\ State(m) = "RUNNING"
  <2>1. Phases' = [Phases EXCEPT ![m] = "running"] /\ Phase(m) \in {"running"}
    BY <1>3, <1>5, <1>6, <1>11, PhaseOfStates
  <2> QED
    BY <1>1, <1>2, <2>1, ChangeStep DEF Lifecycle!Reset
<1>12. CASE SetState(m, "STOPPED") /\ State(m) # "RUNNING"
  <2>1. Phases' = [Phases EXCEPT ![m] = "stopped"]
    BY <1>5, <1>6, <1>12, PhaseOfStates
  <2>2. Phase(m) # "running"
    BY <1>3, <1>12 DEF PhaseOf
  <2> QED
    BY <1>1, <1>2, <1>4, <2>1, <2>2, ChangeStep DEF Lifecycle!Reset
<1>13. CASE RestoreSnapshot(m)
  <2>1. PICK s \in snapshots[m], t \in {"STOPPED", "ERROR"} :
          metadata' = [metadata EXCEPT ![m] = [s.vm EXCEPT !.active = s.id, !.state = t]]
    BY <1>13 DEF RestoreSnapshot
  <2>2. s.vm \in Metadata /\ metadata \in [Machines -> Metadata]
    BY DEF IInv, TypeOK
  <2>3. \A n \in Machines : metadata'[n].state = IF n = m THEN t ELSE metadata[n].state
    <3>1. [s.vm EXCEPT !.active = s.id, !.state = t].state = t
      BY <2>2 DEF Metadata
    <3> QED
      BY <2>1, <2>2, <3>1
  <2>4. Phases' = [Phases EXCEPT ![m] = PhaseOf(t)]
    BY <1>1, <1>6, <2>3, OnePhase
  <2>5. Phases' = [Phases EXCEPT ![m] = "stopped"] \/ Phases' = [Phases EXCEPT ![m] = "failed"]
    BY <2>4, PhaseOfStates
  <2> QED
    BY <1>1, <1>2, <1>4, <2>5, ChangeStep DEF Lifecycle!Restore
<1> QED
  BY <1>7, <1>8, <1>9, <1>10, <1>11, <1>12, <1>13 DEF ResetVM, StartResetFails

\* The calls that write no state, and refusals, are not seen.
LEMMA RefinesQuiet ==
  ASSUME IInv, NEW m \in Machines,
         \/ StartRefused(m) \/ StopRefused(m) \/ StepVM(m)
         \/ SnapshotVM(m) \/ DeleteSnapshot(m)
  PROVE  UNCHANGED Lifecycle!lifecycleVars
<1>1. UNCHANGED <<vms, created, control>>
  BY DEF StartRefused, StopRefused, StepVM, SnapshotVM, DeleteSnapshot, machineVars
<1>2. \A n \in vms : metadata'[n].state = metadata[n].state
  <2>1. metadata \in [Machines -> Metadata] /\ vms \subseteq Machines
    BY Unmoved DEF IInv, TypeOK
  <2>2. UNCHANGED metadata
        \/ \E c : metadata' = [metadata EXCEPT ![m] = [metadata[m] EXCEPT !.snapshotCount = c]]
    BY DEF StartRefused, StopRefused, StepVM, SnapshotVM, DeleteSnapshot, machineVars
  <2>3. \A c : [metadata[m] EXCEPT !.snapshotCount = c].state = metadata[m].state
    BY <2>1 DEF Metadata
  <2> QED
    BY <2>1, <2>2, <2>3
<1>3. Admitted' = Admitted
  <2>1. CASE UNCHANGED loop
    BY <2>1 DEF Admitted, InRun
  <2>2. CASE StartRefused(m)
    BY <2>2, SpawnEffect, SameAdmitted DEF StartRefused, IInv
  <2>3. CASE StopRefused(m)
    BY <2>3, CancelEffect, SameAdmitted DEF StopRefused, IInv
  <2> QED
    BY <2>1, <2>2, <2>3 DEF StepVM, SnapshotVM, DeleteSnapshot, loopVars
<1>4. Pending' = Pending
  BY <1>1 DEF Pending
<1> QED
  BY <1>1, <1>2, <1>3, <1>4, NoPhase, Stutter
\* Where a step of a loop leaves the loop.
LEMMA LoopMoves ==
  ASSUME IInv, NEW l \in Loops, LoopStep(l)
  PROVE  /\ UNCHANGED <<vms, created, control>>
         /\ \A k \in Loops \ {l} : loop'[k] = loop[k]
         /\ \/ (InRun(l)' <=> InRun(l)) /\ (InRun(l) => loop'[l].m = loop[l].m) /\ UNCHANGED metadata
            \/ /\ ~InRun(l) /\ InRun(l)' /\ loop'[l].m = loop[l].m /\ UNCHANGED metadata
               /\ loop[l].m \in vms /\ State(loop[l].m) = "RUNNING"
            \/ /\ InRun(l) /\ ~InRun(l)'
               /\ UNCHANGED metadata \/ SetState(loop[l].m, "ERROR")
<1> USE DEF InRun
<1>1. loop \in [Loops -> LoopRecord]
  BY Unmoved
<1>2. \A place \in Places :
        /\ [loop[l] EXCEPT !.at = place].m = loop[l].m
        /\ [loop[l] EXCEPT !.at = place].at = place
  BY <1>1 DEF LoopRecord
<1>3. Idle.at = "idle"
  BY DEF Idle
<1>4. CASE LoopTest(l)
  <2>1. \/ loop' = [loop EXCEPT ![l] = [loop[l] EXCEPT !.at = "call"]]
        \/ loop' = [loop EXCEPT ![l] = Idle]
    BY <1>4 DEF LoopTest, Go, End
  <2>2. [loop[l] EXCEPT !.at = "call"].at = "call"
    BY <1>2 DEF Places
  <2>3. loop[l].at = "test" /\ loop'[l].at \in {"call", "idle"}
    BY <1>1, <1>3, <1>4, <2>1, <2>2 DEF LoopTest
  <2>4. UNCHANGED <<vms, created, control, metadata>> /\ \A k \in Loops \ {l} : loop'[k] = loop[k]
    BY <1>1, <1>4, <2>1 DEF LoopTest, machineVars
  <2> QED
    BY <2>3, <2>4
<1>5. CASE RunChecks(l)
  <2>1. UNCHANGED <<vms, created, control, metadata>> /\ loop[l].at = "call"
    BY <1>5 DEF RunChecks, machineVars
  <2>2. CASE loop' = [loop EXCEPT ![l] = Idle]
    <3>1. loop'[l].at = "idle" /\ \A k \in Loops \ {l} : loop'[k] = loop[k]
      BY <1>1, <1>3, <2>2
    <3> QED
      BY <2>1, <3>1
  <2>3. CASE /\ loop' = [loop EXCEPT ![l] = [loop[l] EXCEPT !.at = "admitted"]]
             /\ loop[l].m \in vms /\ State(loop[l].m) = "RUNNING"
    <3>1. /\ [loop[l] EXCEPT !.at = "admitted"].at = "admitted"
          /\ [loop[l] EXCEPT !.at = "admitted"].m = loop[l].m
      BY <1>2 DEF Places
    <3>2. /\ loop'[l].at = "admitted" /\ loop'[l].m = loop[l].m
          /\ \A k \in Loops \ {l} : loop'[k] = loop[k]
      BY <1>1, <2>3, <3>1
    <3> QED
      BY <2>1, <2>3, <3>2
  <2> QED
    BY <1>5, <2>2, <2>3 DEF RunChecks, Go, End
<1>6. CASE RunEnters(l)
  <2>1. PICK place \in {"after", "inside"} :
          loop' = [loop EXCEPT ![l] = [loop[l] EXCEPT !.at = place]]
    BY <1>6 DEF RunEnters, Go
  <2>2. /\ [loop[l] EXCEPT !.at = place].at = place
        /\ [loop[l] EXCEPT !.at = place].m = loop[l].m
    BY <1>2 DEF Places
  <2>3. /\ loop'[l].at = place /\ loop'[l].m = loop[l].m
        /\ \A k \in Loops \ {l} : loop'[k] = loop[k]
    BY <1>1, <2>1, <2>2
  <2>4. UNCHANGED <<vms, created, control, metadata>> /\ loop[l].at = "admitted"
    BY <1>6 DEF RunEnters
  <2> QED
    BY <2>3, <2>4
<1>7. CASE RunStops(l)
  BY <1>1, <1>2, <1>7 DEF RunStops, Go, Places
<1>8. CASE RunExecutes(l)
  <2>1. PICK counted \in BOOLEAN : loop' = [loop EXCEPT ![l] = [loop[l] EXCEPT !.ran = counted]]
    BY <1>8 DEF RunExecutes
  <2>2. /\ [loop[l] EXCEPT !.ran = counted].at = loop[l].at
        /\ [loop[l] EXCEPT !.ran = counted].m = loop[l].m
    BY <1>1 DEF LoopRecord
  <2> QED
    BY <1>1, <1>8, <2>1, <2>2 DEF RunExecutes
<1>9. CASE RunReturns(l)
  <2>1. loop' = [loop EXCEPT ![l] = IF loop[l].ran
                   THEN [loop[l] EXCEPT !.at = "test", !.ran = FALSE] ELSE Idle]
    BY <1>9 DEF RunReturns
  <2>2. [loop[l] EXCEPT !.at = "test", !.ran = FALSE].at = "test"
    BY <1>1 DEF LoopRecord
  <2> QED
    BY <1>1, <1>3, <1>9, <2>1, <2>2 DEF RunReturns
<1> QED
  BY <1>4, <1>5, <1>6, <1>7, <1>8, <1>9 DEF LoopStep

LEMMA LoopStepIsNext ==
  ASSUME NEW m \in Machines, NEW l \in Loops, Lifecycle!Admit(l, m) \/ Lifecycle!Leave(l, m)
  PROVE  Lifecycle!Next
BY DEF Lifecycle!Next

\* The check of runVM() admits, its return reports and leaves; the rest of a
\* loop is not seen.
LEMMA RefinesLoop ==
  ASSUME IInv, NEW l \in Loops, LoopStep(l)
  PROVE  [Lifecycle!Next]_(Lifecycle!lifecycleVars)
<1>1. /\ UNCHANGED <<vms, created, control>> /\ \A k \in Loops \ {l} : loop'[k] = loop[k]
      /\ Pending' = Pending
  BY LoopMoves DEF Pending
<1>2. /\ vms \subseteq Machines /\ vms \subseteq created /\ (InRun(l) => loop[l].m \in vms)
  BY Unmoved DEF IInv, TypeOK
<1>3. \A k \in Loops \ {l} : InRun(k)' <=> InRun(k)
  BY <1>1 DEF InRun
<1>4. CASE (InRun(l)' <=> InRun(l)) /\ (InRun(l) => loop'[l].m = loop[l].m) /\ UNCHANGED metadata
  <2>1. Admitted' = Admitted
    BY <1>1, <1>3, <1>4 DEF Admitted
  <2>2. Phases' = Phases
    BY <1>1, <1>4, NoPhase
  <2> QED
    BY <1>1, <2>1, <2>2, Stutter
<1>5. CASE /\ ~InRun(l) /\ InRun(l)' /\ loop'[l].m = loop[l].m /\ UNCHANGED metadata
           /\ loop[l].m \in vms /\ State(loop[l].m) = "RUNNING"
  <2> PICK m \in Machines : m = loop[l].m
    BY <1>2, <1>5
  <2>1. Admitted[l] = {} /\ Admitted' = [Admitted EXCEPT ![l] = {m}]
    BY <1>1, <1>3, <1>5 DEF Admitted
  <2>2. Phases' = Phases
    BY <1>1, <1>5, NoPhase
  <2>3. Phases[m] = "running" /\ m \in Machines
    BY <1>2, <1>5 DEF Phases, Phase
  <2>4. Lifecycle!Admit(l, m)
    BY <1>1, <2>1, <2>2, <2>3 DEF Lifecycle!Admit, Phases, Pending, Admitted
  <2> QED
    BY <2>3, <2>4, LoopStepIsNext
<1>6. CASE /\ InRun(l) /\ ~InRun(l)'
           /\ UNCHANGED metadata \/ SetState(loop[l].m, "ERROR")
  <2> PICK m \in Machines : m = loop[l].m
    BY <1>2, <1>6
  <2>1. m \in vms /\ m \in Machines
    BY <1>2, <1>6
  <2>2. Admitted[l] = {m} /\ Admitted' = [Admitted EXCEPT ![l] = {}]
    BY <1>1, <1>3, <1>6 DEF Admitted
  <2>3. Phases' \in {Phases, [Phases EXCEPT ![m] = "failed"]}
    <3>1. CASE UNCHANGED metadata
      BY <1>1, <3>1, NoPhase
    <3>2. CASE SetState(loop[l].m, "ERROR")
      <4>1. "ERROR" \in VMState
        BY DEF VMState
      <4>2. \A n \in Machines : metadata'[n].state = IF n = m THEN "ERROR" ELSE metadata[n].state
        <5>1. TypeOK /\ SetState(m, "ERROR")
          BY <3>2, Zenon DEF IInv
        <5> QED
          BY <2>1, <4>1, <5>1, SetStateEffect
      <4>3. Phases' = [Phases EXCEPT ![m] = PhaseOf("ERROR")]
        BY <1>1, <2>1, <4>1, <4>2, OnePhase
      <4> QED
        BY <4>3, PhaseOfStates
    <3> QED
      BY <1>6, <3>1, <3>2
  <2>4. Lifecycle!Leave(l, m)
    BY <1>1, <2>2, <2>3 DEF Lifecycle!Leave, Phases, Pending, Admitted
  <2> QED
    BY <2>1, <2>4, LoopStepIsNext
<1> QED
  BY <1>4, <1>5, <1>6, LoopMoves

LEMMA RefinesNext == IInv /\ [Next]_vars => [Lifecycle!Next]_(Lifecycle!lifecycleVars)
<1> SUFFICES ASSUME IInv, [Next]_vars
             PROVE  [Lifecycle!Next]_(Lifecycle!lifecycleVars)
  OBVIOUS
<1>1. ASSUME NEW m \in Machines, CreateVM(m) \/ DeleteVM(m)
      PROVE  Lifecycle!Next
  BY <1>1, RefinesCreateDelete DEF Lifecycle!Next
<1>2. ASSUME NEW m \in Machines, StartVM(m) \/ StopVM(m)
      PROVE  Lifecycle!Next
  BY <1>2, RefinesBegin DEF Lifecycle!Next
<1>3. ASSUME NEW m \in Machines, ControlStep(m)
      PROVE  Lifecycle!Next
  BY <1>3, RefinesEnd DEF ControlStep, Lifecycle!Next
<1>4. ASSUME NEW m \in Machines,
             \/ PauseVM(m) \/ ResumeVM(m) \/ TerminateVM(m)
             \/ ResetVM(m) \/ StartResetFails(m) \/ RestoreSnapshot(m)
      PROVE  Lifecycle!Next
  BY <1>4, RefinesChange DEF Lifecycle!Next
<1>5. ASSUME NEW m \in Machines,
             \/ StartRefused(m) \/ StopRefused(m) \/ StepVM(m)
             \/ SnapshotVM(m) \/ DeleteSnapshot(m)
      PROVE  UNCHANGED Lifecycle!lifecycleVars
  BY <1>5, RefinesQuiet
<1>6. CASE UNCHANGED vars
  <2>1. Phases' = Phases
    BY <1>6, NoPhase DEF vars
  <2>2. Pending' = Pending /\ Admitted' = Admitted
    BY <1>6 DEF vars, Pending, Admitted, InRun
  <2> QED
    BY <2>1, <2>2, Stutter
<1> QED
  BY <1>1, <1>2, <1>3, <1>4, <1>5, <1>6, RefinesLoop DEF Next

-----------------------------------------------------------------------------
(* Each machine's life. *)

\* No thread enters or leaves a machine.
NobodyMoves ==
  \A l \in Loops : /\ loop'[l].at = "inside" <=> loop[l].at = "inside"
                   /\ loop[l].at = "inside" => loop'[l].m = loop[l].m

LEMMA CallersStay == NobodyMoves => \A m \in Machines : Callers(m)' = Callers(m)
BY DEF NobodyMoves, Callers

\* A new task is not inside, a cancelled one where it was.
LEMMA TasksMoveNobody ==
  ASSUME IInv, NEW k \in Machines, Spawn(k) \/ CancelTask(k) \/ UNCHANGED loop
  PROVE  NobodyMoves
<1>1. loop \in [Loops -> LoopRecord]
  BY Unmoved
<1>2. CASE Spawn(k)
  <2>1. PICK l \in Loops : /\ loop[l].at = "idle"
                           /\ loop' = [loop EXCEPT ![l] = [Idle EXCEPT !.at = "test", !.m = k]]
    BY <1>2 DEF Spawn
  <2>2. [Idle EXCEPT !.at = "test", !.m = k].at = "test"
    BY DEF Idle
  <2>3. \A n \in Loops : n # l => loop'[n] = loop[n]
    BY <1>1, <2>1
  <2>4. loop'[l].at = "test"
    BY <1>1, <2>1, <2>2
  <2> QED
    BY <2>1, <2>3, <2>4 DEF NobodyMoves
<1>3. CASE CancelTask(k)
  <2>1. \A l \in Loops : loop'[l].at = loop[l].at /\ loop'[l].m = loop[l].m
    BY <1>1, <1>3 DEF CancelTask, LoopRecord
  <2> QED
    BY <2>1 DEF NobodyMoves
<1>4. CASE UNCHANGED loop
  BY <1>4 DEF NobodyMoves
<1> QED
  BY <1>2, <1>3, <1>4

\* What a machine becomes when the control thread touches it.
Touched(v) ==
  {Fresh, [Fresh EXCEPT !.state = "ERROR"], Halted(v)}
  \cup (IF v.state = "ERROR" THEN {}
        ELSE IF v.ready THEN Executed ELSE {[v EXCEPT !.state = "STOPPED"]})

LEMMA TouchedStates ==
  ASSUME NEW u \in States, NEW v \in Touched(u)
  PROVE  v \in States
<1>1. CASE v \in {Fresh, [Fresh EXCEPT !.state = "ERROR"]}
  <2>1. Fresh \in States
    BY DEF Fresh, States
  <2>2. [Fresh EXCEPT !.state = "ERROR"] \in States
    BY <2>1 DEF States
  <2> QED
    BY <1>1, <2>1, <2>2
<1>2. CASE v = Halted(u)
  BY <1>2 DEF Halted, States
<1>3. CASE v \in Executed
  <2>1. Executed \subseteq States
    BY DEF Executed, States
  <2> QED
    BY <1>3, <2>1
<1>4. CASE v = [u EXCEPT !.state = "STOPPED"]
  BY <1>4 DEF States
<1> QED
  BY <1>1, <1>2, <1>3, <1>4 DEF Touched

LEMMA ControlTouches ==
  ASSUME IInv, NEW k \in Machines,
         \/ CreateVM(k) \/ DeleteVM(k)
         \/ StartVM(k) \/ StartResetFails(k) \/ StartRefused(k)
         \/ StopVM(k) \/ StopRefused(k)
         \/ PauseVM(k) \/ ResumeVM(k) \/ ResetVM(k) \/ TerminateVM(k) \/ StepVM(k)
         \/ SnapshotVM(k) \/ RestoreSnapshot(k) \/ DeleteSnapshot(k)
         \/ ControlStep(k)
  PROVE  /\ NobodyMoves
         /\ \/ UNCHANGED <<machine, created>>
            \/ k \notin created /\ created' = created \cup {k} /\ UNCHANGED machine
            \/ /\ k \in created /\ UNCHANGED created
               /\ \E v \in Touched(machine[k]) : machine' = [machine EXCEPT ![k] = v]
<1>1. vms \subseteq created
  BY DEF IInv, TypeOK
<1>2. CASE \/ StartRefused(k) \/ StopRefused(k) \/ PauseVM(k) \/ ResumeVM(k)
           \/ SnapshotVM(k) \/ DeleteSnapshot(k) \/ ControlStep(k)
  <2>1. /\ UNCHANGED <<machine, created>>
        /\ Spawn(k) \/ CancelTask(k) \/ UNCHANGED loop
    BY <1>2 DEF StartRefused, StopRefused, PauseVM, ResumeVM, SnapshotVM, DeleteSnapshot,
                ControlStep, StartReturns, StopReturns, machineVars, loopVars
  <2> QED
    BY <2>1, TasksMoveNobody
<1>3. CASE CreateVM(k)
  <2>1. k \notin created /\ created' = created \cup {k} /\ UNCHANGED <<machine, loop>>
    BY <1>3 DEF CreateVM, loopVars
  <2> QED
    BY <2>1, TasksMoveNobody
<1>4. CASE DeleteVM(k)
  <2>1. /\ k \in vms /\ UNCHANGED <<created, loop>>
        /\ machine' = [machine EXCEPT ![k] = Fresh]
    BY <1>4 DEF DeleteVM, Ready, loopVars
  <2> QED
    BY <1>1, <2>1, TasksMoveNobody DEF Touched
<1>5. CASE StartVM(k) \/ StartResetFails(k) \/ ResetVM(k) \/ RestoreSnapshot(k)
  <2>1. /\ k \in vms /\ UNCHANGED created
        /\ Spawn(k) \/ UNCHANGED loop
        /\ UNCHANGED machine \/ \E ok \in BOOLEAN : ResetMachine(k, ok)
    BY <1>5 DEF StartVM, StartResetFails, ResetVM, RestoreSnapshot, Ready, loopVars
  <2>2. ASSUME NEW ok \in BOOLEAN, ResetMachine(k, ok)
        PROVE  \E v \in Touched(machine[k]) : machine' = [machine EXCEPT ![k] = v]
    BY <2>2 DEF ResetMachine, Touched
  <2> QED
    BY <1>1, <2>1, <2>2, TasksMoveNobody
<1>6. CASE StopVM(k) \/ TerminateVM(k)
  <2>1. /\ k \in vms /\ UNCHANGED created
        /\ CancelTask(k) \/ UNCHANGED loop
        /\ machine' = [machine EXCEPT ![k] = Halted(machine[k])]
    BY <1>6 DEF StopVM, TerminateVM, Ready, loopVars
  <2> QED
    BY <1>1, <2>1, TasksMoveNobody DEF Touched
<1>7. CASE StepVM(k)
  <2>1. /\ k \in vms /\ UNCHANGED <<created, loop>> /\ machine[k].state # "ERROR"
        /\ machine' \in {[machine EXCEPT ![k] = v] :
                           v \in IF machine[k].ready THEN Executed
                                 ELSE {[machine[k] EXCEPT !.state = "STOPPED"]}}
    BY <1>7 DEF StepVM, Ready, loopVars
  <2> QED
    BY <1>1, <2>1, TasksMoveNobody DEF Touched
<1> QED
  BY <1>2, <1>3, <1>4, <1>5, <1>6, <1>7

\* What a loop's step does to the machine it runs.
LEMMA LoopTouches ==
  ASSUME IInv, NEW l \in Loops, LoopStep(l)
  PROVE  /\ UNCHANGED created
         /\ \A n \in Loops \ {l} : loop'[n] = loop[n]
         /\ \/ NobodyMoves /\ UNCHANGED machine
            \/ \E k \in vms :
                 /\ k = loop[l].m /\ loop'[l].m = k
                 /\ \/ /\ loop[l].at = "admitted" /\ loop'[l].at = "inside"
                       /\ machine[k].state # "ERROR"
                       /\ machine' = [machine EXCEPT ![k] = [machine[k] EXCEPT !.state = "RUNNING"]]
                    \/ /\ loop[l].at = "inside" /\ loop'[l].at = "after"
                       /\ \/ machine[k].state # "RUNNING" /\ UNCHANGED machine
                          \/ /\ machine[k].state = "RUNNING"
                             /\ machine' =
                                  [machine EXCEPT ![k] = [machine[k] EXCEPT !.state = "STOPPED"]]
                    \/ /\ loop[l].at = "inside" /\ loop'[l].at = "inside"
                       /\ machine[k].state = "RUNNING" /\ machine[k].ready
                       /\ \E v \in Executed : machine' = [machine EXCEPT ![k] = v]
<1>1. /\ loop \in [Loops -> LoopRecord] /\ machine \in [Machines -> States]
      /\ vms \subseteq Machines
      /\ InRun(l) => loop[l].m \in vms
  BY Unmoved
<1>2. UNCHANGED created
  BY DEF LoopStep, LoopTest, RunChecks, RunEnters, RunStops, RunExecutes, RunReturns, machineVars
<1>3. ASSUME NEW r \in LoopRecord, loop' = [loop EXCEPT ![l] = r]
      PROVE  /\ loop'[l] = r
             /\ \A n \in Loops \ {l} : loop'[n] = loop[n]
             /\ (r.at # "inside" /\ loop[l].at # "inside") => NobodyMoves
  BY <1>1, <1>3 DEF NobodyMoves
<1>4. /\ loop[l] \in LoopRecord
      /\ \A p \in Places : /\ [loop[l] EXCEPT !.at = p] \in LoopRecord
                           /\ [loop[l] EXCEPT !.at = p].at = p
                           /\ [loop[l] EXCEPT !.at = p].m = loop[l].m
  BY <1>1 DEF LoopRecord
<1>5. {"test", "call", "admitted", "inside", "after"} \subseteq Places
  BY DEF Places
<1>6. Idle \in LoopRecord /\ Idle.at = "idle"
  BY DEF Idle, LoopRecord, Places
<1>7. CASE LoopTest(l) \/ RunChecks(l)
  <2>1. loop[l].at \in {"test", "call"} /\ UNCHANGED machine
    BY <1>7 DEF LoopTest, RunChecks, machineVars
  <2>2. PICK r \in {[loop[l] EXCEPT !.at = "call"], [loop[l] EXCEPT !.at = "admitted"], Idle} :
          loop' = [loop EXCEPT ![l] = r]
    BY <1>7 DEF LoopTest, RunChecks, Go, End
  <2>3. r \in LoopRecord /\ r.at # "inside"
    BY <1>4, <1>5, <1>6
  <2> QED
    BY <1>2, <1>3, <2>1, <2>2, <2>3
<1>8. CASE RunReturns(l)
  <2>1. loop[l].at = "after" /\ UNCHANGED machine
    BY <1>8 DEF RunReturns
  <2>2. PICK r \in {[loop[l] EXCEPT !.at = "test", !.ran = FALSE], Idle} :
          loop' = [loop EXCEPT ![l] = r]
    BY <1>8 DEF RunReturns
  <2>3. /\ [loop[l] EXCEPT !.at = "test", !.ran = FALSE] \in LoopRecord
        /\ [loop[l] EXCEPT !.at = "test", !.ran = FALSE].at = "test"
    BY <1>4, <1>5 DEF LoopRecord
  <2>4. r \in LoopRecord /\ r.at # "inside"
    BY <1>6, <2>2, <2>3
  <2> QED
    BY <1>2, <1>3, <2>1, <2>2, <2>4
<1>9. CASE RunEnters(l)
  <2>1. loop[l].at = "admitted" /\ loop[l].m \in vms
    BY <1>1, <1>9 DEF RunEnters, InRun
  <2>2. CASE machine[loop[l].m].state = "ERROR"
    <3>1. UNCHANGED machine /\ loop' = [loop EXCEPT ![l] = [loop[l] EXCEPT !.at = "after"]]
      BY <1>9, <2>2 DEF RunEnters, Go
    <3> QED
      BY <1>2, <1>3, <1>4, <1>5, <2>1, <3>1
  <2>3. CASE machine[loop[l].m].state # "ERROR"
    <3>1. /\ machine' = [machine EXCEPT ![loop[l].m] =
                           [machine[loop[l].m] EXCEPT !.state = "RUNNING"]]
          /\ loop' = [loop EXCEPT ![l] = [loop[l] EXCEPT !.at = "inside"]]
      BY <1>9, <2>3 DEF RunEnters, Go
    <3>2. /\ loop'[l].at = "inside" /\ loop'[l].m = loop[l].m
          /\ \A n \in Loops \ {l} : loop'[n] = loop[n]
      BY <1>3, <1>4, <1>5, <3>1
    <3> QED
      BY <1>2, <2>1, <2>3, <3>1, <3>2
  <2> QED
    BY <2>2, <2>3
<1>10. CASE RunStops(l)
  <2>1. /\ loop[l].at = "inside" /\ loop[l].m \in vms
        /\ loop' = [loop EXCEPT ![l] = [loop[l] EXCEPT !.at = "after"]]
    BY <1>1, <1>10 DEF RunStops, Go, InRun
  <2>2. \/ machine[loop[l].m].state # "RUNNING" /\ UNCHANGED machine
        \/ /\ machine[loop[l].m].state = "RUNNING"
           /\ machine' = [machine EXCEPT ![loop[l].m] =
                            [machine[loop[l].m] EXCEPT !.state = "STOPPED"]]
    BY <1>10 DEF RunStops
  <2>3. /\ loop'[l].at = "after" /\ loop'[l].m = loop[l].m
        /\ \A n \in Loops \ {l} : loop'[n] = loop[n]
    BY <1>3, <1>4, <1>5, <2>1
  <2> QED
    BY <1>2, <2>1, <2>2, <2>3
<1>11. CASE RunExecutes(l)
  <2>1. /\ loop[l].at = "inside" /\ loop[l].m \in vms
        /\ machine[loop[l].m].state = "RUNNING" /\ machine[loop[l].m].ready
    BY <1>1, <1>11 DEF RunExecutes, InRun
  <2>2. PICK v \in Executed, counted \in BOOLEAN :
          /\ machine' = [machine EXCEPT ![loop[l].m] = v]
          /\ loop' = [loop EXCEPT ![l] = [loop[l] EXCEPT !.ran = counted]]
    BY <1>11 DEF RunExecutes
  <2>3. /\ [loop[l] EXCEPT !.ran = counted] \in LoopRecord
        /\ [loop[l] EXCEPT !.ran = counted].at = loop[l].at
        /\ [loop[l] EXCEPT !.ran = counted].m = loop[l].m
    BY <1>4 DEF LoopRecord
  <2>4. /\ loop'[l].at = "inside" /\ loop'[l].m = loop[l].m
        /\ \A n \in Loops \ {l} : loop'[n] = loop[n]
    BY <1>3, <2>1, <2>2, <2>3
  <2> QED
    BY <1>2, <2>1, <2>2, <2>4
<1> QED
  BY <1>7, <1>8, <1>9, <1>10, <1>11 DEF LoopStep

\* An identifier that was not handed out has a machine nobody has touched.
UnbornFresh == \A m \in Machines \ created : machine[m] = Fresh

LEMMA UnbornInvariant == Spec => []UnbornFresh
<1>1. Init => UnbornFresh
  BY DEF Init, UnbornFresh
<1>2. IInv /\ UnbornFresh /\ [Next]_vars => UnbornFresh'
  <2> SUFFICES ASSUME IInv, UnbornFresh, [Next]_vars
               PROVE  UnbornFresh'
    OBVIOUS
  <2>1. ASSUME NEW k \in created, NEW v, machine' = [machine EXCEPT ![k] = v],
               UNCHANGED created
        PROVE  UnbornFresh'
    BY <2>1, Unmoved DEF UnbornFresh
  <2>2. ASSUME UNCHANGED machine, created \subseteq created'
        PROVE  UnbornFresh'
    BY <2>2 DEF UnbornFresh
  <2>3. CASE \E l \in Loops : LoopStep(l)
    <3>1. vms \subseteq created
      BY DEF IInv, TypeOK
    <3>2. /\ UNCHANGED created
          /\ UNCHANGED machine \/ \E k \in vms : \E v : machine' = [machine EXCEPT ![k] = v]
      BY <2>3, LoopTouches
    <3> QED
      BY <2>1, <2>2, <3>1, <3>2
  <2>4. CASE UNCHANGED vars
    BY <2>2, <2>4 DEF vars
  <2>5. CASE ~(\E l \in Loops : LoopStep(l)) /\ ~(UNCHANGED vars)
    <3>1. PICK k \in Machines :
            \/ UNCHANGED <<machine, created>>
            \/ k \notin created /\ created' = created \cup {k} /\ UNCHANGED machine
            \/ /\ k \in created /\ UNCHANGED created
               /\ \E v \in Touched(machine[k]) : machine' = [machine EXCEPT ![k] = v]
      BY <2>5, ControlTouches DEF Next
    <3> QED
      BY <2>1, <2>2, <3>1
  <2> QED
    BY <2>3, <2>4, <2>5
<1> QED
  BY <1>1, <1>2, Invariance, PTL DEF Spec

\* What other machines do is not seen in a machine's life.
LEMMA LifeAside ==
  ASSUME NEW m \in Machines, machine'[m] = machine[m], m \in created' <=> m \in created,
         Callers(m)' = Callers(m)
  PROVE  UNCHANGED Life(m)!lifeVars
<1>1. LifeState(m)' = LifeState(m) /\ LifeReady(m)' = LifeReady(m)
  BY DEF LifeState, LifeReady
<1> QED
  BY <1>1 DEF Life!lifeVars

\* A control call revives the machine, halts it, makes one step of it or leaves
\* it alone.
LEMMA ControlLives ==
  ASSUME IInv, UnbornFresh, NEW m \in Machines, NEW k \in Machines,
         Callers(m)' = Callers(m),
         \/ UNCHANGED <<machine, created>>
         \/ k \notin created /\ created' = created \cup {k} /\ UNCHANGED machine
         \/ /\ k \in created /\ UNCHANGED created
            /\ \E v \in Touched(machine[k]) : machine' = [machine EXCEPT ![k] = v]
  PROVE  [Life(m)!Next]_(Life(m)!lifeVars)
<1>1. machine \in [Machines -> States]
  BY Unmoved
<1>2. Life(m)!Stays
  BY DEF Life!Stays
<1>3. CASE UNCHANGED <<machine, created>>
  BY <1>3, LifeAside
<1>4. CASE k \notin created /\ created' = created \cup {k} /\ UNCHANGED machine
  <2>1. CASE k = m
    <3>1. machine'[m] = Fresh /\ m \in created'
      BY <1>4, <2>1 DEF UnbornFresh
    <3>2. LifeState(m)' = "STOPPED" /\ LifeReady(m)' = TRUE
      BY <3>1 DEF LifeState, LifeReady, Fresh
    <3> QED
      BY <1>2, <3>2 DEF Life!Next, Life!Revive
  <2>2. CASE k # m
    BY <1>4, <2>2, LifeAside
  <2> QED
    BY <2>1, <2>2
<1>5. ASSUME k \in created, UNCHANGED created,
             NEW v \in Touched(machine[k]), machine' = [machine EXCEPT ![k] = v]
      PROVE  [Life(m)!Next]_(Life(m)!lifeVars)
  <2>1. CASE k # m
    <3>1. machine'[m] = machine[m]
      BY <1>1, <1>5, <2>1
    <3> QED
      BY <1>5, <2>1, <3>1, LifeAside
  <2>2. CASE k = m
    <3>1. /\ machine'[m] = v /\ m \in created /\ m \in created'
          /\ LifeState(m) = machine[m].state /\ LifeReady(m) = machine[m].ready
          /\ LifeState(m)' = v.state /\ LifeReady(m)' = v.ready
      <4>1. machine'[m] = v /\ m \in created /\ m \in created'
        BY <1>1, <1>5, <2>2
      <4>2. machine[m].ready \in BOOLEAN
        BY <1>1 DEF States
      <4>3. machine[m] \in States /\ v \in Touched(machine[m])
        BY <1>1, <1>5, <2>2
      <4>4. v.ready \in BOOLEAN
        BY <4>3, TouchedStates DEF States
      <4> QED
        BY <4>1, <4>2, <4>4 DEF LifeState, LifeReady
    <3>2. machine[m] \in States
      BY <1>1
    <3>3. CASE v \in {Fresh, [Fresh EXCEPT !.state = "ERROR"]}
      <4>1. v.state \in {"STOPPED", "ERROR"} /\ v.ready = TRUE
        BY <3>3 DEF Fresh
      <4> QED
        BY <1>2, <3>1, <4>1 DEF Life!Next, Life!Revive
    <3>4. CASE v = Halted(machine[m])
      <4>1. CASE machine[m].state = "RUNNING"
        <5>1. v.state = "STOPPED" /\ v.ready = FALSE
          BY <3>4, <4>1 DEF Halted
        <5> QED
          BY <1>2, <3>1, <4>1, <5>1 DEF Life!Next, Life!Halt
      <4>2. CASE machine[m].state # "RUNNING"
        <5>1. machine'[m] = machine[m]
          BY <3>1, <3>4, <4>2 DEF Halted
        <5> QED
          BY <1>5, <5>1, LifeAside
      <4> QED
        BY <4>1, <4>2
    <3>5. CASE machine[m].state # "ERROR" /\ machine[m].ready /\ v \in Executed
      <4>1. Life(m)!Accepts
        BY <3>1, <3>2, <3>5 DEF Life!Accepts, States
      <4>2. \/ v.state = "RUNNING" /\ v.ready = TRUE
            \/ v.state = "STOPPED" /\ v.ready = FALSE
            \/ v.state = "ERROR" /\ v.ready = TRUE
        BY <3>5 DEF Executed
      <4>3. Life(m)!Outcome
        BY <1>2, <3>1, <3>5, <4>2 DEF Life!Outcome
      <4> QED
        BY <4>1, <4>3 DEF Life!Next, Life!StepAtOnce
    <3>6. CASE /\ machine[m].state # "ERROR" /\ ~machine[m].ready
               /\ v = [machine[m] EXCEPT !.state = "STOPPED"]
      <4>1. Life(m)!Accepts
        BY <3>1, <3>2, <3>6 DEF Life!Accepts, States
      <4>2. v.state = "STOPPED" /\ v.ready = machine[m].ready
        BY <3>2, <3>6 DEF States
      <4> QED
        BY <1>2, <3>1, <3>6, <4>1, <4>2 DEF Life!Next, Life!StepAtOnce
    <3> QED
      BY <1>5, <2>2, <3>3, <3>4, <3>5, <3>6 DEF Touched
  <2> QED
    BY <2>1, <2>2
<1> QED
  BY <1>3, <1>4, <1>5

\* A loop enters the machine it was admitted to, executes in it and leaves.
LEMMA LoopLives ==
  ASSUME IInv, NEW m \in Machines, NEW l \in Loops, LoopStep(l)
  PROVE  [Life(m)!Next]_(Life(m)!lifeVars)
<1>1. /\ loop \in [Loops -> LoopRecord] /\ machine \in [Machines -> States]
      /\ vms \subseteq created /\ vms \subseteq Machines
  BY Unmoved DEF IInv, TypeOK
<1>2. UNCHANGED created /\ \A n \in Loops \ {l} : loop'[n] = loop[n]
  BY LoopTouches
<1>3. CASE NobodyMoves /\ UNCHANGED machine
  BY <1>2, <1>3, CallersStay, LifeAside
<1>4. ASSUME NEW k \in vms, k = loop[l].m, loop'[l].m = k,
             \/ loop[l].at = "admitted" /\ loop'[l].at = "inside"
             \/ loop[l].at = "inside" /\ loop'[l].at \in {"inside", "after"},
             UNCHANGED machine \/ \E v : machine' = [machine EXCEPT ![k] = v],
             k # m
      PROVE  [Life(m)!Next]_(Life(m)!lifeVars)
  <2>1. Callers(m)' = Callers(m)
    BY <1>2, <1>4 DEF Callers
  <2>2. machine'[m] = machine[m]
    BY <1>1, <1>4
  <2> QED
    BY <1>2, <2>1, <2>2, LifeAside
<1>5. ASSUME m \in vms, m = loop[l].m, loop'[l].m = m
      PROVE  /\ loop[l].at # "inside" /\ loop'[l].at = "inside" =>
                  Callers(m)[l] = "outside" /\ Life(m)!Goes(l, "run")
             /\ loop[l].at = "inside" /\ loop'[l].at = "after" =>
                  Callers(m)[l] = "run" /\ Life(m)!Goes(l, "outside")
             /\ loop[l].at = "inside" /\ loop'[l].at = "inside" =>
                  Callers(m)[l] = "run" /\ Life(m)!Stays
             /\ LifeState(m) = machine[m].state /\ LifeReady(m) = machine[m].ready
             /\ LifeState(m)' = machine'[m].state
             /\ machine'[m].ready \in BOOLEAN => LifeReady(m)' = machine'[m].ready
  <2>1. Callers(m) = [n \in Loops |-> IF loop[n].m = m /\ loop[n].at = "inside"
                                      THEN "run" ELSE "outside"]
    BY DEF Callers
  <2>2. Callers(m)' = [n \in Loops |-> IF loop'[n].m = m /\ loop'[n].at = "inside"
                                       THEN "run" ELSE "outside"]
    BY DEF Callers
  <2>3. machine[m].ready \in BOOLEAN
    BY <1>1 DEF States
  <2>4. /\ LifeState(m) = machine[m].state /\ LifeReady(m) = machine[m].ready
        /\ LifeState(m)' = machine'[m].state
        /\ machine'[m].ready \in BOOLEAN => LifeReady(m)' = machine'[m].ready
    BY <1>1, <1>2, <1>5, <2>3 DEF LifeState, LifeReady
  <2>5. CASE loop[l].at # "inside" /\ loop'[l].at = "inside"
    BY <1>2, <1>5, <2>1, <2>2, <2>4, <2>5 DEF Life!Goes
  <2>6. CASE loop[l].at = "inside" /\ loop'[l].at = "after"
    BY <1>2, <1>5, <2>1, <2>2, <2>4, <2>6 DEF Life!Goes
  <2>7. CASE loop[l].at = "inside" /\ loop'[l].at = "inside"
    BY <1>2, <1>5, <2>1, <2>2, <2>4, <2>7 DEF Life!Stays
  <2> QED
    BY <2>4, <2>5, <2>6, <2>7
<1>6. ASSUME m \in vms, m = loop[l].m, loop'[l].m = m,
             loop[l].at = "admitted", loop'[l].at = "inside", machine[m].state # "ERROR",
             machine' = [machine EXCEPT ![m] = [machine[m] EXCEPT !.state = "RUNNING"]]
      PROVE  Life(m)!Next
  <2>1. machine'[m].state = "RUNNING" /\ machine'[m].ready = machine[m].ready
        /\ machine[m].ready \in BOOLEAN /\ machine[m].state # "CREATED"
    BY <1>1, <1>6 DEF States
  <2>2. Life(m)!EnterRun(l)
    BY <1>5, <1>6, <2>1 DEF Life!EnterRun, Life!Accepts
  <2> QED
    BY <2>2 DEF Life!Next
<1>7. ASSUME m \in vms, m = loop[l].m, loop'[l].m = m,
             loop[l].at = "inside", loop'[l].at = "after",
             \/ machine[m].state # "RUNNING" /\ UNCHANGED machine
             \/ /\ machine[m].state = "RUNNING"
                /\ machine' = [machine EXCEPT ![m] = [machine[m] EXCEPT !.state = "STOPPED"]]
      PROVE  Life(m)!Next
  <2>1. machine'[m].ready = machine[m].ready /\ machine[m].ready \in BOOLEAN
    BY <1>1, <1>7 DEF States
  <2>2. \/ machine[m].state # "RUNNING" /\ machine'[m].state = machine[m].state
        \/ machine[m].state = "RUNNING" /\ machine'[m].state = "STOPPED"
    BY <1>1, <1>7 DEF States
  <2>3. Life(m)!LeaveRun(l)
    BY <1>5, <1>7, <2>1, <2>2 DEF Life!LeaveRun
  <2> QED
    BY <2>3 DEF Life!Next
<1>8. ASSUME m \in vms, m = loop[l].m, loop'[l].m = m,
             loop[l].at = "inside", loop'[l].at = "inside",
             machine[m].state = "RUNNING", machine[m].ready,
             NEW v \in Executed, machine' = [machine EXCEPT ![m] = v]
      PROVE  Life(m)!Next
  <2>1. /\ machine'[m] = v
        /\ \/ v.state = "RUNNING" /\ v.ready = TRUE
           \/ v.state = "STOPPED" /\ v.ready = FALSE
           \/ v.state = "ERROR" /\ v.ready = TRUE
    BY <1>1, <1>8 DEF Executed
  <2>2. Life(m)!Outcome
    BY <1>5, <1>8, <2>1 DEF Life!Outcome
  <2>3. Life(m)!RunBatch(l)
    BY <1>5, <1>8, <2>2 DEF Life!RunBatch
  <2> QED
    BY <2>3 DEF Life!Next
<1>9. CASE ~(NobodyMoves /\ UNCHANGED machine)
  <2> PICK k \in vms :
        /\ k = loop[l].m /\ loop'[l].m = k
        /\ \/ /\ loop[l].at = "admitted" /\ loop'[l].at = "inside"
              /\ machine[k].state # "ERROR"
              /\ machine' = [machine EXCEPT ![k] = [machine[k] EXCEPT !.state = "RUNNING"]]
           \/ /\ loop[l].at = "inside" /\ loop'[l].at = "after"
              /\ \/ machine[k].state # "RUNNING" /\ UNCHANGED machine
                 \/ /\ machine[k].state = "RUNNING"
                    /\ machine' =
                         [machine EXCEPT ![k] = [machine[k] EXCEPT !.state = "STOPPED"]]
           \/ /\ loop[l].at = "inside" /\ loop'[l].at = "inside"
              /\ machine[k].state = "RUNNING" /\ machine[k].ready
              /\ \E v \in Executed : machine' = [machine EXCEPT ![k] = v]
    BY <1>9, LoopTouches
  <2>1. CASE k = m
    BY <1>6, <1>7, <1>8, <2>1
  <2>2. CASE k # m
    BY <1>4, <2>2
  <2> QED
    BY <2>1, <2>2
<1> QED
  BY <1>3, <1>9

\* Machines are born as promised.
LEMMA LifeBegins ==
  ASSUME NEW m \in Machines, Init
  PROVE  Life(m)!Init
<1>1. created = {} /\ \A l \in Loops : loop[l].at # "inside"
  BY DEF Init, Idle
<1>2. Callers(m) = [l \in Loops |-> "outside"]
  BY <1>1 DEF Callers
<1>3. LifeState(m) = "CREATED" /\ LifeReady(m) = FALSE
  BY <1>1 DEF LifeState, LifeReady
<1> QED
  BY <1>2, <1>3 DEF Life!Init

\* Whatever the manager or one of its threads does, each lives on as promised.
LEMMA LifeGoesOn ==
  ASSUME IInv, UnbornFresh, [Next]_vars, NEW m \in Machines
  PROVE  [Life(m)!Next]_(Life(m)!lifeVars)
<1>1. CASE UNCHANGED vars
  <2>1. Callers(m)' = Callers(m)
    BY <1>1 DEF vars, Callers
  <2> QED
    BY <1>1, <2>1, LifeAside DEF vars
<1>2. CASE \E l \in Loops : LoopStep(l)
  BY <1>2, LoopLives
<1>3. CASE Next /\ ~(\E l \in Loops : LoopStep(l))
  <2>1. PICK k \in Machines :
          /\ NobodyMoves
          /\ \/ UNCHANGED <<machine, created>>
             \/ k \notin created /\ created' = created \cup {k} /\ UNCHANGED machine
             \/ /\ k \in created /\ UNCHANGED created
                /\ \E v \in Touched(machine[k]) : machine' = [machine EXCEPT ![k] = v]
    BY <1>3, ControlTouches DEF Next
  <2>2. Callers(m)' = Callers(m)
    BY <2>1, CallersStay
  <2> QED
    BY <2>1, <2>2, ControlLives
<1> QED
  BY <1>1, <1>2, <1>3

-----------------------------------------------------------------------------
(* Theorems. *)

\* Metadata, machines, snapshots and threads always have their types.
THEOREM TypeCorrect == Spec => []TypeOK
<1>1. IInv => TypeOK
  BY DEF IInv
<1> QED
  BY <1>1, Invariance, PTL

\* No call of the manager leaves a machine in the middle of itself, STARTING
\* apart.
THEOREM Settled == Spec => []SettledBetweenCalls
<1>1. IInv => SettledBetweenCalls
  BY DEF IInv
<1> QED
  BY <1>1, Invariance, PTL

\* The identifier of a new snapshot is one that nothing names yet.
THEOREM IdentifiersAreFresh == Spec => IdentifiersNameOneSnapshot
<1>1. IInv /\ [Next]_vars =>
        [\A m, n \in Machines : \A s \in snapshots'[n] \ snapshots[n] : s.id \notin Named(m)]_vars
  <2> SUFFICES ASSUME IInv, [Next]_vars,
                      NEW m \in Machines, NEW n \in Machines,
                      NEW s \in snapshots'[n] \ snapshots[n]
               PROVE  s.id \notin Named(m)
    OBVIOUS
  <2>1. /\ snapshots \in [Machines -> SUBSET [id : Nat, vm : Metadata]]
        /\ snapshotCounter \in Nat
    BY DEF IInv, TypeOK
  <2>2. s.id = snapshotCounter
    <3>1. SnapshotVM(n)
      <4>1. snapshots' # snapshots
        OBVIOUS
      <4>2. PICK k \in Machines : SnapshotVM(k) \/ RestoreSnapshot(k) \/ DeleteSnapshot(k)
                                  \/ DeleteVM(k)
        BY <4>1, Zenon DEF Next, vars, CreateVM, StartVM, StartResetFails, StartRefused, StopVM,
             StopRefused, PauseVM, ResumeVM, ResetVM, TerminateVM, StepVM, ControlStep,
             StartReturns, StopReturns, LoopStep, LoopTest, RunChecks, RunEnters, RunStops,
             RunExecutes, RunReturns, machineVars
      <4>3. ~ RestoreSnapshot(k)
        BY <4>1 DEF RestoreSnapshot
      <4>4. ~ DeleteSnapshot(k) /\ ~ DeleteVM(k)
        BY <2>1 DEF DeleteSnapshot, DeleteVM
      <4>5. k = n
        BY <2>1, <4>2, <4>3, <4>4 DEF SnapshotVM
      <4> QED
        BY <4>2, <4>3, <4>4, <4>5
    <3> QED
      BY <2>1, <3>1 DEF SnapshotVM
  <2>3. \A x \in Named(m) : Given(x, snapshotCounter)
    BY <2>1 DEF IInv, IdentifiersGiven, Named, Given
  <2>4. snapshotCounter # None
    BY <2>1, ManagerAssumption
  <2> QED
    BY <2>1, <2>2, <2>3, <2>4 DEF Given
<1> QED
  BY <1>1, Invariance, PTL DEF Spec, IdentifiersNameOneSnapshot

\* The manager with its execution loops implements the life cycle.
THEOREM Refinement == Spec => ImplementsLifecycle
<1>1. Spec => Lifecycle!Init /\ [][Lifecycle!Next]_(Lifecycle!lifecycleVars)
  BY RefinesInit, RefinesNext, Invariance, PTL DEF Spec
<1> QED
  BY <1>1 DEF ImplementsLifecycle, Lifecycle!Spec

(***************************************************************************)
(* Whatever the calls on the manager and the loops of its threads do, in   *)
(* whatever order, each machine they own lives as MachineLife promises:    *)
(* the promise that VirtualMachineProofs shows the real machine keeps.     *)
(***************************************************************************)
THEOREM MachinesLiveAsPromised == Spec => MachinesLive
<1>1. Init => \A m \in Machines : Life(m)!Init
  BY LifeBegins
<1>2. IInv /\ UnbornFresh /\ [Next]_vars =>
        [\A m \in Machines : [Life(m)!Next]_(Life(m)!lifeVars)]_vars
  BY LifeGoesOn
<1> QED
  BY <1>1, <1>2, Invariance, UnbornInvariant, PTL DEF Spec, MachinesLive

\* Taken one by one: the manager implements MachineLife for each of its machines.
THEOREM EachMachineImplementsItsLife ==
  ASSUME NEW m \in Machines
  PROVE  Spec => Life(m)!Spec
<1>1. Init => Life(m)!Init
  BY LifeBegins
<1>2. IInv /\ UnbornFresh /\ [Next]_vars => [Life(m)!Next]_(Life(m)!lifeVars)
  BY LifeGoesOn
<1> QED
  BY <1>1, <1>2, Invariance, UnbornInvariant, PTL DEF Spec, Life!Spec
=============================================================================
