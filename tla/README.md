# Verification of guideXOS Hypervisor

TLA+ specifications of the guideXOS Hypervisor (C++, an emulator of IA-64
machines with a debugger, device models, a VM manager and a REST interface), the
TLC runs that check them on small instances, and TLAPS proofs of their main
properties for every value of the constants.

Paths are relative to the repository; `src/` inside them is the repository's own
source directory.

## 1. Inventory

| part | code | state | operations | interacts with |
|---|---|---|---|---|
| VirtualMachine | `src/vm/VirtualMachine.cpp` | `state_`, `cpus_`, `activeCPUIndex_`, `cyclesExecuted_`, breakpoints, snapshot history | init, reset, halt, run, step, stepCPU, stepAllCPUs, stepQuantum, loadProgram, setEntryPoint, breakpoints, rewind, restores, panic | owns all the parts below; hands out CPU contexts and the boot state machine by reference |
| SimpleCPUScheduler | `src/vm/SimpleCPUScheduler.cpp` | `lastCPUIndex_`, counters | selectNextCPU, onCPUExecuted, reset | called by `step()`; reads the CPU contexts |
| VMBootStateMachine | `src/vm/VMBootStateMachine.cpp` | current and previous state, times, history, conditions, callbacks | transition, forceTransition, powerOn, shutdown, reset | driven by VirtualMachine and by embedders; calls callbacks |
| IA-64 interrupt unit | `src/isa/IA64ISAPlugin.cpp` | pending list, in-service latch, CR.TPR/ITM/ITV, AR.ITC, timer latch | queueInterrupt, servicePendingInterrupt, IVR, EOI, timer compare | devices and other CPUs queue; the guest's handler reads and writes |
| IA-64 interruption entry/return | `src/isa/IA64ISAPlugin.cpp`, `src/decoder/decoder.cpp` | IP, slot, PSR, CR.IIP, CR.IPSR, `interruptFrameStack_` | external interrupt, TLB fault, rfi | interrupt unit, address translation |
| CPU core, decoder, firmware stubs | `src/core`, `src/decoder`, rest of `IA64ISAPlugin.cpp` | registers, bundles | instruction semantics | memory, interrupt unit |
| Memory, MMU | `src/memory`, `src/mmu` | bytes, page table, watchpoints | read, write, translate, watch | devices; watchpoint callbacks pause the machine |
| Devices | `src/io` | interrupt FIFO, timer counters, console lines, framebuffer | Tick, RaiseInterrupt, MMIO | deliver to the active CPU, to the CPU an inter-processor interrupt names, wake waiting CPUs |
| IA-64 address translation | `src/core/ia64_address_translation.cpp`, `src/core/cpu.cpp` | data TLB, translation registers, region registers | translate, itr, itc, ptc.l, mov to rr | walks page tables in memory; raises the faults of interruption entry |
| VMManager | `src/vm/VMManager.cpp` | per machine: metadata, storage; snapshots | create, delete, start, stop, pause, resume, reset, terminate, run, step, snapshot, restore | calls VirtualMachine; keeps a second copy of its state; called by the GUI's control thread and its execution loops |
| VMSnapshotManager, VMCheckpoint | `src/vm` | full and delta snapshots; files | create, resolve, restore, delete, write and read a checkpoint | reads and overwrites VirtualMachine |
| KernelPanic, BootTrace, ACPI/SAL tables | `src/vm` | records | capture, format | VirtualMachine |
| REST server, control API, web UI, DLL | `src/api`, `src/webui` | sockets, threads | start, stop, handle a client | a thread for each client reads the consoles of VMManager; the control operations are stubs |
| Loaders, storage, ABI, syscalls, libc | `src/loader`, `src/storage`, `src/abi`, `src/syscall`, `src/libc` | images, mounts | parse, mount, read | Memory, VMManager |
| Other ISAs, profiler, fuzzer, GUI, web front end | | | | |

What is hard here is not in any one function. `halt()` may come from a signal
handler in the middle of a run, and `stepCPU()` overwrites what it wrote; CPUs
are halted, parked and woken between two selections of the scheduler; the
debugger pauses, rewinds and resumes from every point; snapshots that callers keep
are put back in any state, and each way of restoring leaves something else of the
machine as it is; an error in one CPU ends
a call that is stepping several; interrupts arrive between the entry of a
handler and its read of CR.IVR; 64-bit timer counters wrap around; interruptions
nest. VMManager keeps its own idea of the machine's state, and the GUI's
execution loops run machines outside the lock that orders its other calls. A
timer's callback may set the timer up anew in the middle of the tick that called
it. Deltas are taken of deltas, ancestors are deleted under them, and a
checkpoint is written over the last one in place. The page tables are walked
through the very TLB the walk fills.

What makes each part correct:

* VirtualMachine: a halted run stops; an error ends every call and is hidden by
  nothing but a rewind or a restore; rewinding goes back in time and keeps the CPUs
  consistent.
* Scheduler: every runnable CPU gets its turn.
* Boot state machine: only legal transitions, recorded in order.
* Interrupt unit: no request lost, invented or reported twice; the timer fires
  exactly once for each arming.
* Interruptions: a program cannot tell that it was interrupted.
* VMManager: it keeps the life cycle it promises; a stop takes effect; an error
  of the machine is not hidden for ever; a snapshot's identifier names one snapshot.
* Devices: no interrupt is lost, doubled or slept on between a device and a CPU;
  a periodic timer keeps firing.
* Snapshots: memory and registers that are restored are of one moment; a snapshot
  is what was taken, as far as its kind goes, or nothing.
* Address translation: no stale or duplicate translation is used by a guest that
  purges what it changes.

## 2. Modules

| module | what it is |
|---|---|
| `BootGraph` | the boot states and the transition graph, constant level |
| `VirtualMachine` | VirtualMachine, the scheduler, the debugger and the MMU's hooks; extends `BootGraph` |
| `IA64ExternalInterrupts` | the interrupt unit and interval timer of one CPU |
| `IA64Interruption` | entry and return of interruptions on one CPU |
| `DeviceInterrupts` | timer, interrupt controller and processor interrupt block, down to the CPUs' lists of pending interrupts |
| `IA64AddressTranslation` | data translation of one CPU: TLB, registers, VHPT walk |
| `MachineSnapshots` | the four ways a machine's state is kept and put back; implements `SnapshotStore` |
| `InterruptRequests` | abstract: what an interrupt unit promises; `IA64ExternalInterrupts` implements it |
| `InterruptedCode` | abstract: what interruptions promise to the code they interrupt; `IA64Interruption` implements it |
| `SnapshotStore` | abstract: what keeping a machine's state promises, whichever way it is kept |
| `VMLifecycle` | abstract: what a manager of machines promises of each |
| `MachineLife` | abstract: what a machine promises its callers; `VirtualMachine` implements it, and `VMManager` does for each of its machines |
| `VMManager` | VMManager and the GUI's threads; implements `VMLifecycle` |
| `MC...` | constants for TLC |
| `IntegerSetLemmas` | least and greatest elements of finite sets of integers |
| `...Proofs` | type correctness, safety and refinement of the module they are named for |

How they fit together: `VMManager` sees of a machine what `VirtualMachine` has in
full, its state and whether a CPU can run; that both keep the promise of
`MachineLife` is what allows the one to stand for the other. `DeviceInterrupts` is what
`VirtualMachine` abstracts to "an instruction may wake a CPU", and ends where
`IA64ExternalInterrupts` begins, at `QueueInterrupt`. `IA64ExternalInterrupts`
decides when an interrupt is taken, `IA64AddressTranslation` when a fault is, and
`IA64Interruption` is what both do to the interrupted code. They are kept apart
because their products are out of TLC's reach and because each hands the next
one no more than one event.

### VirtualMachine

One thread calls the API. An execution call is cut where `halt()` can come in:
`pc` is `loop` at the head of `run()`'s loop, `select` before `step()` asks the
scheduler, `exec` before `stepCPU()`, `post` after the instruction and the timer
tick but before `stepCPU()` looks at `state_` again. `op` says which call it is,
`sel` the CPU, `left` the budget. `Halt` is enabled in between whenever the
machine is RUNNING. The code of `stepCPU()` up to the end of the instruction is one step:
a `halt()` inside it writes only `state_` and CPU states, which the rest of it
does not read, so it has the effect of one just after.

The guest is nondeterministic: an instruction moves to any bundle, may touch a
watched range when the MMU holds a hook, may wake waiting CPUs (at most one
through the processor interrupt block, and the active one by its timer
interrupt), halts, or fails. Memory contents are left out: no property tells
them apart. Snapshots keep the fields that decide control. Whether the
condition of a conditional breakpoint holds is chosen each time (`Conditional`).

What is put back is either the last entry of the history (`RewindToLastSnapshot`) or
something a caller kept: a debugger's snapshot (`RestoreSnapshot`), a full snapshot or
a resolved delta (`RestoreVMSnapshot`, which `restoreFromSnapshot()` and
`restoreVMSnapshot()` come to) or a checkpoint file of a machine of one CPU
(`ReadDiagnosticCheckpoint`). `Snapshots` and `Checkpoints` are what callers have
kept, of this machine or of one like it: the calls do not ask. All of these write the
machine's state and cycle count. Only the checkpoint writes the boot state machine,
and none of them the history. Hence two ghosts. `undone`: a restore or rewind has
left a boot state machine in KERNEL_PANIC beside a machine that is not in ERROR,
which ends with the next panic, `init()` or `reset()`. `jumped`: a restore has gone
back to before an entry of the history, so that the next rewind may go forward, until
the history is used up. `PanicIsError` and `HistoryOrdered` say that these are the
only ways in which either goes wrong.

`EnableCPU`, `ParkCPU` and `AdvanceBoot` are what an embedder does through the
references the machine hands out (`getCPUContext`, `getBootStateMachine`); the
first two are how a second CPU ever runs and how a CPU gets to WAITING. They are
made only between execution calls.

`waited` and `sinceHalt` are ghosts that only count. After `reset()` the boot state
machine is at POWER_ON, from which `init()` refuses to power on: a machine that was
reset is not initialised again, although `tests/test_vm_reset.cpp:263-264` expects
it (`Reset` and the guard of `InitVM`).

`MachineLife` is the machine as its callers see it: `getState()`, whether the
scheduler would find a CPU (`Ready`), and where in a call each caller is (`Place`:
outside, in `run()` between two instructions or at one, in a stepping call). It has
no CPUs, boot states or debugger. It promises that only `init()`, `reset()`, a
rewind and a restore lead out of CREATED and ERROR, that no call is accepted there, that a run
begins an instruction only in a running machine that is ready, that `halt()` leaves
a machine that is not ready and that nothing makes it ready again but an instruction
that wakes a CPU (or a reset, a rewind or restore, or the embedder between calls), and that `run()` never
returns from a machine that says RUNNING. What `stepCPU()` does to a `halt()` is in it: the state is
overwritten (`Finish`), readiness is not.

### IA64ExternalInterrupts

`IA64ISAPlugin::step()` followed by `advanceITC()` is three steps: `service`,
`execute`, `tick`. `QueueInterrupt` may happen between any two. The pending list
is a bag, because nothing observes its order. Instructions are those that touch
the unit; all others are `OtherInstruction`. The guest's handler reads CR.IVR
once for each interrupt it takes and writes CR.EOI after that: this is an
assumption on the guest, and the code does lose a request without it (a second
read of CR.IVR while in service removes another request of the same vector; an
EOI without a read has the same request delivered again).

`InterruptRequests` has neither timer nor masks nor phases: requests are owed, a
handler is entered for the highest and told of it once. The list of pending
interrupts, the vector latched and whether it has been read are its state.

### IA64Interruption

The register stack is abstracted to *whose* values GR32 and up hold: the depth of
the code that owns them. `frames` is `interruptFrameStack_`. A handler that lets
itself be interrupted saves CR.IIP and CR.IPSR and puts them back, as the
architecture requires of it. `FaultsInHandlers` says whether the external
interrupt handler may take a TLB fault.

`InterruptedCode` knows no registers, frames or handlers: it has the code of each
depth, and interruptions put one code aside and take up the last. The mapping
(`Code`) is what the CPU holds for the code that runs, and for the others what they
had when they were interrupted, but at the first slot of their bundle, where the
code in fact resumes them.

### DeviceInterrupts

`stepCPU()` and the tick after the instruction are cut where other code is
called. `at` is `ticks` before `VirtualTimer::Tick`, `callback` before the timer's
own callback in `Raise()`, `deliver` before the interrupt controller is told; the
loop in `Tick` goes round through the three. The owner's calls (raising by hand,
connecting and clearing the callback, draining the queue, restoring the machine,
activating another CPU, parking one) come between two calls of
`stepCPU()`; the guest's (the timer's registers, LIDs, inter-processor
interrupts, taking an interrupt, halting) are instructions. A CPU's list counts
its requests for each vector. `owing` is a ghost that counts what was raised and
not yet taken; `restored` says that the queue was put there by a snapshot.

`Machines` are the snapshots the owner keeps. A debugger's snapshot and a rewind put
back the CPUs, with their execution states and LIDs, and no device
(`RestoreSnapshot`); a full snapshot puts back timer and queue too
(`RestoreVMSnapshot`). Neither holds the lists of pending interrupts, which are the
plugins'. So a CPU that waited when the snapshot was taken, with an empty list, may
wait again beside the requests that came since: these CPUs are in the ghost
`resting` until something is sent to them, and `NoSleepOnInterrupt` is about all
others. Only the checkpoint puts the list back, with everything else; it is for
machines of one CPU and left out here.

What the model shows beside its properties: vectors up to 15 are dropped by
`IA64ISAPlugin::queueInterrupt()` although the interrupt block accepts 0 and 2 and
wakes the CPU for them (`Listed`); after a reset every CPU's LID is 0, so that
an inter-processor interrupt to 0 goes to the first CPU; a one-shot that its own
callback arms again is switched off by the tick that called it.

### IA64AddressTranslation

A virtual address is its page; a TLB entry holds its context, page, size and PTE.
`Outcome` is `TranslateDataAddress()`: registers before the TLB, the TLB before
the walk, the walk through the translation of the VHPT's own page, and the fault
in the order the code looks for them. `readable` says whether the page table entry
can be read at all, and a walk that cannot read it ends in a nested TLB miss.
`WalkFinds` is the access whose walk
succeeds and inserts; the other accesses change nothing, or clear `ic` by
faulting (`AccessFaults`). `tables` is what the guest has written, `stale` the
pages it changed and has not purged. The guest is assumed to insert what its
table says and not to move a table. Insertions purge nothing, so entries of
different sizes may overlap, and the lookup takes the first: `HitAgreesWithWalk`
is about entries that begin at the page looked up.

### MachineSnapshots

The machine's state is divided into the parts that some of the four ways keep and
others do not; the value of a part is the moment of its last change. The four are a
full snapshot of VMSnapshotManager, a delta against its resolved parent, the snapshot
a caller holds, and a checkpoint file, which survives `Crash` and is torn by one
in the middle of its writing. `Resolution` is what each identifier resolves to, a
recursive function along the parents.

Which way keeps what is in the operators, as the code has it. Full snapshots have
no field for the halted flags (`Fieldless`) and hold defaults for the devices and the
cycles, which their manager cannot see (`Unseen`). The plugin's slot and decoded
bundle, the boot state and the pending interrupts are in the checkpoint only
(`Recorded` is the rest), and a checkpoint is refused in the middle of a bundle. The
plugin's stack of interrupted frames is in none of the four and left out. Deltas
compare `DeltaParts` as they are; application, floating-point, control and translation
registers, enabled flags and NaT bits are not in them, and a delta that writes general
registers takes their NaT bits away. The rotating predicates are parts of their own,
by physical number: `ComputeDelta` compares them by logical number, each snapshot's
under its own CFM, and `Written` puts them back by logical number under the CFM of
the base, before that of the delta is set. A delta across a rotation therefore
restores other predicates than were taken, which `PredicatesAsTaken` shows.
`ResolvesToTaken` says what does come back: memory, the values of general and branch
registers, IP, PSR, CFM and the quantum of every snapshot, the predicates too unless
the delta changes CFM, and everything else of the registers for full snapshots.

`GenerateSnapshotId` is fresh. The code makes an identifier of the system's time and a
counter that only unnamed snapshots advance and `clear()` sets back, so that freshness
rests on the clock moving between two snapshots; the model takes it that it does.

`SnapshotStore` has whole states only, of the parts that every way keeps as they are
(memory, registers, quantum): the present, the snapshots by identifier, what a caller holds
and what outlives the process. Under the mapping a snapshot is in the store as long
as it resolves, so that deleting one in the middle of a chain loses every snapshot
above it and changes none; an unfinished checkpoint is no checkpoint.

### VMManager and VMLifecycle

The model has one control thread, which makes every call but `runVM()`: the GUI's
wrapper makes create, start and stop under its lock. Its pause, reset, delete and
snapshot calls are stubs so far; pause, reset and delete are exported by the DLL, the
others are for whoever embeds VMManager, and the model takes it that one thread makes
them all. For each started machine a loop calls `runVM()` in batches until its token
is cancelled. A loop is at `test`, `call` (about to call), `admitted` (past the
check of the metadata), `inside` (`run()` has set the machine RUNNING) and `after`
(before the bookkeeping). `startVM()` and `stopVM()` are cut in two, because the
boot loading in the one and the cancelling before the other leave time for a loop;
the remaining calls are one step each. That is coarser than the code in one respect:
`pauseVM()`, `resetVM()` and `snapshotVM()` write the machine and the metadata one
after the other, and the error of a loop's batch (`setError`) could fall between the two
writes. `restoreSnapshot()` of the manager resets the machine and restores the
metadata; it puts no machine state back. `deleteVM()` frees the machine, so the model
takes it that no loop is inside: the wrapper's order (stop, then delete) makes this
likely and nothing enforces it.

`VMLifecycle` has only phases, the start or stop in progress, and the machines each
runner has been let into. The refinement mapping (`Lifecycle` in `VMManager`) takes
the phase from the metadata, the call in progress from `control`, and admission
from where the loops are. That a runner is let in only while the machine is running,
that a pause needs a running machine and a resume a paused one, and that an error
may be reported in the middle of a start, which has the last word, are promises of
the abstract specification.

The machines themselves are one record each, `state` and `ready`. `MachinesLive` is
`MachineLife` again, for each machine, with the loops as its callers (`Callers`) and
`Coarse` TRUE: a batch of instructions is one step of this model, and its effect
must be one that `MachineLife` allows a batch. In `VirtualMachine` one thread calls
and `halt()` comes in between; here two loops may be inside the same machine, which
the control thread halts, resets and steps at the same time. What the promise still
gives is the guard of every step; what it cannot give is that a halt is the end of
a run, because the other loop may just be entering: `StopTakesEffect` is about that.
The coarse batch assumes that two loops inside one machine do not interleave within
a batch: the wrapper does not exclude it, and the code, which locks nothing, would
have a data race there.

## 3. Runs

| run | cfg | checks | bounds |
|---|---|---|---|
| `vm_smp` | `MCVirtualMachine_smp` | `TypeOK`, `BoundedWaiting`, `HaltStopsRun`, `HaltEndsRun`, `ErrorStopsExecution`, `PanicIsError`, `ImplementsMachineLife` | 3 CPUs, the last can be parked; budgets of 2 and unlimited; no debugger, 2 kept snapshots |
| `vm_debug` | `MCVirtualMachine_debug` | `HaltedAgree`, `HistoryOrdered` | 1 CPU, 1 address with a conditional breakpoint, history of 2, 3 cycles, 1 hook, 2 kept snapshots, 1 checkpoint |
| `ext_interrupts` | `MCIA64ExternalInterrupts` | `TypeOK`, `NoRequestLost`, `InServiceBacked`, `TimerFiresOncePerITM`, `TimerEventuallyFires`, `ImplementsRequests` | 2 vectors of two priority classes, counters modulo 4, 1 request of a device on each vector, 2 writes of ITM, 1 of ITC |
| `interruption_paired` | `MCIA64Interruption_paired` | `TypeOK`, `FramesPaired`, `RfiRestoresFrame`, `ImplementsInterruptedCode` | 2 bundles, nesting of 3 |
| `vm_manager` | `MCVMManager` | `TypeOK`, `SettledBetweenCalls`, `ImplementsLifecycle`, `MachinesLive`, `IdentifiersNameOneSnapshot`, `StopTakesEffect`, `ErrorReachesMetadata` | 1 machine, 2 loops, 2 snapshots |
| `device_interrupts` | `MCDeviceInterrupts` | `TypeOK`, `NoSleepOnInterrupt`, `NoneLostOrDoubled`, `QueuedOnlyUnconnected`, `TimerKeepsFiring` | 2 CPUs, vectors 2, 32 and 33, intervals 1 and 2, ticks of up to 2, 1 request pending, 2 kept snapshots |
| `machine_snapshots` | `MCMachineSnapshots` | `TypeOK`, `MemoryFitsRegisters`, `ResolvesToTaken`, `GivesWhatItGave`, `ImplementsStore` | 1 CPU, 2 rotating predicates, 2 kinds of batch, 3 moments, 3 captures |
| `address_translation` | `MCIA64AddressTranslation` | `TypeOK`, `NoTwins`, `Coherent`, `HitAgreesWithWalk` | 2 contexts, 3 pages, sizes 1 and 2, TLB of 2, 1 register, 1 page not purged |
| `vm_hooks` | `MCVirtualMachine_hooks` | `NoStaleHooks`, violated | as `vm_debug` |
| `rfi_frame` | `MCIA64Interruption_frame` | `RfiRestoresFrame`, violated | as above, faults in handlers |
| `rfi_slot` | `MCIA64Interruption_slot` | `RfiResumesSlot`, violated | as `interruption_paired` |
| `delta_predicates` | `MCMachineSnapshots_predicates` | `PredicatesAsTaken`, violated | as `machine_snapshots` |

Why the bounds are enough. Three CPUs are the least at which a round can pass
over one CPU while two others execute, and at which the search wraps around past
a CPU that does not run. A history of two is the least that is trimmed and still
has an order; three cycles fill it, trim it and let a rewind go back and on
again. The debugger's run has one CPU: its two properties relate the machine
to its own past, CPU by CPU, and the theorems cover any number. `MCEarlyBoot`
keeps that run to the boot states up to FIRMWARE_INIT and BOOT_FAILED: how far
the guest has booted has no part in its properties. One address suffices where the
condition of its breakpoint may hold or not: an address without a breakpoint is one
whose condition never holds. The snapshots kept for these runs are those that differ
most from the machine they are put into: taken in the midst of a run with a CPU
waiting, after a panic, of a CPU that has executed HALT, and at cycle counts before,
among and after those of the history. Two vectors give a request
of higher priority during a handler and a timer that shares its vector with a
device; a modulus of four has every distance the signed compare tells apart.
Three levels of interruption hold a fault inside an interrupt inside a program
that is itself a handler.

Two loops are the most the wrapper can have on one machine without a second stop
in between: the cancelled one and the new one. Machines share nothing but the
snapshot counter and the identifiers, for which the proofs, which have any number
of machines, stand. Two snapshots give one that is deleted and one taken after it.
Two CPUs are the least that can share a LID, wake one another and take turns at
being active; of the vectors one is dropped by the CPU, one is the timer's and one
is a device's; a tick of 2 with an interval of 1 goes round the loop twice; of the kept
machines each has another CPU waiting, one has the timer running and the other every
vector in its queue. Two predicates are the least that a rotation exchanges; one kind
of batch writes a predicate and ends in the middle of a bundle, the other rotates and
ends at a boundary. Three
captures hold a full snapshot, a delta of it and a delta of that one, or a new
snapshot after a deletion; three moments give each of them a state of its own, and a
restore a part that turns back to what it was. A TLB of two replaces after
the second insertion; two sizes give an entry that covers two pages; a third page
holds the table. The two contexts are symmetric: nothing in the specification
tells them apart, and the run checks no liveness.

Bounds that are not in the code: `MaxSnapshots`, `MaxTime`, `MaxCaptures`,
`MaxPending`, `MaxUnpurged`, `MaxCycles` (the count saturates; with a
debugger attached execution stops there), `MaxHooks`, `MaxRaised`, `MaxArmed`,
`MaxAdjusted`, `MaxDepth`, and the addresses.

Fairness. `VirtualMachine` has weak fairness of `Execute`: the calling thread
finishes the call it is in; nobody has to call anything. `IA64ExternalInterrupts`
has weak fairness of `Step`: the run loop keeps stepping the CPU. `DeviceInterrupts`
has weak fairness of `Step` for the same reason, and `TimerKeepsFiring` is stated for
a timer that nobody sets up anew and a machine one of whose CPUs stays running, and
whose CPUs are not halted and brought back by a restore for ever: such a machine
executes only instructions that halt, for which the timer does not tick.
`VMManager` has weak fairness of each loop's steps and of the second half of a start
or stop: threads are scheduled, and run() of a batch is bounded; nobody has to make a
call. Neither devices nor the guest's choice of instructions are fair.

### What the violated properties show

1. `NoStaleHooks`: the VM unregisters watchpoints by its own ids, the MMU has
   others; cleared memory breakpoints stay armed in the MMU.
2. `RfiRestoresFrame`: with a TLB fault inside an external interrupt handler the
   frame of the interrupt is popped by the fault's rfi.
3. `RfiResumesSlot`: an interruption in the middle of a bundle returns to its
   first slot.
4. `PredicatesAsTaken`: a delta taken after the predicates were rotated is restored
   with predicates exchanged, against `docs/VM_SNAPSHOT_IMPLEMENTATION.md`, which has
   the machine "exactly as it was". What deltas leave out altogether (NaT bits,
   application and floating-point registers) the model says in `DeltaParts`.

## 4. Proofs

For all values of the constants that satisfy the modules' assumptions (which say
no more than that counts are numbers, sets hold values of the right type, the value
for "no snapshot" is no snapshot, a kept snapshot is one of some machine, different
predicates have different names, and a page that holds the table begins there at
every size):

| theorem | module | property |
|---|---|---|
| `TypeCorrect` | `VirtualMachineProofs` | `TypeOK` |
| `RoundRobinIsFair` | `VirtualMachineProofs` | `BoundedWaiting` |
| `HaltStops` | `VirtualMachineProofs` | `HaltStopsRun` |
| `ErrorStops`, `PanicKeepsError` | `VirtualMachineProofs` | `ErrorStopsExecution`, `PanicIsError` |
| `RunReturns` | `VirtualMachineProofs` | `RunReturnsStopped`, a part of the next |
| `LivesAsPromised` | `VirtualMachineProofs` | `ImplementsMachineLife` |
| `RewindGoesBack`, `HaltedStaysHalted` | `VirtualMachineProofs` | `HistoryOrdered`, `HaltedAgree` |
| `TypeCorrect` | `IA64ExternalInterruptsProofs` | `TypeOK` |
| `RequestsAreNotLost`, `InServiceIsBacked`, `OneInterruptPerITM` | `IA64ExternalInterruptsProofs` | `NoRequestLost`, `InServiceBacked`, `TimerFiresOncePerITM` |
| `ImplementsInterruptRequests` | `IA64ExternalInterruptsProofs` | `ImplementsRequests` |
| `TypeCorrect`, `FramesArePaired` | `IA64InterruptionProofs` | `TypeOK`, `FramesPaired` |
| `RfiRestores`, `InterruptedCodeIsSafe` | `IA64InterruptionProofs` | `RfiRestoresFrame`, `ImplementsInterruptedCode`, unless handlers of external interrupts take TLB faults |
| `TypeCorrect`, `Settled`, `IdentifiersAreFresh` | `VMManagerProofs` | `TypeOK`, `SettledBetweenCalls`, `IdentifiersNameOneSnapshot` |
| `Refinement` | `VMManagerProofs` | `ImplementsLifecycle` |
| `MachinesLiveAsPromised`, `EachMachineImplementsItsLife` | `VMManagerProofs` | `MachinesLive`, for all machines together and for each as a refinement |
| `TypeCorrect`, `NobodySleeps`, `NothingKeptBack` | `DeviceInterruptsProofs` | `TypeOK`, `NoSleepOnInterrupt`, `QueuedOnlyUnconnected` |
| `NothingLost` | `DeviceInterruptsProofs` | `NoneLostOrDoubled` |
| `TypeCorrect`, `MemoryFitsAlways`, `SnapshotsAreTrue` | `MachineSnapshotsProofs` | `TypeOK`, `MemoryFitsRegisters`, `ResolvesToTaken` |
| `SnapshotsLast`, `ImplementsSnapshotStore` | `MachineSnapshotsProofs` | `GivesWhatItGave`, `ImplementsStore` |
| `TypeCorrect`, `TwinFreedom`, `Coherence`, `HitsAgree` | `IA64AddressTranslationProofs` | `TypeOK`, `NoTwins`, `Coherent`, `HitAgreesWithWalk` |

The arguments:

* **Types.** `TypeOK` is not inductive: the VM numbers its breakpoints as it
  registers hooks, so `CountersOK` (the next id is at most one past the number of
  hooks) goes with it. The scheduler's answer is a CPU or none because a set of
  CPU indices has a least element.
* **Waiting.** `WaitInv`: the instructions a runnable CPU has waited plus its
  *distance* (how many CPUs lie between it and the last one executed, going
  round) stay below the number of CPUs. The scheduler takes the runnable CPU of
  least distance (`SelectsNearest`), and every instruction brings the others one
  nearer or more. While a call is in `exec`, the selected CPU is still the nearest, because
  nothing but an instruction wakes a CPU.
* **Halting.** `HaltInv`: after `halt()` in a run with no CPU waiting, no CPU is
  RUNNING or WAITING, so nothing can be selected or woken; at most the
  instruction already selected is executed, after which the run is not in `exec`
  again.
* **Errors.** `ErrorInv` is the two properties together. The calls between
  executions leave KERNEL_PANIC and ERROR together (`CallsKeepPanic`), a rewind or
  restore that parts them says so in `undone` (`RestoresSaySo`), and a fault, which
  may come after one, brings them together again.
* **History.** A snapshot is taken only when the cycle count differs from the
  last snapshot's, which by the invariant is not later than the present; hence it
  is earlier. A restore leaves the history as it is, and the present later than all of
  it unless `jumped` says otherwise (`RestoreHistory`). `HaltedInv` asks the
  agreement of every snapshot too.
* **Life of a machine.** Calls between runs, starts, turns of `run()` and
  instructions are a lemma each (`CallsLive`, `StartsLive`, `TurnsLive`,
  `InstructionsLive`). What is not local is that an instruction begins only in a
  running machine: between the head of the loop and the selection a `halt()` may have
  come, and then the scheduler finds nobody (`SelectInv`, with `ReadySelects`: it finds
  a CPU exactly if there is one).
* **Interrupts.** `IInv` joins the counting of requests, the backing of the
  vector in service, and the count of firings against armings. For the refinement:
  CR.TPR masks whole classes from below, so the highest vector it lets through is the
  highest of all (`HighestOfAll`), and between handlers no vector is latched
  (`ServiceAgrees`).
* **Frames.** An rfi pops a frame without asking what it returns from, so the frames
  match the interrupts under way only if no fault lies above an interrupt. That is what
  `FaultsAreOutermost` says: a fault's handler is entered from the program, and
  nothing is entered from it. `FramesByDepth` says which depth each frame is of
  otherwise. Both hold unless `FaultsInHandlers`. That an rfi goes back to the right
  bundle (`AddressesKept`) holds always, and with them makes an rfi the abstract
  taking up of the code below.
* **Manager.** `SettledBetweenCalls` alone is not inductive: a call in progress must be
  about a machine that is there (`ControlSane`), and so must every loop inside `run()`
  (`RunnersHaveMachines`). Identifiers are fresh because every one named anywhere, in
  metadata or in those that snapshots keep, is below the counter (`IdentifiersGiven`).
* **Refinement.** Initial states map to initial states; each action of `VMManager`
  maps to one action of `VMLifecycle` or to a stutter, one lemma for each.
  `RunnersHaveMachines` is what makes a deletion or a loop's bookkeeping an abstract
  step.
* **Lives of the manager's machines.** What a control call may do to a machine is
  named once (`Touched`), what a loop may do in `LoopTouches`; each of these is a step
  of the machine's life, and a stutter in the lives of the others. That a machine is
  born as promised needs that nothing touches one before it is created (`UnbornFresh`),
  that a loop is inside one that exists `RunnersHaveMachines`.
* **Devices.** `TimeIsShort` says how much time the timer has counted at each point of
  the tick; without it a one-shot or a new interval could leave more than an
  interval, which `TypeOK` excludes. Each step is split into what it does to the
  timer, to the queues and to the set-up. What a restore puts back is in order by
  itself: the queue holds each vector as often as it is owed (`QueueRestored`), and the
  CPUs that sleep on an interrupt are the ones that rest (`CPUsRestored`). `NothingLost` is about a sum over the CPUs,
  whose definition is recursive over sets: that the sum exists and that it changes as
  the one list does that a step touches is shown by taking a smallest set of CPUs for
  which it would not (`SumsExist`, `OneMore`). A step touches one list because of the
  CPUs that share a LID the first is sent the interrupt (`OneAddressed`).
* **Snapshots.** `SnapshotInv` has three parts: the manager's records and what they
  resolve to, what is kept outside it, and the machine. That resolution is defined for
  every identifier follows from parents being older than what was taken of them, by
  taking the least identifier for which it would not be (`ResolutionExists`). A
  deletion can only take resolutions away (`ResolutionShrinks`), and a new identifier
  changes none there was (`ResolutionGrows`): so a snapshot gives what it gave. A
  delta of one record against another, applied to it, gives the parts it compares, and
  the predicates if CFM is the same in both (`DeltaOfRecord`): a predicate is then
  written under the name it was read by, and one that is not written has not changed.
  Values of registers and memory come from one moment because every way keeps either
  both or neither.
* **Translation.** Coherence needs that every register and entry begins at a multiple
  of its size (`Aligned`), and that whatever translates the page of the table leads to
  the table of its own context (`Rooted`): otherwise a walk under one context would
  read the table of another and cache what it found.

Every invariant and every safety and refinement property of the passing runs is a
theorem. Only model-checked are the liveness properties (`HaltEndsRun`,
`TimerEventuallyFires`, `StopTakesEffect`, `ErrorReachesMetadata`, `TimerKeepsFiring`),
which are out of the prover's reach, and the four violated properties, which are
refuted by one behaviour each. Induction over data is out of its reach too; where a
recursive definition is needed, least counterexamples take its place, as above.

## 5. Not modelled

* **Instruction semantics, decoders, EFI and PAL stubs** (`src/isa`, `src/decoder`,
  most of the code): they compute data on one CPU. What of them has a state of its own
  that others act on is modelled: interrupts, interruption, translation. Left for
  later: the EFI memory map, whose allocations and key outlive a call.
* **Parsers and loaders** of binaries, file systems and disk images, firmware tables,
  argument marshalling, formatting and user interfaces: transformations of data without
  state that outlives a call, better served by tests.
* **Boot state machine**: conditions, callbacks, history and time. Only its example
  and tests use them; the graph and the machine's transitions are modelled.
* **State that is put back without its surroundings**: `IA64ISAPlugin::setState()`,
  which nothing calls, and `CPU::restoreSnapshot()` are not actions of
  `IA64ExternalInterrupts` and `IA64Interruption`. The second writes control and
  application registers and leaves the plugin's pending list, in-service latch, timer
  latch and frames as they are, so what those two modules show is of a CPU between
  two restores. Which interrupts are then slept on is in `DeviceInterrupts`, and what is
  put back of the registers in `MachineSnapshots`. The plugin's slot and decoded bundle,
  which no snapshot but the checkpoint holds, are the part `slot` there.
* **Console buffer**: every operation holds its mutex.
* **Memory and MMU**: bytes, and the page table, which is one to one.
* **REST and web servers**: parsing; their control operations do not reach VMManager.
* **VMManager**: configuration and storage attachment, what the loaders in `startVM()`
  read, and `stopAllVMs()`, which is `stopVM()` of each.
* **Translation**: instruction side (the same arrays without a walk), physical mode,
  privilege levels (abstracted into an entry's rights).
* **Devices**: framebuffer, statistics, the controller's named sources.

If the project is taken further: the EFI memory map (allocation and release of ranges,
the key that `ExitBootServices` checks); the console buffer's readers; and the batches
of two loops inside one machine cut where `halt()` can come in, as `VirtualMachine` has
them, in place of `MachineLife`'s coarse form.
