-------------------------- MODULE MCVirtualMachine --------------------------
(***************************************************************************)
(* Instances of VirtualMachine for TLC.                                    *)
(*   MCVirtualMachine_smp.cfg    three CPUs, no debugger: scheduling and   *)
(*                               halt() against every execution call       *)
(*   MCVirtualMachine_debug.cfg  one CPU and a debugger                    *)
(***************************************************************************)
EXTENDS VirtualMachine

MCNone == {}
MCLastCPU == {2}
MCBudgets == {2}
\* A breakpoint with a condition stops its CPU or lets it pass, as one without
\* or none would.
MCOnlyAddr == {0}

\* The debugger's properties do not depend on how far the guest has booted:
\* enough boot states for reset(), for init(), and for the way from a failed
\* boot back to POWERED_OFF, where a second init() is accepted.
MCEarlyBoot == boot \in {"POWERED_OFF", "POWER_ON", "FIRMWARE_INIT", "BOOT_FAILED"}

\* A machine in state s with its last CPU in state c and the others running.
MCHeld(s, c, n) ==
  [vmState |-> s, active |-> NumCPU - 1, cycles |-> n,
   cpuState |-> [d \in CPU |-> IF d = NumCPU - 1 THEN c ELSE "RUNNING"],
   enabled |-> [d \in CPU |-> TRUE],
   halted |-> [d \in CPU |-> d = NumCPU - 1 /\ c = "HALTED"],
   ip |-> [d \in CPU |-> 0]]

\* Snapshots taken in the midst of a run, after a panic, and of a CPU that has
\* executed HALT.
MCRunSnapshots == {MCHeld("RUNNING", "WAITING", 0), MCHeld("ERROR", "RUNNING", 0)}
MCDebugSnapshots == {MCHeld("PAUSED", "RUNNING", 1), MCHeld("STOPPED", "HALTED", 2)}

MCCheckpoints ==
  {[vmState |-> "STOPPED", active |-> 0, cycles |-> 1,
    cpuState |-> [d \in CPU |-> "HALTED"], enabled |-> [d \in CPU |-> TRUE],
    halted |-> [d \in CPU |-> TRUE], ip |-> [d \in CPU |-> 0],
    boot |-> "FIRMWARE_INIT", last |-> 0]}
=============================================================================
