----------------------------- MODULE BootGraph -----------------------------
(***************************************************************************)
(* The boot states of a virtual machine and the fixed graph of legal       *)
(* transitions between them (VMBootStateMachine::initializeTransitionGraph)*)
(* A constant-level module: the state machine itself, and the virtual      *)
(* machine that drives it, extend it.                                      *)
(***************************************************************************)

ErrorBootState == {"BOOT_FAILED", "KERNEL_PANIC", "EMERGENCY_HALT"}

ShutdownBootState == {"SHUTDOWN_INIT", "STOPPING_SERVICES", "KERNEL_SHUTDOWN",
                      "FIRMWARE_SHUTDOWN", "POWER_OFF"}

BootState ==
  {"POWERED_OFF", "POWER_ON", "FIRMWARE_INIT", "BOOTLOADER_EXEC",
   "KERNEL_LOAD", "KERNEL_ENTRY", "KERNEL_INIT", "INIT_PROCESS",
   "USERSPACE_RUNNING"} \cup ShutdownBootState \cup ErrorBootState

\* The targets the graph lists for each state.
BootSuccessors(s) ==
  CASE s = "POWERED_OFF"       -> {"POWER_ON"}
    [] s = "POWER_ON"          -> {"FIRMWARE_INIT", "BOOT_FAILED", "EMERGENCY_HALT"}
    [] s = "FIRMWARE_INIT"     -> {"BOOTLOADER_EXEC", "BOOT_FAILED", "EMERGENCY_HALT"}
    [] s = "BOOTLOADER_EXEC"   -> {"KERNEL_LOAD", "BOOT_FAILED", "EMERGENCY_HALT"}
    [] s = "KERNEL_LOAD"       -> {"KERNEL_ENTRY", "BOOT_FAILED", "EMERGENCY_HALT"}
    [] s = "KERNEL_ENTRY"      -> {"KERNEL_INIT", "KERNEL_PANIC", "EMERGENCY_HALT"}
    [] s = "KERNEL_INIT"       -> {"INIT_PROCESS", "KERNEL_PANIC", "EMERGENCY_HALT"}
    [] s = "INIT_PROCESS"      -> {"USERSPACE_RUNNING", "KERNEL_PANIC", "EMERGENCY_HALT"}
    [] s = "USERSPACE_RUNNING" -> {"SHUTDOWN_INIT", "KERNEL_PANIC", "EMERGENCY_HALT"}
    [] s = "SHUTDOWN_INIT"     -> {"STOPPING_SERVICES", "EMERGENCY_HALT"}
    [] s = "STOPPING_SERVICES" -> {"KERNEL_SHUTDOWN", "EMERGENCY_HALT"}
    [] s = "KERNEL_SHUTDOWN"   -> {"FIRMWARE_SHUTDOWN", "EMERGENCY_HALT"}
    [] s = "FIRMWARE_SHUTDOWN" -> {"POWER_OFF"}
    [] s = "POWER_OFF"         -> {"POWERED_OFF"}
    [] s = "BOOT_FAILED"       -> {"POWER_OFF", "POWERED_OFF"}
    [] s = "KERNEL_PANIC"      -> {"EMERGENCY_HALT", "POWER_OFF"}
    [] s = "EMERGENCY_HALT"    -> {"POWERED_OFF"}
    [] OTHER                   -> {}

\* isTransitionInGraph
InGraph(from, to) == to \in BootSuccessors(from)

\* transition() with no registered conditions: the state after the call.
BootAfter(from, to) == IF InGraph(from, to) THEN to ELSE from
=============================================================================
