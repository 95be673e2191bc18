SPECIFICATION Spec
CONSTANTS
  NumCPU = 3
  MaxAddr = 0
  Budgets <- MCBudgets
  MaxHistory = 1
  MaxCycles = 0
  MaxHooks = 0
  Debugging = FALSE
  Parkable <- MCLastCPU
  Conditional <- MCNone
  Snapshots <- MCRunSnapshots
  Checkpoints <- MCNone
INVARIANTS
  TypeOK
  BoundedWaiting
  HaltStopsRun
  ErrorStopsExecution
  PanicIsError
PROPERTIES
  HaltEndsRun
  ImplementsMachineLife
