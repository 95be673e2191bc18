SPECIFICATION Spec
CONSTANTS
  NumCPU = 1
  MaxAddr = 0
  Budgets <- MCNone
  MaxHistory = 2
  MaxCycles = 3
  MaxHooks = 1
  Debugging = TRUE
  Parkable <- MCNone
  Conditional <- MCOnlyAddr
  Snapshots <- MCDebugSnapshots
  Checkpoints <- MCCheckpoints
CONSTRAINT MCEarlyBoot
INVARIANTS
  HaltedAgree
  HistoryOrdered
