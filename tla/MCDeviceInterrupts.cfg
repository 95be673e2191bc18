SPECIFICATION Spec
CONSTANTS
  NumCPUs = 2
  Vectors = {2, 32, 33}
  Programmed = {32}
  Intervals = {1, 2}
  MaxTick = 2
  MaxPending = 1
  Machines <- MCMachines
INVARIANTS
  TypeOK
  NoSleepOnInterrupt
  NoneLostOrDoubled
  QueuedOnlyUnconnected
PROPERTIES
  TimerKeepsFiring
CHECK_DEADLOCK FALSE
