SPECIFICATION Spec
CONSTANTS
  Machines = {m1}
  Loops = {l1, l2}
  None = None
  MaxSnapshots = 2
INVARIANTS
  TypeOK
  SettledBetweenCalls
PROPERTIES
  ImplementsLifecycle
  MachinesLive
  IdentifiersNameOneSnapshot
  StopTakesEffect
  ErrorReachesMetadata
CHECK_DEADLOCK FALSE
