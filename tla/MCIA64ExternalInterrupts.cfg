SPECIFICATION Spec
CONSTANTS
  Vectors <- MCVectors
  TimerVectors <- MCTimerVectors
  TaskPriorities <- MCTaskPriorities
  HalfRange = 2
  MaxRaised = 1
  MaxArmed = 2
  MaxAdjusted = 1
INVARIANTS
  TypeOK
  NoRequestLost
  InServiceBacked
  TimerFiresOncePerITM
PROPERTIES
  TimerEventuallyFires
  ImplementsRequests
