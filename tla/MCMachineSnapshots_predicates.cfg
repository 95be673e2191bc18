SPECIFICATION Spec
CONSTANTS
  NumCPUs = 1
  NumPR = 2
  Predicate <- MCPredicate
  Batches <- MCBatches
  MaxTime = 3
  MaxCaptures = 3
  None = None
INVARIANT
  PredicatesAsTaken
