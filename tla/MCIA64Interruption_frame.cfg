SPECIFICATION Spec
CONSTANTS
  NumBundles = 2
  MaxDepth = 3
  FaultsInHandlers = TRUE
PROPERTIES
  RfiRestoresFrame
