SPECIFICATION Spec
CONSTANTS
  r1 = r1
  r2 = r2
  f = f
  Rids <- MCRids
  Pages <- MCPages
  Identity = {1}
  HashPage = 2
  Sizes = {1, 2}
  NumDTLB = 2
  NumDTR = 1
  Frames <- MCFrames
  Contents <- MCContents
  MaxUnpurged = 1
  None = None
SYMMETRY Symmetry
INVARIANTS
  TypeOK
  NoTwins
  Coherent
  HitAgreesWithWalk
CHECK_DEADLOCK FALSE
