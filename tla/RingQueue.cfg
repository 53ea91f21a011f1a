\* Three threads and two pointers on a ring of two; the indices wrap after
\* eight pushes, so that every alignment of head and tail to the wrap occurs.
\* No symmetry: LockIsReleased is a liveness property.
CONSTANTS
  Threads = {t1, t2, t3}
  Items = {a, b}
  NULL = NULL
  kCapacity = 2
  IndexSpan = 8
SPECIFICATION FairSpec
INVARIANTS
  MutualExclusion
  NeverOverrun
PROPERTIES
  WedgedForever
  LinearizableUnlessWedged
  LockIsReleased
