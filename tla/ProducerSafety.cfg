SPECIFICATION Spec
CONSTANTS
  Thread = {t1, t2, t3}
  N = 2
  Capacity <- MCCapacity
  MaxSize = 2
SYMMETRY Symmetry
INVARIANTS
  TypeOK
  MutualExclusion
  MemoryFileReady
  Reservations
  SpaceConserved
  LogTagsMatch
  LogNeverOvercommits
PROPERTY
  ImplementsAllocator
