SPECIFICATION SSpec
CONSTANTS
  Thread = {t1, t2}
  N = 2
  Capacity <- MCCapacity
  MaxSize = 2
SYMMETRY SpySymmetry
INVARIANTS
  STypeOK
  ReadIsExact
