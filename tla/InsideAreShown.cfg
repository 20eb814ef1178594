SPECIFICATION WholeEntries
CONSTANTS
  Thread = {t1, t2}
  N = 2
  Capacity <- MCCapacity
  MaxSize = 1
SYMMETRY SpySymmetry
INVARIANT InsideAreShown
