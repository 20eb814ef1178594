SPECIFICATION TwoSpec
CONSTANTS
  Thread = {t1, t2}
  N = 1
  Capacity <- MCCapacity
  MaxSize = 1
INVARIANT
  NoClash
