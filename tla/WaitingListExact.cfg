SPECIFICATION Spec
CONSTANTS
  Thread = {t1, t2}
  N = 2
  Capacity <- MCCapacity
  MaxSize = 2
INVARIANT
  WaitingListExact
