SPECIFICATION FairSpec
CONSTANTS
  Thread = {t1, t2}
  N = 2
  Capacity <- MCCapacity
  MaxSize = 2
PROPERTY
  EveryWorkerFinishes
