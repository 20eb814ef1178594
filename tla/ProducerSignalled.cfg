SPECIFICATION LSpec
CONSTANTS
  Thread = {t1, t2}
  N = 1
  Capacity <- MCCapacity
  MaxSize = 1
  Chosen = {1}
  MaxLives = 2
  MaxKillers = 1
INVARIANT
  ProducerSignalled
