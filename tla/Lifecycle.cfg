SPECIFICATION FairLSpec
CONSTANTS
  Thread = {t1, t2}
  N = 1
  Capacity <- MCCapacity
  MaxSize = 1
  Chosen = {1}
  MaxLives = 2
  MaxKillers = 1
INVARIANTS
  LTypeOK
  EntriesSurvive
  BalancedOverRestarts
  InitializerReady
  SegmentNamesProducer
PROPERTY
  KilledProducerEnds
