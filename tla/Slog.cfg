SPECIFICATION FairSlogSpec
CONSTANTS
  Thread = {main, t1}
  Main = main
  NoThread = NoThread
  Mixed = Mixed
  Level = {1, 4}
  Config <- MCConfig
  DefaultLevel = 2
  DefaultFileLevel = 3
  MaxCalls = 2
INVARIANTS
  SlogTypeOK
  LinesAreWhole
  EveryCallIsLogged
  SameOrder
PROPERTY
  EveryCallReturns
