SPECIFICATION Spec
CONSTANTS
  MaxPartitions = 4
  FreeSpaces <- MCFreeSpaces
  Sizes <- MCSizes
INVARIANTS
  TypeOK
  CandidateIsBest
  ResultCorrect
PROPERTY
  Returned
