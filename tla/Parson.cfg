SPECIFICATION PSpec
CONSTANTS
  Name = {n1, n2, n3}
  Value = {v1, v2, v3, v4}
  NoName = NoName
  NoValue = NoValue
  StartingCapacity = 1
  MaxCapacity = 4
  MaxNesting = 2
  MaxLevels = 4
  IntMin <- MCIntMin
  UIntMax = 1
  MaxPath = 2
  Key = {"a", "b"}
  Chunk <- MCChunk
  Leaf <- MCLeaf
  Schemas <- MCSchemas
  MaxChunks = 5
  MaxTokens = 15
  Unit <- MCUnit
  Byte <- MCByte
  MaxUnits = 3
  MaxBytes = 4
SYMMETRY Interchangeable
INVARIANTS
  PTypeOK
  DistinctNames
  Ownership
  ArrayOwnership
  ParsedIsWritten
  RoundTrip
  DotsetTouchesItsPath
  RemoveAndSetBack
  ValidateAsPromised
  EscapesAreValid
  ValidIsWritten
PROPERTIES
  ImplementsMap
  KeepsIndexOrFillsHole
