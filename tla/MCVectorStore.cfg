SPECIFICATION StoreSpec
CONSTANTS
  Vectors <- MCVectors
  NoVector = NoVector
  Distance <- MCDistance
  M = 1
  EfConstruction = 3
  EfSearch = 2
  TopK = 2
  Threshold = 2
  SourceOf <- MCSourceOf
  Levels = {0, 1}
  MaxOpens = 2
INVARIANTS
  StoreTypeOK
  SearchIsLocallyOptimal
  IndexAgreesWithRows
