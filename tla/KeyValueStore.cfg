SPECIFICATION HSpec
CONSTANTS
  Key = {k1, k2}
  Value = {empty, short, long}
  empty = empty
  short = short
  long = long
  Missing = Missing
  NoKey = NoKey
  Length <- MCLength
  BLOCKSIZE = 4
  LengthFieldSize = 2
  SizeModulus = 64
  Piece = {1, 3}
  MaxBlock = 5
  MaxNewNodes = 1
SYMMETRY KeySymmetry
INVARIANTS TypeOK SpaceDisjoint LocatorAssertions FileHoldsAll StreamInFile
PROPERTY ImplementsKeyValueMap
CHECK_DEADLOCK FALSE
