SPECIFICATION FormatSpec
CONSTANTS
  SIZE = 8
  Base = 4
  BLOCKSIZE = 8
  Values <- MCValues
  Texts <- MCTexts
  BlockSize = {21, 22, 33, 45, 60, 100}
  Nodes <- MCNodes
  UserHeaders <- MCUserHeaders
  KeySize = {1, 4, 5, 6, 7, 24}
  ValueSize = {1, 6, 9}
INVARIANTS TypeOK ReadsBack NetworkOrder NodesFit BlocksReadBack
PROPERTY ErrorsJustified
