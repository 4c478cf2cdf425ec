CONSTANTS
  Bytes = {NL, x, one}
  NL = NL
  NUL = NUL
  Digits = {one}
  Formats <- MCFormats
  Nil = Nil
  Chunk = 3
  SizeMax = 15
  Offsets <- MCOffsets
  MaxFormats = 2
  MaxLength = 4
  MaxErrors = 1
SPECIFICATION FairSpec
INVARIANTS
  TypeOK
  ReadInPlace
PROPERTIES
  StreamSpec
  EveryReadReturns
