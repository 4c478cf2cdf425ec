SPECIFICATION Spec
CONSTANTS
  Values <- MCValues
  EncodingsOf <- Encodings
  Texts <- MCTexts
  Shown <- MCShown
  Infinite <- MCInfinite
INVARIANTS
  TypeOK
  DepthIsNesting
  EncodedTextsDecode
  RoundTrip
PROPERTY EveryDecodeEnds
