SPECIFICATION Spec
CONSTANTS
  Graphs <- MCGraphs
  Reads <- MCReads
  Compiles <- MCCompiles
  MaxCalls = 2
INVARIANTS
  TypeOK
  NoTableTwice
  CopyMirrors
  DumpLoads
  OnlyRefusals
PROPERTY EveryCallEnds
