SPECIFICATION FairSpec
CONSTANTS
  Users = {u1, u2}
  StdIn = stdin
  StdOut = stdout
  StdErr = stderr
  Iters = {i1}
  NoOne = NoOne
  MaxFormats = 2
INVARIANTS
  TypeOK
  CallableAlive
  HandleTruthful
  CountCoversOpen
  AllReleased
PROPERTIES
  HandlesSpec
  GarbageIsClosed
