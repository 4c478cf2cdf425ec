SPECIFICATION FairSpec
CONSTANTS
  Threads = {t1, t2}
  r1 = r1
  r2 = r2
  shared = shared
  own = own
  short = short
  Roots <- MCRoots
  Paths <- MCPaths
  ShortPaths <- MCShortPaths
  Holds <- MCHolds
  NoRoot = NoRoot
  Raised = Raised
  NotYet = NotYet
  NoCall = NoCall
  NoThread = NoThread
  MaxCalls = 2
INVARIANTS
  TypeOK
  OneOwner
  UsedWhenBuilt
PROPERTIES
  RegistrySpec
  EveryCallReturns
