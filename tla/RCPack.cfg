SPECIFICATION Spec
CONSTANTS
  Names <- MCNames
  Bases <- MCBases
  EntryPaths <- MCEntryPaths
  Sources <- MCSources
  Dots <- MCDots
  Sizes <- MCSizes
  Gone <- MCGone
  Stale = Stale
  MaxEntries = 2
  MaxChanges = 1
INVARIANTS
  TypeOK
  AcceptedFilesFound
  DataAligned
  ParserInBounds
  RoundTrip
  ServedBytes
