SPECIFICATION Spec
CONSTANTS
  Process <- TwoRuns
  Body <- AllBodies
  Long <- LongPage
  MaxBad = 2
  MaxCrashes = 1
INVARIANTS EntryWhole
PROPERTIES Recovers
