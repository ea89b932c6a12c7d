SPECIFICATION Spec
CONSTANTS
  MaxPages = 3
  Edge = 0
  Broken <- MCBroken
  MaxStreams = 3
  MaxParts = 3
  MaxDates = 4
  TablesBack = 3
  Interval = 1
  MinInterval = 2
  maxTries = 2
  Absent <- MCAbsent
  Second = 1
  MaxCalls = 1
  Tokens <- MCTokens
  SQLFiles <- MCSQLFiles
  NumCols <- MCNumCols
  Pages <- MCPages
  Commands <- MCCommands
  IDs <- MCIDs
  StreamTexts <- MCStreamTexts
  IDFiles <- MCIDFiles
  Limits <- MCLimits
  Projects <- MCProjects
  Parts <- MCParts
  Requests <- MCRequests
  Tables <- MCTables
  TableFile <- MCTableFile
  Listings <- MCListings
  NoAnswer <- MCNoAnswer
  Queries <- MCQueries
  Fetchers <- MCFetchers
  Waits <- MCWaits
INVARIANTS
    RowsArePrefix
    EofIsWhole
    WritesTheAsked
    ReadsTheWanted
    EachPageOnce
    TakesTheRight
PROPERTY FetchesApart
CHECK_DEADLOCK FALSE
