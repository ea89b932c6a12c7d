SPECIFICATION Spec
CONSTANTS
  Name <- MCName
  Column <- MCColumn
  Object <- MCObject
  Fold <- MCFold
  FoldIndex <- MCFoldIndex
  Loads <- AllLoads
  batch = 2
  MaxFaults = 2
INVARIANTS GoodIsExact BatchesInOrder
