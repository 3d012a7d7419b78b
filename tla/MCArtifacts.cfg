SPECIFICATION Spec
CONSTANTS
  Paths <- MCPaths
  Cached <- MCCached
  Flat <- MCFlat
  Blobs = {"small", "large"}
  Content <- MCContent
  Size <- MCSize
  Foreign = {"other"}
  Jobs = {j1, j2}
  Requests <- MCRequests
  Budgets = {3, 5}
SYMMETRY Symmetry
INVARIANTS
  TypeOK
  CacheSound
  NothingLeft
PROPERTIES
  BudgetRespected
