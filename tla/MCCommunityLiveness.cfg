SPECIFICATION PostsSpec
CONSTANTS
  Nodes <- MCNodes
  Creator = 1
  Ids <- MCIds
  r1 = r1
  r2 = r2
  r3 = r3
  Requests = {r1, r2}
  Home <- MCOwnHome
  KnownLimit = 0
  PageSize = 2
  MaxPages = 2
  MaxTime = 1
PROPERTIES
  EveryEventSpreads
