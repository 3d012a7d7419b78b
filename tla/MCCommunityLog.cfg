SPECIFICATION Spec
CONSTANTS
  Nodes <- MCNodes
  Creator = 1
  Ids <- MCIds
  r1 = r1
  r2 = r2
  r3 = r3
  Requests = {r1, r2, r3}
  Home <- MCHome
  KnownLimit = 1
  PageSize = 1
  MaxPages = 3
  MaxTime = 1
SYMMETRY Alike
CONSTRAINT OneExchange
INVARIANTS
  TypeOK
  NumbersGrow
PROPERTIES
  SyncComplete
  HiddenStaysHidden
