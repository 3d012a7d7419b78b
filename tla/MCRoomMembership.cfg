SPECIFICATION Spec
CONSTANTS
  Creator = Creator
  Joiners = {j1}
  Handlers = {h1, h2}
  Crashable = {Creator}
  MaxVersion = 4
  MaxCodes = 2
SYMMETRY Symmetry
CONSTRAINT Bounded
INVARIANTS
  TypeOK
  CreatorAhead
  OneChangePerVersion
  
PROPERTIES
  RemovalIsFinal
