SPECIFICATION Spec
CONSTANTS
  A = A
  B = B
  m1 = m1
  m2 = m2
  Anonymous = Anonymous
  Unnamed = Unnamed
  NoEngine = NoEngine
  NoArgs = NoArgs
  NoBody = NoBody
  None = None
  Models = {A, B}
  Members = {m1, m2}
  Handlers = {h1, h2}
  Engines = {e1, e2}
  Bodies <- MCBodies
SYMMETRY Symmetry
INVARIANTS
  TypeOK
  ModelMuExact
  EngineOwned
  RequestsIsolated
  StatusTruthful
