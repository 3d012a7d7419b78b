SPECIFICATION Spec
CONSTANTS
  Convs = {c1, c2}
  Tasks = {t1, t2}
  MaxId = 5
  MaxTurns = 3
SYMMETRY Symmetry
INVARIANTS
  TypeOK
  TranscriptSound
  AnsweredInContext
