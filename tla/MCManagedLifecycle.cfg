SPECIFICATION Spec
CONSTANTS
  A = A
  B = B
  ra = ra
  rb = rb
  rx = rx
  rm = rm
  NoModel = NoModel
  External = External
  Misconfigured = Misconfigured
  Nobody = Nobody
  Models = {A, B}
  Requests = {ra, rb, rm}
  modelOf <- MCModelOf
  Owners = {o1}
  OwnerJobs <- MCAllJobs
  Callbacks = {c1, c2}
  Policies <- MCPolicies
  BootEngines <- MCAnyBoot
  Faults <- MCAllFaults
SYMMETRY Symmetry
INVARIANTS
  TypeOK
  ReleaseDiscipline
  NeverForgotten
PROPERTIES
  Uninterrupted
