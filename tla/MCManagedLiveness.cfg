SPECIFICATION FairSpec
CONSTANTS
  A = A
  B = B
  ra = ra
  rb = rb
  rx = rx
  rm = rm
  NoModel = NoModel
  External = External
  Misconfigured = Misconfigured
  Nobody = Nobody
  Models = {A, B}
  Requests = {ra, rb, rx, rm}
  modelOf <- MCModelOf
  Owners = {}
  OwnerJobs <- MCNoJobs
  Callbacks = {c1, c2}
  Policies <- MCPolicies
  BootEngines <- MCColdBoot
  Faults <- MCNoHealthFault
PROPERTIES
  IdleEngineReleased
