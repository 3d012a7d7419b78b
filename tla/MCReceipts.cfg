SPECIFICATION Spec
CONSTANTS
  Members = {1, 2, 3}
  Ids = {1, 2, 3}
  Asks <- MCAsks
  MaxTime = 1
  PageSize = 1
  MaxPages = 4
  KnownLimit = 1
  MaxPerPairDay = 1
  DayLength = 2
  Window = 1
  Skew = 0
  Strangers <- MCStrangers
  Syncers = {3}
  Choosers = {1}
INVARIANTS
  TypeOK
  LeaderboardsAgree
PROPERTIES
  SessionComplete
