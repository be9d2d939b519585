SPECIFICATION MCFairSpec
CONSTANTS
  Values = {0, 1}
  Errors = TRUE
  MaxEnv = 4
INVARIANTS
  TypeOK
  FlagFollowsSession
  NeverStranded
  PayloadTracks
  NoDesireLeft
  InSyncUnlessStale
PROPERTIES
  SessionSpec
  ReportsRight
  Reconnects
