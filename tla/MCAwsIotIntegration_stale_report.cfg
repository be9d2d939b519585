SPECIFICATION MCSpec
CONSTANTS
  Values = {0, 1}
  Errors = FALSE
  MaxEnv = 4
INVARIANT
  ShadowInSync
