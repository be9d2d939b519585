SPECIFICATION UrgentSpec
CONSTANTS
  Window = 10
  Threshold = 8
  PollPeriod = 1
  PulseWidth = 3
  StandbyDelay = 10
  StandbyWidth = 3
  MaxEvents = 2
  Prompt = TRUE
  MaxEnv = 3
PROPERTY
  OffGetsStandby
