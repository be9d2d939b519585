SPECIFICATION FairSpec
CONSTANTS
  Window = 3
  Threshold = 2
  PollPeriod = 1
  PulseWidth = 2
  StandbyDelay = 3
  StandbyWidth = 2
  MaxEvents = 1
  Prompt = TRUE
PROPERTIES
  Quiesces
  Converges
