SPECIFICATION LoopSpec
CONSTANTS
  Window = 10
  Threshold = 8
  PollPeriod = 1
  PulseWidth = 3
  StandbyDelay = 10
  StandbyWidth = 3
  MaxEvents = 2
  Prompt = TRUE
  Latency = 10
PROPERTY
  NoLagRevert
