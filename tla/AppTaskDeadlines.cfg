SPECIFICATION DeadlineSpec
CONSTANTS
  Window = 2
  Threshold = 2
  PollPeriod = 1
  PulseWidth = 2
  StandbyDelay = 3
  StandbyWidth = 2
  MaxEvents = 1
  Prompt = FALSE
INVARIANTS
  TypeOK
  ControlPinReleased
  StandbyPulseWhole
  FlagsHaveEnd
  ControlPulseBounded
  MutedBriefly
  PollsInTime
  VoteFollowsPin
PROPERTIES
  StandbyLineSpec
  LoneActionComplete
