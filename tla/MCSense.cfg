SPECIFICATION MCSpec
CONSTANTS
  Window = 10
  Threshold = 8
  Width = 16
INVARIANTS
  SteadyPinWins
  PreloadHolds
  VoteOfWindow
PROPERTY
  WindowSpec
