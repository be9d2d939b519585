SPECIFICATION MCSpec
CONSTANTS
  TriggerTimeout = 3
  Interval = 2
  Step = 3
  MaxBrightness = 4
  MaxTasks = 2
  Blocks = {b1, b2}
  Lights = {lamp}
  Groups = {group}
  ShellCommands = {"off"}
  NoBlock = NoBlock
SYMMETRY BlockSymmetry
INVARIANT
  DimsAsDocumented
