SPECIFICATION Spec
CONSTANTS
  Targets = 1
  MaxBoids = 1
  InitialBoids = {0}
  Switches <- OnlyOn
  MaxFrames = 2
INVARIANT CycleEnded
CHECK_DEADLOCK FALSE
