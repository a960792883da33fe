SPECIFICATION Spec
CONSTANTS
  Targets = 1
  MaxBoids = 2
  InitialBoids = {0, 1}
  Switches <- OneOff
  MaxFrames = 2
INVARIANTS
  TypeOK
  Fits
  CollectedAtRest
  SettledCycleEnded
PROPERTIES
  ResizedAlone
CONSTRAINT SettledInTime
CHECK_DEADLOCK FALSE
