SPECIFICATION Spec
CONSTANTS
  Programs <- AllPrograms
  Passes <- MCPasses
  ImageCount = 3
  MaxCopies = 1
  MaxQueued = 3
INVARIANTS
  TypeOK
  PendingUntouched
  FenceDiscipline
  SemaphoreDiscipline
  DrawsIntoAcquired
  PresentsDrawn
PROPERTY OneDrawGoesOn
CHECK_DEADLOCK FALSE
