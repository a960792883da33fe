SPECIFICATION Spec
CONSTANTS
  Programs <- BoidsOnly
  Passes <- MCPasses
  ImageCount = 3
  MaxCopies = 0
  MaxQueued = 3
PROPERTY FramesGoOn
CHECK_DEADLOCK FALSE
