SPECIFICATION Spec
CONSTANTS
  Programs <- TestImGuiOnly
  Passes <- MCPasses
  ImageCount = 3
  MaxCopies = 2
  MaxQueued = 3
INVARIANT BlockWaits
