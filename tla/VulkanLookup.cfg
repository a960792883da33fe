SPECIFICATION Spec
CONSTANTS
  Backend = "Vulkan"
  UHalfMax = 3
  MaxHandles = 2
  a1 = a1
  a2 = a2
  a3 = a3
  n1 = n1
  Null = Null
  Addr <- MCAddr
  Names <- MCNames
SYMMETRY AddrSymmetry
INVARIANT LookupInBounds
CHECK_DEADLOCK FALSE
