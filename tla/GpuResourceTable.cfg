SPECIFICATION Spec
CONSTANTS
  Backend = "WebGPU"
  UHalfMax = 3
  MaxHandles = 2
  a1 = a1
  a2 = a2
  a3 = a3
  n1 = n1
  Null = Null
  Addr <- MCAddr
  Names <- MCNames
SYMMETRY AddrSymmetry
INVARIANTS
  TypeOK
  LookupSound
  LookupInBounds
  NoLeak
  DestroyedIsGone
PROPERTY ImplementsMap
CHECK_DEADLOCK FALSE
